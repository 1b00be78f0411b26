--------------------------- MODULE SessionProofs ----------------------------
(***************************************************************************)
(* What the clock and the settling of colours guarantee, for every bank,   *)
(* time control, thinking time, proposal and nonce; and the invariants of  *)
(* an online match and its promise, proved of Session for every pair of    *)
(* peers, settings, players and interference.                              *)
(*                                                                         *)
(* The commit-reveal order of a phase: no program is on its way to a peer  *)
(* that has not decided (Sealed).  Sealed is not inductive.  A reveal      *)
(* leaves when the other's slot is there, so it has to be known that a     *)
(* peer whose slot was taken keeps its decision until the ack of that      *)
(* phase has come back; and an early slot of the next phase may lie behind *)
(* an ack in one box while the other box still holds the ack of the last.  *)
(* Keeps says how the two boxes and the two loops fit, AckIsLast and       *)
(* OneSlot in which order a box holds its messages.                        *)
(*                                                                         *)
(* A match keeps its promise: Session implements Promise.  That two peers  *)
(* are told the same is no invariant by itself: a peer ends a match from a *)
(* slot, a reveal or an ack that was sent earlier, while the other has     *)
(* gone on.  AInv says of every moment                                     *)
(*                                                                         *)
(*   - Base, Opened: the boxes are as Sealed needs them, and peers past    *)
(*     the handshake face each other with the same terms and opposite      *)
(*     colours;                                                            *)
(*   - Loop, Sound: what one peer keeps between two steps of its loop;     *)
(*   - Meet: the two games are the same, or one of them is a phase ahead   *)
(*     of a peer that waits for the last ack (Even, Trails); each message  *)
(*     on its way says what its sender still holds (Fits); and whatever    *)
(*     can yet be told to a peer is what the other was told (Told).        *)
(*                                                                         *)
(* There is one lemma for what each action does to the peer that takes it  *)
(* (...Effect), and one for how it keeps Meet (...Meet).                   *)
(*                                                                         *)
(* What a match may come to: every peer's loop is well typed and stops at  *)
(* the phase limit, both clocks are kept as C4 and C5 say, and only peers  *)
(* that were started to play each other reach a result.  Each is an        *)
(* invariant of one peer beside AInv, which says what that peer holds and  *)
(* has been sent: what is computed from two reveals is shown to satisfy    *)
(* the invariant once, when it is computed (ComputedLimits,                *)
(* ComputedAccounts), and taking the other's ack carries it over to the    *)
(* game, the banks and the verdict.                                        *)
(*                                                                         *)
(* A match that is left alone does not fail: the last part, with an        *)
(* invariant of its own (LeftAlone).                                       *)
(***************************************************************************)
EXTENDS Session, TLAPS

LOCAL INSTANCE FiniteSetsExt

-----------------------------------------------------------------------------
(***************************************************************************)
(* The clock and the colours.                                              *)
(***************************************************************************)
\* There are two colours, each the opponent of the other.
LEMMA OpponentDiffers ==
  ASSUME NEW c \in Color
  PROVE  /\ opponent(c) \in Color
         /\ opponent(c) # c
         /\ opponent(opponent(c)) = c
         /\ Color = {c, opponent(c)}
  BY DEF Color, opponent

\* The smaller of two numbers.
LEMMA MinOfTwo ==
  ASSUME NEW a \in Nat, NEW b \in Nat
  PROVE  /\ Min({a, b}) \in {a, b}
         /\ Min({a, b}) <= a
         /\ Min({a, b}) <= b
<1>1. \E x \in {a, b} : \A y \in {a, b} : x <= y
  OBVIOUS
<1>2. QED
  BY <1>1 DEF Min

\* A bonus is never negative, and is earned by the faster player only.
LEMMA BonusOfTheFaster ==
  ASSUME NEW tc \in TimeControl, NEW t \in Nat, NEW u \in Nat
  PROVE  /\ race_bonus(t, u, tc) \in Nat
         /\ race_bonus(t, u, tc) <= tc.bonus
         /\ race_bonus(t, u, tc) > 0 => t < u
         /\ tc.bonus_rule # "winner_take_all" /\ race_bonus(t, u, tc) > 0
              => race_bonus(t, u, tc) <= u - t
<1>1. tc.bonus \in Nat /\ tc.dead_zone \in Nat
  BY DEF TimeControl
<1>2. /\ capped_difference(t, u, tc) \in Nat
      /\ capped_difference(t, u, tc) <= tc.bonus
      /\ capped_difference(t, u, tc) > 0 => t < u /\ capped_difference(t, u, tc) <= u - t
  <2>1. CASE t < u
    <3>1. u - t \in Nat
      BY <2>1
    <3>2. QED
      BY <1>1, <2>1, <3>1, MinOfTwo DEF capped_difference
  <2>2. CASE ~ (t < u)
    BY <1>1, <2>2 DEF capped_difference
  <2>3. QED
    BY <2>1, <2>2
<1>3. /\ winner_take_all(t, u, tc) \in Nat
      /\ winner_take_all(t, u, tc) <= tc.bonus
      /\ winner_take_all(t, u, tc) > 0 => t < u
  BY <1>1 DEF winner_take_all
<1>4. dead_zone(t, u, tc) \in {0, capped_difference(t, u, tc)}
  BY DEF dead_zone
<1>5. race_bonus(t, u, tc) \in {0, capped_difference(t, u, tc), winner_take_all(t, u, tc)}
  BY <1>4 DEF race_bonus
<1>6. tc.bonus_rule # "winner_take_all"
        => race_bonus(t, u, tc) \in {0, capped_difference(t, u, tc)}
  BY <1>4 DEF race_bonus
<1>7. QED
  BY <1>1, <1>2, <1>3, <1>5, <1>6

\* C4, in each phase of any timed match: at most one of the two players earns a
\* bonus, it is the faster one, and except under the rule that pays the winner
\* the whole bonus it never exceeds the time that player saved.
THEOREM BonusIsEarned ==
  ASSUME NEW tc \in TimeControl, NEW before \in [Color -> Int],
         NEW spent \in [Color -> Nat], NEW c \in Color
  PROVE  /\ earned(before, tc, spent)[c] \in 0..tc.bonus
         /\ earned(before, tc, spent)[c] > 0 =>
              /\ earned(before, tc, spent)[opponent(c)] = 0
              /\ spent[c] < spent[opponent(c)]
              /\ tc.bonus_rule # "winner_take_all" =>
                   earned(before, tc, spent)[c] <= spent[opponent(c)] - spent[c]
<1>1. tc.bonus \in Nat
  BY DEF TimeControl
<1> DEFINE t == spent[c]
           u == spent[opponent(c)]
<1>2. t \in Nat /\ u \in Nat
  BY OpponentDiffers
<1>3. earned(before, tc, spent)[c] \in {0, race_bonus(t, u, tc)}
  BY DEF earned
<1>4. earned(before, tc, spent)[opponent(c)] \in {0, race_bonus(u, t, tc)}
  BY OpponentDiffers DEF earned
<1> HIDE DEF t, u
<1>5. /\ race_bonus(t, u, tc) \in 0..tc.bonus
      /\ race_bonus(t, u, tc) > 0 => t < u
      /\ tc.bonus_rule # "winner_take_all" /\ race_bonus(t, u, tc) > 0
           => race_bonus(t, u, tc) <= u - t
  BY <1>1, <1>2, BonusOfTheFaster
<1>6. /\ race_bonus(u, t, tc) \in Nat
      /\ race_bonus(u, t, tc) > 0 => u < t
  BY <1>2, BonusOfTheFaster
<1>7. race_bonus(t, u, tc) > 0 => race_bonus(u, t, tc) = 0
  BY <1>2, <1>5, <1>6
<1>8. QED
  BY <1>1, <1>2, <1>3, <1>4, <1>5, <1>7 DEF t, u

\* C5, in each phase of any timed match: exactly the players that are flagged
\* end the phase with no time left, for a fall ends the match before a bonus or
\* an increment could refill a bank, and time left is never spent to nothing.
THEOREM FallenIffEmpty ==
  ASSUME NEW tc \in TimeControl, NEW before \in [Color -> Int],
         NEW spent \in [Color -> Nat], NEW c \in Color
  PROVE  /\ banks_after(before, tc, spent)[c] \in Int
         /\ c \in flagged(before, spent) <=> banks_after(before, tc, spent)[c] <= 0
<1> DEFINE left == before[c] - spent[c]
           bonus == earned(before, tc, spent)[c]
<1>1. left \in Int /\ tc.increment \in Nat
  BY DEF TimeControl
<1>2. c \in flagged(before, spent) <=> left <= 0
  BY DEF flagged
<1>3. bonus \in Nat /\ (flagged(before, spent) # {} => bonus = 0)
  <2>1. bonus \in Nat
    <3>1. tc.bonus \in Nat
      BY DEF TimeControl
    <3>2. QED
      BY <3>1, BonusIsEarned
  <2>2. flagged(before, spent) # {} => bonus = 0
    BY DEF earned
  <2>3. QED
    BY <2>1, <2>2
<1>4. banks_after(before, tc, spent)[c]
        = left + (IF flagged(before, spent) = {} THEN tc.increment ELSE 0) + bonus
  BY DEF banks_after
<1> HIDE DEF left, bonus
<1>5. CASE flagged(before, spent) = {}
  BY <1>1, <1>2, <1>3, <1>4, <1>5
<1>6. CASE flagged(before, spent) # {}
  BY <1>1, <1>2, <1>3, <1>4, <1>6
<1>7. QED
  BY <1>5, <1>6

\* The colours two peers settle on from the same two proposals are opposite, and
\* one of them finds no colour exactly when the other finds none: when both ask
\* for the same colour with equal nonces.
THEOREM ColoursSettled ==
  ASSUME NEW a, NEW b,
         a.proposed_color \in Color, b.proposed_color \in Color,
         a.nonce \in Nat, b.nonce \in Nat
  PROVE  /\ negotiate_color(a, b) = {} <=>
              a.proposed_color = b.proposed_color /\ a.nonce = b.nonce
         /\ negotiate_color(a, b) = {} <=> negotiate_color(b, a) = {}
         /\ \A c \in negotiate_color(a, b) :
              c \in Color /\ negotiate_color(b, a) = {opponent(c)}
<1>1. CASE a.proposed_color # b.proposed_color
  <2>1. negotiate_color(a, b) = {a.proposed_color} /\ negotiate_color(b, a) = {b.proposed_color}
    BY <1>1 DEF negotiate_color
  <2>2. b.proposed_color = opponent(a.proposed_color)
    BY <1>1, OpponentDiffers
  <2>3. QED
    BY <1>1, <2>1, <2>2
<1>2. CASE a.proposed_color = b.proposed_color /\ a.nonce = b.nonce
  BY <1>2 DEF negotiate_color
<1>3. CASE a.proposed_color = b.proposed_color /\ a.nonce # b.nonce
  <2>1. \/ /\ negotiate_color(a, b) = {a.proposed_color}
           /\ negotiate_color(b, a) = {opponent(a.proposed_color)}
        \/ /\ negotiate_color(a, b) = {opponent(a.proposed_color)}
           /\ negotiate_color(b, a) = {a.proposed_color}
    BY <1>3 DEF negotiate_color
  <2>2. QED
    BY <1>3, <2>1, OpponentDiffers
<1>4. QED
  BY <1>1, <1>2, <1>3

-----------------------------------------------------------------------------
(***************************************************************************)
(* The order of a phase.                                                   *)
(***************************************************************************)
\* What a sequence of messages holds, and in which order.
Holds(box, kinds) == \E i \in 1..Len(box) : box[i].type \in kinds
Exchange == {"reveal", "ack"}
AckIsLast(box) ==
  \A i, j \in 1..Len(box) : i < j /\ box[i].type = "ack" => box[j].type \notin Exchange
OneSlot(box) ==
  \A i, j \in 1..Len(box) : i < j /\ box[i].type \in Slots => box[j].type \notin Slots
IsBox(box) == \E S : box \in Seq(S)

\* An empty box holds nothing, in every order.
LEMMA EmptyBox ==
  /\ IsBox(<<>>) /\ AckIsLast(<<>>) /\ OneSlot(<<>>)
  /\ \A kinds : ~ Holds(<<>>, kinds)
<1>1. <<>> \in Seq({}) /\ Len(<<>>) = 0
  OBVIOUS
<1>2. QED
  BY <1>1 DEF IsBox, AckIsLast, OneSlot, Holds

\* A box with one more message.
LEMMA AppendedBox ==
  ASSUME NEW box, IsBox(box), NEW m
  PROVE  /\ IsBox(Append(box, m))
         /\ \A kinds : Holds(Append(box, m), kinds) <=> Holds(box, kinds) \/ m.type \in kinds
         /\ AckIsLast(box) /\ (m.type \in Exchange => ~ Holds(box, {"ack"}))
              => AckIsLast(Append(box, m))
         /\ OneSlot(box) /\ (m.type \in Slots => ~ Holds(box, Slots))
              => OneSlot(Append(box, m))
<1>1. PICK S : box \in Seq(S)
  BY DEF IsBox
<1>2. box \in Seq(S \cup {m})
  BY <1>1
<1> DEFINE longer == Append(box, m)
<1>3. /\ longer \in Seq(S \cup {m})
      /\ Len(longer) = Len(box) + 1
      /\ Len(box) \in Nat
      /\ longer[Len(longer)] = m
      /\ \A i \in 1..Len(box) : longer[i] = box[i]
  BY <1>2
<1> HIDE DEF longer
<1>4. IsBox(longer)
  BY <1>3 DEF IsBox
<1>5. ASSUME NEW kinds PROVE Holds(longer, kinds) <=> Holds(box, kinds) \/ m.type \in kinds
  <2>1. ASSUME Holds(longer, kinds) PROVE Holds(box, kinds) \/ m.type \in kinds
    <3>1. PICK i \in 1..Len(longer) : longer[i].type \in kinds
      BY <2>1 DEF Holds
    <3>2. CASE i = Len(longer)
      BY <1>3, <3>1, <3>2
    <3>3. CASE i # Len(longer)
      <4>1. i \in 1..Len(box)
        BY <1>3, <3>1, <3>3
      <4>2. QED
        BY <1>3, <3>1, <4>1 DEF Holds
    <3>4. QED
      BY <3>2, <3>3
  <2>2. ASSUME Holds(box, kinds) PROVE Holds(longer, kinds)
    <3>1. PICK i \in 1..Len(box) : box[i].type \in kinds
      BY <2>2 DEF Holds
    <3>2. i \in 1..Len(longer) /\ longer[i] = box[i]
      BY <1>3, <3>1
    <3>3. QED
      BY <3>1, <3>2 DEF Holds
  <2>3. ASSUME m.type \in kinds PROVE Holds(longer, kinds)
    <3>1. Len(longer) \in 1..Len(longer)
      BY <1>3
    <3>2. QED
      BY <1>3, <2>3, <3>1 DEF Holds
  <2>4. QED
    BY <2>1, <2>2, <2>3
<1>6. ASSUME AckIsLast(box), m.type \in Exchange => ~ Holds(box, {"ack"})
      PROVE  AckIsLast(longer)
  <2>1. SUFFICES ASSUME NEW i \in 1..Len(longer), NEW j \in 1..Len(longer),
                        i < j, longer[i].type = "ack"
                 PROVE  longer[j].type \notin Exchange
    BY DEF AckIsLast
  <2>2. i \in 1..Len(box) /\ longer[i] = box[i]
    BY <1>3, <2>1
  <2>3. CASE j = Len(longer)
    BY <1>3, <1>6, <2>1, <2>2, <2>3 DEF Holds
  <2>4. CASE j # Len(longer)
    <3>1. j \in 1..Len(box) /\ longer[j] = box[j]
      BY <1>3, <2>1, <2>4
    <3>2. QED
      BY <1>6, <2>1, <2>2, <3>1 DEF AckIsLast
  <2>5. QED
    BY <2>3, <2>4
<1>7. ASSUME OneSlot(box), m.type \in Slots => ~ Holds(box, Slots)
      PROVE  OneSlot(longer)
  <2>1. SUFFICES ASSUME NEW i \in 1..Len(longer), NEW j \in 1..Len(longer),
                        i < j, longer[i].type \in Slots
                 PROVE  longer[j].type \notin Slots
    BY DEF OneSlot
  <2>2. i \in 1..Len(box) /\ longer[i] = box[i]
    BY <1>3, <2>1
  <2>3. CASE j = Len(longer)
    BY <1>3, <1>7, <2>1, <2>2, <2>3 DEF Holds
  <2>4. CASE j # Len(longer)
    <3>1. j \in 1..Len(box) /\ longer[j] = box[j]
      BY <1>3, <2>1, <2>4
    <3>2. QED
      BY <1>7, <2>1, <2>2, <3>1 DEF OneSlot
  <2>5. QED
    BY <2>3, <2>4
<1>8. QED
  BY <1>4, <1>5, <1>6, <1>7 DEF longer

\* Of a box without its first message, or cut off after some message.
LEMMA ShorterBox ==
  ASSUME NEW box, IsBox(box), NEW short, IsBox(short), NEW k \in Nat,
         Len(short) + k <= Len(box),
         \A i \in 1..Len(short) : short[i] = box[i + k]
  PROVE  /\ \A kinds : Holds(short, kinds) => Holds(box, kinds)
         /\ AckIsLast(box) => AckIsLast(short)
         /\ OneSlot(box) => OneSlot(short)
<1>1. Len(box) \in Nat /\ Len(short) \in Nat
  BY DEF IsBox
<1>2. \A i \in 1..Len(short) : i + k \in 1..Len(box)
  BY <1>1
<1>3. ASSUME NEW kinds, Holds(short, kinds) PROVE Holds(box, kinds)
  BY <1>2, <1>3 DEF Holds
<1>4. \A i, j \in 1..Len(short) : i < j => i + k < j + k
  BY <1>1
<1>5. AckIsLast(box) => AckIsLast(short)
  BY <1>2, <1>4 DEF AckIsLast
<1>6. OneSlot(box) => OneSlot(short)
  BY <1>2, <1>4 DEF OneSlot
<1>7. QED
  BY <1>3, <1>5, <1>6

\* A box without its first message.
LEMMA TakenBox ==
  ASSUME NEW box, IsBox(box), box # <<>>
  PROVE  /\ IsBox(Tail(box))
         /\ \A kinds : Holds(Tail(box), kinds) => Holds(box, kinds)
         /\ \A kinds : Head(box).type \in kinds => Holds(box, kinds)
         /\ AckIsLast(box) => AckIsLast(Tail(box))
         /\ OneSlot(box) => OneSlot(Tail(box))
         /\ AckIsLast(box) /\ Head(box).type = "ack" => ~ Holds(Tail(box), Exchange)
         /\ OneSlot(box) /\ Head(box).type \in Slots => ~ Holds(Tail(box), Slots)
<1>1. PICK S : box \in Seq(S)
  BY DEF IsBox
<1>2. /\ Tail(box) \in Seq(S)
      /\ Len(box) \in Nat /\ Len(box) > 0
      /\ Len(Tail(box)) = Len(box) - 1
      /\ Head(box) = box[1]
      /\ \A i \in 1..Len(Tail(box)) : Tail(box)[i] = box[i + 1]
  BY <1>1
<1>3. IsBox(Tail(box))
  BY <1>2 DEF IsBox
<1>4. /\ \A kinds : Holds(Tail(box), kinds) => Holds(box, kinds)
      /\ AckIsLast(box) => AckIsLast(Tail(box))
      /\ OneSlot(box) => OneSlot(Tail(box))
  <2> DEFINE short == Tail(box)
  <2>1. /\ IsBox(short) /\ 1 \in Nat /\ Len(short) + 1 <= Len(box)
        /\ \A i \in 1..Len(short) : short[i] = box[i + 1]
    BY <1>2, <1>3
  <2> HIDE DEF short
  <2>2. /\ \A kinds : Holds(short, kinds) => Holds(box, kinds)
        /\ AckIsLast(box) => AckIsLast(short)
        /\ OneSlot(box) => OneSlot(short)
    BY <2>1, ShorterBox
  <2>3. QED
    BY <2>2 DEF short
<1>5. 1 \in 1..Len(box) /\ \A i \in 1..Len(Tail(box)) : i + 1 \in 1..Len(box) /\ 1 < i + 1
  BY <1>2
<1>6. \A kinds : Head(box).type \in kinds => Holds(box, kinds)
  BY <1>2, <1>5 DEF Holds
<1>7. AckIsLast(box) /\ Head(box).type = "ack" => ~ Holds(Tail(box), Exchange)
  BY <1>2, <1>5 DEF Holds, AckIsLast
<1>8. OneSlot(box) /\ Head(box).type \in Slots => ~ Holds(Tail(box), Slots)
  BY <1>2, <1>5 DEF Holds, OneSlot
<1>9. QED
  BY <1>3, <1>4, <1>6, <1>7, <1>8

\* A box cut off after its first n messages.
LEMMA CutBox ==
  ASSUME NEW box, IsBox(box), NEW n \in Nat, n <= Len(box)
  PROVE  /\ IsBox(SubSeq(box, 1, n))
         /\ \A kinds : Holds(SubSeq(box, 1, n), kinds) => Holds(box, kinds)
         /\ AckIsLast(box) => AckIsLast(SubSeq(box, 1, n))
         /\ OneSlot(box) => OneSlot(SubSeq(box, 1, n))
         /\ box = <<>> => SubSeq(box, 1, n) = <<>>
<1>1. PICK S : box \in Seq(S)
  BY DEF IsBox
<1> DEFINE short == SubSeq(box, 1, n)
<1>2. /\ short \in Seq(S)
      /\ Len(short) = n
      /\ \A i \in 1..Len(short) : short[i] = box[i]
  BY <1>1
<1>3. box = <<>> => short = <<>>
  BY <1>1, <1>2
<1> HIDE DEF short
<1>4. /\ IsBox(short) /\ 0 \in Nat /\ Len(short) + 0 <= Len(box)
      /\ \A i \in 1..Len(short) : short[i] = box[i + 0]
  BY <1>1, <1>2 DEF IsBox
<1>5. /\ \A kinds : Holds(short, kinds) => Holds(box, kinds)
      /\ AckIsLast(box) => AckIsLast(short)
      /\ OneSlot(box) => OneSlot(short)
  BY <1>4, ShorterBox
<1>6. QED
  BY <1>3, <1>4, <1>5 DEF short

-----------------------------------------------------------------------------
\* There are two peers, each the other of the other.
LEMMA OtherPeer ==
  ASSUME NEW p \in Peers
  PROVE  /\ other(p) \in Peers
         /\ other(p) # p
         /\ other(other(p)) = p
         /\ \A q \in Peers : q = p \/ q = other(p)
<1>1. PICK a \in Peers, b \in Peers : a # b /\ Peers = {a, b}
  BY PeersAssumption
<1>2. \A r \in Peers : other(r) \in Peers /\ other(r) # r
  BY <1>1 DEF other
<1>3. QED
  BY <1>1, <1>2

\* p holds the other's slot of a phase it has not acknowledged yet.
Ahead(p) == pc[p] = "revealing" \/ (pc[p] = "deciding" /\ slot[p] # {})

Arrays == /\ DOMAIN pc = Peers /\ DOMAIN inbox = Peers
          /\ DOMAIN choice = Peers /\ DOMAIN slot = Peers
Boxes ==
  \A p \in Peers :
    /\ IsBox(inbox[p]) /\ AckIsLast(inbox[p]) /\ OneSlot(inbox[p])
    /\ pc[p] = "over" => inbox[p] = <<>>
    /\ slot[p] # {} => pc[p] \in {"deciding", "revealing", "acking"}
\* p keeps its decision until it has taken an ack, and no ack reaches it before
\* the other has taken its slot and its reveal.
Keeps(p, q) ==
  pc[p] # "over" =>
    /\ Holds(inbox[p], {"reveal"}) => choice[p] # {}
    /\ Holds(inbox[p], {"ack"}) => choice[p] # {} /\ ~ Ahead(q) /\ ~ Holds(inbox[q], Slots)
    /\ Holds(inbox[q], Slots) => choice[p] # {}
    /\ Ahead(q) => choice[p] # {} /\ ~ Holds(inbox[q], Slots)
\* The inductive invariant.
SInv == Arrays /\ Boxes /\ \A p \in Peers : Keeps(p, other(p))

\* What a step may do to the boxes: p takes its first message, or not, and
\* sends at most one message, of these kinds, to a peer that is not over.
Moves(p, kinds) ==
  /\ DOMAIN inbox' = Peers
  /\ \/ inbox'[p] = inbox[p]
     \/ (inbox[p] # <<>> /\ inbox'[p] = Tail(inbox[p]))
  /\ \/ inbox'[other(p)] = inbox[other(p)]
     \/ /\ pc[other(p)] # "over"
        /\ \E m : m.type \in kinds /\ inbox'[other(p)] = Append(inbox[other(p)], m)

Chat == {"handshake", "ping", "pong"}

\* Sending one message, alone or as the answer to the first of the box.
LEMMA Sent ==
  ASSUME NEW p \in Peers, DOMAIN inbox = Peers, NEW m, NEW kinds, m.type \in kinds
  PROVE  /\ inbox' = post(inbox, p, m) => Moves(p, kinds)
         /\ inbox[p] # <<>> /\ inbox' = post(taken(p), p, m) => Moves(p, kinds)
<1>1. other(p) \in Peers /\ other(p) # p
  BY OtherPeer
<1>2. ASSUME inbox' = post(inbox, p, m) PROVE Moves(p, kinds)
  <2>1. CASE cut \/ pc[other(p)] = "over"
    BY <1>2, <2>1 DEF post, Moves
  <2>2. CASE ~ (cut \/ pc[other(p)] = "over")
    <3>1. inbox' = [inbox EXCEPT ![other(p)] = Append(inbox[other(p)], m)]
      BY <1>2, <2>2 DEF post
    <3>2. QED
      BY <1>1, <2>2, <3>1 DEF Moves
  <2>3. QED
    BY <2>1, <2>2
<1>3. ASSUME inbox[p] # <<>>, inbox' = post(taken(p), p, m) PROVE Moves(p, kinds)
  <2> DEFINE box == taken(p)
  <2>1. DOMAIN box = Peers /\ box[p] = Tail(inbox[p]) /\ box[other(p)] = inbox[other(p)]
    BY <1>1 DEF taken
  <2> HIDE DEF box
  <2>2. CASE cut \/ pc[other(p)] = "over"
    <3>1. inbox' = box
      BY <1>3, <2>2 DEF post, box
    <3>2. QED
      BY <1>3, <2>1, <3>1 DEF Moves
  <2>3. CASE ~ (cut \/ pc[other(p)] = "over")
    <3>1. inbox' = [box EXCEPT ![other(p)] = Append(box[other(p)], m)]
      BY <1>3, <2>3 DEF post, box
    <3>2. QED
      BY <1>1, <1>3, <2>1, <2>3, <3>1 DEF Moves
  <2>4. QED
    BY <2>2, <2>3
<1>4. QED
  BY <1>2, <1>3

\* Taking the first message without an answer.
LEMMA Taken ==
  ASSUME NEW p \in Peers, DOMAIN inbox = Peers, inbox[p] # <<>>, inbox' = taken(p)
  PROVE  \A kinds : Moves(p, kinds)
BY OtherPeer DEF taken, Moves

\* The boxes stay well ordered, and what they hold is what they held or was sent,
\* when a slot goes to a box without slots, a reveal or ack to one without acks.
LEMMA BoxesMoved ==
  ASSUME SInv, NEW p \in Peers, NEW kinds, Moves(p, kinds),
         \/ kinds = Chat
         \/ (kinds = Slots /\ ~ Holds(inbox[other(p)], Slots))
         \/ kinds \in {{"reveal"}, {"ack"}}
              /\ (pc[other(p)] # "over" => ~ Holds(inbox[other(p)], {"ack"}))
  PROVE  /\ \A r \in Peers : /\ IsBox(inbox'[r]) /\ AckIsLast(inbox'[r]) /\ OneSlot(inbox'[r])
                             /\ pc[r] = "over" => inbox'[r] = <<>>
         /\ \A k : Holds(inbox'[p], k) => Holds(inbox[p], k)
         /\ \A k : Holds(inbox'[other(p)], k)
                     => \/ Holds(inbox[other(p)], k)
                        \/ pc[other(p)] # "over" /\ kinds \cap k # {}
<1> DEFINE q == other(p)
<1>1. q \in Peers /\ \A r \in Peers : r = p \/ r = q
  BY OtherPeer
<1> HIDE DEF q
<1>2. \A r \in Peers : /\ IsBox(inbox[r]) /\ AckIsLast(inbox[r]) /\ OneSlot(inbox[r])
                       /\ pc[r] = "over" => inbox[r] = <<>>
  BY DEF SInv, Boxes
<1>3. /\ IsBox(inbox'[p]) /\ AckIsLast(inbox'[p]) /\ OneSlot(inbox'[p])
      /\ pc[p] = "over" => inbox'[p] = <<>>
      /\ \A k : Holds(inbox'[p], k) => Holds(inbox[p], k)
  <2>1. CASE inbox'[p] = inbox[p]
    BY <1>2, <2>1
  <2>2. CASE inbox[p] # <<>> /\ inbox'[p] = Tail(inbox[p])
    BY <1>2, <2>2, TakenBox
  <2>3. QED
    BY <2>1, <2>2 DEF Moves
<1>4. /\ IsBox(inbox'[q]) /\ AckIsLast(inbox'[q]) /\ OneSlot(inbox'[q])
      /\ pc[q] = "over" => inbox'[q] = <<>>
      /\ \A k : Holds(inbox'[q], k)
                  => Holds(inbox[q], k) \/ (pc[q] # "over" /\ kinds \cap k # {})
  <2>1. CASE inbox'[q] = inbox[q]
    BY <1>1, <1>2, <2>1
  <2>2. CASE pc[q] # "over" /\ \E m : m.type \in kinds /\ inbox'[q] = Append(inbox[q], m)
    <3>1. PICK m : m.type \in kinds /\ inbox'[q] = Append(inbox[q], m)
      BY <2>2
    <3>2. /\ m.type \in Slots => ~ Holds(inbox[q], Slots)
          /\ m.type \in Exchange => ~ Holds(inbox[q], {"ack"})
      BY <2>2, <3>1 DEF q, Chat, Slots, Exchange
    <3>3. IsBox(inbox[q]) /\ AckIsLast(inbox[q]) /\ OneSlot(inbox[q])
      BY <1>1, <1>2
    <3>4. /\ IsBox(inbox'[q]) /\ AckIsLast(inbox'[q]) /\ OneSlot(inbox'[q])
          /\ \A k : Holds(inbox'[q], k) <=> Holds(inbox[q], k) \/ m.type \in k
      BY <3>1, <3>2, <3>3, AppendedBox
    <3>5. QED
      BY <2>2, <3>1, <3>4
  <2>3. QED
    BY <2>1, <2>2 DEF Moves, q
<1>5. QED
  BY <1>1, <1>3, <1>4 DEF q

-----------------------------------------------------------------------------
\* The four kinds of messages are disjoint.
LEMMA Kinds ==
  /\ Chat \cap Slots = {} /\ Chat \cap {"reveal"} = {} /\ Chat \cap {"ack"} = {}
  /\ Slots \cap {"reveal"} = {} /\ Slots \cap {"ack"} = {}
  /\ {"reveal"} \cap Slots = {} /\ {"reveal"} \cap {"ack"} = {}
  /\ {"ack"} \cap Slots = {} /\ {"ack"} \cap {"reveal"} = {}
  /\ {"reveal"} \subseteq Exchange /\ {"ack"} \subseteq Exchange
BY DEF Chat, Slots, Exchange

\* A step of the greeting, the measurement or the keepalive.
LEMMA ChatStep ==
  ASSUME SInv, NEW p \in Peers, Moves(p, Chat), DOMAIN pc' = Peers,
         \A r \in Peers \ {p} : pc'[r] = pc[r],
         pc[p] # "over",
         pc'[p] = pc[p] \/ (slot[p] = {} /\ pc'[p] \notin {"over", "revealing"}),
         UNCHANGED <<choice, slot>>
  PROVE  SInv'
<1> DEFINE q == other(p)
<1>1. /\ q \in Peers /\ q # p /\ other(q) = p
      /\ \A r \in Peers : r = p \/ r = q
  BY OtherPeer
<1>2. /\ \A r \in Peers : /\ IsBox(inbox'[r]) /\ AckIsLast(inbox'[r]) /\ OneSlot(inbox'[r])
                          /\ pc[r] = "over" => inbox'[r] = <<>>
      /\ \A k : Holds(inbox'[p], k) => Holds(inbox[p], k)
      /\ \A k : Holds(inbox'[q], k)
                     => \/ Holds(inbox[q], k)
                        \/ (pc[q] # "over" /\ Chat \cap k # {})
  BY BoxesMoved
<1> HIDE DEF q
<1>3. other(p) = q
  BY DEF q
<1>4. \A r \in Peers, k \in {{"reveal"}, {"ack"}, Slots} : Holds(inbox'[r], k) => Holds(inbox[r], k)
  BY <1>1, <1>2, Kinds
<1>5. Arrays'
  BY DEF SInv, Arrays, Moves
<1>6. Boxes'
  BY <1>2 DEF SInv, Boxes
<1>7. \A r \in Peers : Ahead(r)' => Ahead(r)
  BY DEF Ahead
<1>8. \A r \in Peers : Keeps(r, other(r))'
  BY <1>1, <1>3, <1>4, <1>7 DEF SInv, Keeps
<1>9. QED
  BY <1>5, <1>6, <1>8 DEF SInv

\* The end of a peer's match.
LEMMA EndStep ==
  ASSUME SInv, NEW p \in Peers, NEW v, ends(p, v)
  PROVE  SInv'
<1> DEFINE q == other(p)
<1>1. /\ q \in Peers /\ q # p /\ other(q) = p
      /\ \A r \in Peers : r = p \/ r = q
  BY OtherPeer
<1>2. other(p) = q
  OBVIOUS
<1> HIDE DEF q
<1>3. Arrays'
  BY DEF SInv, Arrays, ends
<1>4. /\ pc'[p] = "over" /\ inbox'[p] = <<>> /\ slot'[p] = {}
      /\ pc'[q] = pc[q] /\ inbox'[q] = inbox[q] /\ slot'[q] = slot[q] /\ choice'[q] = choice[q]
  BY <1>1 DEF SInv, Arrays, ends
<1>5. Boxes'
  BY <1>1, <1>4, EmptyBox DEF SInv, Boxes
<1>6. Keeps(p, q)' /\ Keeps(q, p)'
  <2>1. Keeps(q, p)
    BY <1>1 DEF SInv
  <2>2. ~ Ahead(p)'
    BY <1>4 DEF Ahead
  <2>3. QED
    BY <1>4, <2>1, <2>2, EmptyBox DEF Keeps
<1>7. \A r \in Peers : Keeps(r, other(r))'
  BY <1>1, <1>2, <1>6
<1>8. QED
  BY <1>3, <1>5, <1>7 DEF SInv

\* A decision is taken and its slot sent.
LEMMA DecideStep ==
  ASSUME SInv, NEW p \in Peers, Moves(p, Slots),
         pc[p] = "deciding", choice[p] = {}, choice'[p] # {},
         DOMAIN choice' = Peers, \A r \in Peers \ {p} : choice'[r] = choice[r],
         UNCHANGED <<pc, slot>>
  PROVE  SInv'
<1> DEFINE q == other(p)
<1>1. /\ q \in Peers /\ q # p /\ other(q) = p
      /\ \A r \in Peers : r = p \/ r = q
  BY OtherPeer
<1>2. other(p) = q
  OBVIOUS
<1>3. /\ ~ Holds(inbox[q], Slots) /\ ~ Holds(inbox[p], {"ack"}) /\ ~ Ahead(q)
  BY DEF SInv, Keeps
<1>4. /\ \A r \in Peers : /\ IsBox(inbox'[r]) /\ AckIsLast(inbox'[r]) /\ OneSlot(inbox'[r])
                          /\ pc[r] = "over" => inbox'[r] = <<>>
      /\ \A k : Holds(inbox'[p], k) => Holds(inbox[p], k)
      /\ \A k : Holds(inbox'[q], k)
                  => \/ Holds(inbox[q], k)
                     \/ (pc[q] # "over" /\ Slots \cap k # {})
  BY <1>3, BoxesMoved
<1> HIDE DEF q
<1>5. Arrays'
  BY DEF SInv, Arrays, Moves
<1>6. Boxes'
  BY <1>4 DEF SInv, Boxes
<1>7. \A r \in Peers : Ahead(r)' <=> Ahead(r)
  BY DEF Ahead
<1>8. Keeps(p, q)'
  BY <1>1, <1>3, <1>4, <1>7 DEF Keeps
<1>9. Keeps(q, p)'
  <2>1. Keeps(q, p)
    BY <1>1 DEF SInv
  <2>2. choice'[q] = choice[q]
    BY <1>1
  <2>3. \A k \in {{"reveal"}, {"ack"}} : Holds(inbox'[q], k) => Holds(inbox[q], k)
    BY <1>4, Kinds
  <2>4. QED
    BY <1>4, <1>7, <2>1, <2>2, <2>3 DEF Keeps
<1>10. QED
  BY <1>1, <1>2, <1>5, <1>6, <1>8, <1>9 DEF SInv

\* The other's slot is taken.
LEMMA SlotStep ==
  ASSUME SInv, NEW p \in Peers, inbox[p] # <<>>, inbox' = taken(p),
         Head(inbox[p]).type \in Slots, pc[p] = "deciding",
         DOMAIN slot' = Peers, \A r \in Peers \ {p} : slot'[r] = slot[r],
         UNCHANGED <<pc, choice>>
  PROVE  SInv'
<1> DEFINE q == other(p)
<1>1. /\ q \in Peers /\ q # p /\ other(q) = p
      /\ \A r \in Peers : r = p \/ r = q
  BY OtherPeer
<1>2. other(p) = q
  OBVIOUS
<1> HIDE DEF q
<1>3. inbox'[p] = Tail(inbox[p]) /\ inbox'[q] = inbox[q] /\ DOMAIN inbox' = Peers
  BY <1>1 DEF SInv, Arrays, taken
<1>4. /\ IsBox(inbox'[p]) /\ AckIsLast(inbox'[p]) /\ OneSlot(inbox'[p])
      /\ Holds(inbox[p], Slots) /\ ~ Holds(inbox'[p], Slots)
      /\ \A k : Holds(inbox'[p], k) => Holds(inbox[p], k)
  BY <1>3, TakenBox DEF SInv, Boxes
<1>5. Arrays'
  BY <1>3 DEF SInv, Arrays
<1>6. Boxes'
  BY <1>1, <1>3, <1>4 DEF SInv, Boxes
<1>7. Ahead(q)' <=> Ahead(q)
  BY <1>1 DEF Ahead
<1>8. Keeps(p, q) /\ Keeps(q, p)
  BY <1>1, <1>2 DEF SInv
<1>9. Keeps(p, q)'
  BY <1>3, <1>4, <1>7, <1>8 DEF Keeps
<1>10. Keeps(q, p)'
  BY <1>3, <1>4, <1>8 DEF Keeps
<1>11. QED
  BY <1>1, <1>2, <1>5, <1>6, <1>9, <1>10 DEF SInv

\* The reveal or the ack of a peer that is ahead is sent.
LEMMA AnswerStep ==
  ASSUME SInv, NEW p \in Peers, NEW kinds \in {{"reveal"}, {"ack"}}, Moves(p, kinds),
         Ahead(p), pc'[p] = IF kinds = {"ack"} THEN "acking" ELSE "revealing",
         DOMAIN pc' = Peers, \A r \in Peers \ {p} : pc'[r] = pc[r],
         UNCHANGED <<choice, slot>>
  PROVE  SInv'
<1> DEFINE q == other(p)
<1>1. /\ q \in Peers /\ q # p /\ other(q) = p
      /\ \A r \in Peers : r = p \/ r = q
  BY OtherPeer
<1>2. other(p) = q
  OBVIOUS
<1>3. Keeps(p, q) /\ Keeps(q, p)
  BY <1>1, <1>2 DEF SInv
<1>4. pc[q] # "over" => /\ choice[q] # {} /\ ~ Holds(inbox[p], Slots)
                        /\ ~ Holds(inbox[q], {"ack"})
  BY <1>3 DEF Keeps
<1>5. /\ \A r \in Peers : /\ IsBox(inbox'[r]) /\ AckIsLast(inbox'[r]) /\ OneSlot(inbox'[r])
                          /\ pc[r] = "over" => inbox'[r] = <<>>
      /\ \A k : Holds(inbox'[p], k) => Holds(inbox[p], k)
      /\ \A k : Holds(inbox'[q], k)
                  => \/ Holds(inbox[q], k)
                     \/ (pc[q] # "over" /\ kinds \cap k # {})
  BY <1>4, BoxesMoved
<1> HIDE DEF q
<1>6. Arrays'
  BY DEF SInv, Arrays, Moves
<1>7. Boxes'
  BY <1>5 DEF SInv, Boxes, Ahead
<1>8. Ahead(q)' <=> Ahead(q)
  BY <1>1 DEF Ahead
<1>9. Holds(inbox'[q], Slots) => Holds(inbox[q], Slots)
  BY <1>5, Kinds
<1>10. Keeps(p, q)'
  <2>1. pc[p] # "over" /\ choice'[p] = choice[p]
    BY DEF Ahead
  <2>2. QED
    BY <1>3, <1>5, <1>8, <1>9, <2>1 DEF Keeps
<1>11. Keeps(q, p)'
  <2>1. SUFFICES ASSUME pc[q] # "over" PROVE Keeps(q, p)'
    BY <1>1 DEF Keeps
  <2>2. choice'[q] # {} /\ ~ Holds(inbox'[p], Slots)
    BY <1>4, <1>5, <2>1
  <2>3. Holds(inbox'[q], {"ack"}) => ~ Ahead(p)'
    <3>1. CASE kinds = {"ack"}
      BY <3>1 DEF Ahead
    <3>2. CASE kinds = {"reveal"}
      BY <1>4, <1>5, <2>1, <3>2, Kinds
    <3>3. QED
      BY <3>1, <3>2
  <2>4. QED
    BY <2>2, <2>3 DEF Keeps
<1>12. QED
  BY <1>1, <1>2, <1>6, <1>7, <1>10, <1>11 DEF SInv

\* The other's ack is taken and the next phase begins.
LEMMA NextPhaseStep ==
  ASSUME SInv, NEW p \in Peers, inbox[p] # <<>>, Head(inbox[p]).type = "ack",
         pc[p] = "acking", inbox' = taken(p),
         pc' = [pc EXCEPT ![p] = "deciding"],
         choice' = [choice EXCEPT ![p] = {}],
         slot' = [slot EXCEPT ![p] = {}]
  PROVE  SInv'
<1> DEFINE q == other(p)
<1>1. /\ q \in Peers /\ q # p /\ other(q) = p
      /\ \A r \in Peers : r = p \/ r = q
  BY OtherPeer
<1>2. other(p) = q
  OBVIOUS
<1> HIDE DEF q
<1>3. /\ inbox'[p] = Tail(inbox[p]) /\ inbox'[q] = inbox[q] /\ DOMAIN inbox' = Peers
      /\ pc'[p] = "deciding" /\ slot'[p] = {} /\ choice'[p] = {}
      /\ pc'[q] = pc[q] /\ slot'[q] = slot[q] /\ choice'[q] = choice[q]
  BY <1>1 DEF SInv, Arrays, taken
<1>4. /\ IsBox(inbox'[p]) /\ AckIsLast(inbox'[p]) /\ OneSlot(inbox'[p])
      /\ Holds(inbox[p], {"ack"}) /\ ~ Holds(inbox'[p], Exchange)
      /\ \A k : Holds(inbox'[p], k) => Holds(inbox[p], k)
  BY <1>3, TakenBox DEF SInv, Boxes
<1>5. ~ Holds(inbox'[p], {"reveal"}) /\ ~ Holds(inbox'[p], {"ack"})
  BY <1>4 DEF Holds, Exchange
<1>6. Arrays'
  BY <1>3 DEF SInv, Arrays
<1>7. Boxes'
  <2>1. /\ IsBox(inbox'[q]) /\ AckIsLast(inbox'[q]) /\ OneSlot(inbox'[q])
        /\ pc'[q] = "over" => inbox'[q] = <<>>
        /\ slot'[q] # {} => pc'[q] \in {"deciding", "revealing", "acking"}
    BY <1>1, <1>3 DEF SInv, Boxes
  <2>2. QED
    BY <1>1, <1>3, <1>4, <2>1 DEF Boxes
<1>8. (Ahead(q)' <=> Ahead(q)) /\ ~ Ahead(p)'
  BY <1>3 DEF Ahead
<1>9. Keeps(p, q) /\ Keeps(q, p)
  BY <1>1, <1>2 DEF SInv
<1>10. Keeps(p, q)'
  BY <1>3, <1>4, <1>5, <1>8, <1>9 DEF Keeps
<1>11. Keeps(q, p)'
  BY <1>3, <1>4, <1>8, <1>9 DEF Keeps
<1>12. QED
  BY <1>1, <1>2, <1>6, <1>7, <1>10, <1>11 DEF SInv

\* The connection is lost, with a part of what was on its way.
LEMMA SeverStep ==
  ASSUME SInv, sever
  PROVE  SInv'
<1>1. PICK n \in [Peers -> 0..2] :
        inbox' = [p \in Peers |-> SubSeq(inbox[p], 1, IF n[p] < Len(inbox[p]) THEN n[p]
                                                      ELSE Len(inbox[p]))]
  BY DEF sever
<1>2. ASSUME NEW r \in Peers
      PROVE  /\ IsBox(inbox'[r]) /\ AckIsLast(inbox'[r]) /\ OneSlot(inbox'[r])
             /\ \A k : Holds(inbox'[r], k) => Holds(inbox[r], k)
             /\ inbox[r] = <<>> => inbox'[r] = <<>>
  <2> DEFINE l == IF n[r] < Len(inbox[r]) THEN n[r] ELSE Len(inbox[r])
  <2>1. IsBox(inbox[r]) /\ AckIsLast(inbox[r]) /\ OneSlot(inbox[r])
    BY DEF SInv, Boxes
  <2>2. Len(inbox[r]) \in Nat
    BY <2>1 DEF IsBox
  <2>3. l \in Nat /\ l <= Len(inbox[r])
    BY <2>2
  <2>4. inbox'[r] = SubSeq(inbox[r], 1, l)
    BY <1>1
  <2> HIDE DEF l
  <2>5. QED
    BY <2>1, <2>3, <2>4, CutBox
<1>3. UNCHANGED <<pc, choice, slot>>
  BY DEF sever, settled
<1>4. Arrays'
  BY <1>1, <1>3 DEF SInv, Arrays
<1>5. Boxes'
  BY <1>2, <1>3 DEF SInv, Boxes
<1>6. \A r \in Peers : Ahead(r)' <=> Ahead(r)
  BY <1>3 DEF Ahead
<1>7. \A r \in Peers : Keeps(r, other(r))'
  BY <1>2, <1>3, <1>6, OtherPeer DEF SInv, Keeps
<1>8. QED
  BY <1>4, <1>5, <1>7 DEF SInv

-----------------------------------------------------------------------------
\* A decision is a record that says which of the four slots it is.
DecisionsAreSlots ==
  \A c, g, o : \A d \in Decides(c, g, o) : "kind" \in DOMAIN d /\ d.kind \in Slots

\* Before phase 0 no slot has been taken.
LEMMA Early ==
  ASSUME SInv, NEW p \in Peers, pc[p] \in {"start", "greeting", "measuring"}
  PROVE  slot[p] = {}
BY DEF SInv, Boxes

\* The greeting keeps the invariant.
LEMMA GreetKeeps ==
  ASSUME SInv, NEW p \in Peers, greet(p)
  PROVE  SInv'
<1>1. to_message(conf[p]).type \in Chat
  BY DEF to_message, Chat
<1>2. inbox' = post(inbox, p, to_message(conf[p]))
  BY DEF greet
<1>3. Moves(p, Chat)
  BY <1>1, <1>2, Sent DEF SInv, Arrays
<1>4. /\ pc[p] = "start" /\ pc' = [pc EXCEPT ![p] = "greeting"]
      /\ UNCHANGED <<choice, slot>>
  BY DEF greet, settled
<1>5. QED
  BY <1>3, <1>4, Early, ChatStep DEF SInv, Arrays

\* So does the end of the handshake,
LEMMA HandshakeKeeps ==
  ASSUME SInv, NEW p \in Peers, take_handshake(p)
  PROVE  SInv'
<1>1. /\ pc[p] = "greeting" /\ inbox[p] # <<>>
      /\ pc' = [pc EXCEPT ![p] = IF timed(p) THEN "measuring" ELSE "deciding"]
      /\ inbox' = IF timed(p) THEN post(taken(p), p, keepalive("ping", {0})) ELSE taken(p)
      /\ UNCHANGED <<choice, slot>>
  BY DEF take_handshake, arrived, settled
<1>2. keepalive("ping", {0}).type \in Chat
  BY DEF keepalive, Chat
<1>3. Moves(p, Chat)
  BY <1>1, <1>2, Sent, Taken DEF SInv, Arrays
<1>4. QED
  BY <1>1, <1>3, Early, ChatStep DEF SInv, Arrays

\* the delay measurement,
LEMMA MeasureKeeps ==
  ASSUME SInv, NEW p \in Peers, measure(p)
  PROVE  SInv'
<1> DEFINE m    == message(p)
           mine == m.type = "pong" /\ m.seq = {round[p]}
           next == round[p] + 1
<1>1. /\ pc[p] = "measuring" /\ inbox[p] # <<>>
      /\ pc' = [pc EXCEPT ![p] = IF mine /\ next = Rounds THEN "deciding" ELSE @]
      /\ inbox' = IF m.type = "ping" /\ m.seq # {}
                  THEN post(taken(p), p, keepalive("pong", m.seq))
                  ELSE IF mine /\ next < Rounds
                  THEN post(taken(p), p, keepalive("ping", {next}))
                  ELSE taken(p)
      /\ UNCHANGED <<choice, slot>>
  BY DEF measure, arrived, settled
<1>2. \A seq : keepalive("ping", seq).type \in Chat /\ keepalive("pong", seq).type \in Chat
  BY DEF keepalive, Chat
<1> HIDE DEF m, mine, next
<1>3. Moves(p, Chat)
  BY <1>1, <1>2, Sent, Taken DEF SInv, Arrays
<1>4. QED
  BY <1>1, <1>3, Early, ChatStep DEF SInv, Arrays

\* the keepalive traffic,
LEMMA KeepaliveKeeps ==
  ASSUME SInv, NEW p \in Peers, ping(p) \/ answer_ping(p) \/ skip_pong(p)
  PROVE  SInv'
<1>1. keepalive("ping", {}).type \in Chat /\ keepalive("pong", {}).type \in Chat
  BY DEF keepalive, Chat
<1>2. pc[p] # "over" /\ UNCHANGED <<pc, choice, slot>>
  BY DEF ping, answer_ping, skip_pong, Listening, settled
<1>3. Moves(p, Chat)
  <2>1. CASE ping(p)
    BY <1>1, <2>1, Sent DEF ping, SInv, Arrays
  <2>2. CASE answer_ping(p)
    BY <1>1, <2>2, Sent DEF answer_ping, arrived, SInv, Arrays
  <2>3. CASE skip_pong(p)
    BY <2>3, Taken DEF skip_pong, arrived, SInv, Arrays
  <2>4. QED
    BY <2>1, <2>2, <2>3
<1>4. QED
  BY <1>2, <1>3, ChatStep DEF SInv, Arrays

\* a decision,
LEMMA DecideKeeps ==
  ASSUME DecisionsAreSlots, SInv, NEW p \in Peers, decide(p)
  PROVE  SInv'
<1>1. PICK d \in Decides(color[p], game[p], other(p) \in offers[p]), t \in think(p) :
        LET mine == [d EXCEPT !.elapsed = t]
        IN  /\ choice' = [choice EXCEPT ![p] = {mine}]
            /\ inbox' = post(inbox, p, slot_message(p, mine))
  BY DEF decide
<1> DEFINE mine == [d EXCEPT !.elapsed = t]
<1>2. mine.kind \in Slots
  BY DEF DecisionsAreSlots
<1>3. /\ choice' = [choice EXCEPT ![p] = {mine}]
      /\ inbox' = post(inbox, p, slot_message(p, mine))
  BY <1>1
<1> HIDE DEF mine
<1>4. slot_message(p, mine).type \in Slots
  BY <1>2 DEF slot_message, Slots
<1>5. Moves(p, Slots)
  BY <1>3, <1>4, Sent DEF SInv, Arrays
<1>6. pc[p] = "deciding" /\ choice[p] = {} /\ UNCHANGED <<pc, slot>>
  BY DEF decide
<1>7. /\ choice'[p] # {} /\ DOMAIN choice' = Peers
      /\ \A r \in Peers \ {p} : choice'[r] = choice[r]
  BY <1>3 DEF SInv, Arrays
<1>8. QED
  BY <1>5, <1>6, <1>7, DecideStep

\* the arrival of a slot,
LEMMA TakeSlotKeeps ==
  ASSUME SInv, NEW p \in Peers, take_slot(p)
  PROVE  SInv'
<1>1. /\ inbox[p] # <<>> /\ inbox' = taken(p) /\ Head(inbox[p]).type \in Slots
      /\ pc[p] = "deciding" /\ UNCHANGED <<pc, choice>>
      /\ slot' = [slot EXCEPT ![p] = {message(p)}]
  BY DEF take_slot, Substance, arrived, message
<1>2. DOMAIN slot' = Peers /\ \A r \in Peers \ {p} : slot'[r] = slot[r]
  BY <1>1 DEF SInv, Arrays
<1>3. QED
  BY <1>1, <1>2, SlotStep

\* the reveal,
LEMMA RevealKeeps ==
  ASSUME SInv, NEW p \in Peers, reveal(p)
  PROVE  SInv'
<1>1. PICK d \in choice[p], m \in slot[p] : inbox' = post(inbox, p, reveal_message(p, d))
  BY DEF reveal
<1>2. reveal_message(p, d).type \in {"reveal"}
  BY DEF reveal_message
<1>3. Moves(p, {"reveal"})
  BY <1>1, <1>2, Sent DEF SInv, Arrays
<1>4. /\ pc[p] = "deciding" /\ slot[p] # {}
      /\ pc' = [pc EXCEPT ![p] = "revealing"] /\ UNCHANGED <<choice, slot>>
  BY <1>1 DEF reveal, settled
<1>5. /\ Ahead(p) /\ DOMAIN pc' = Peers /\ pc'[p] = "revealing"
      /\ \A r \in Peers \ {p} : pc'[r] = pc[r]
  BY <1>4 DEF Ahead, SInv, Arrays
<1>6. {"reveal"} # {"ack"}
  OBVIOUS
<1>7. QED
  BY <1>3, <1>4, <1>5, <1>6, AnswerStep

\* the arrival of a reveal,
LEMMA TakeRevealKeeps ==
  ASSUME SInv, NEW p \in Peers, take_reveal(p)
  PROVE  SInv'
<1>1. PICK d \in choice[p], s \in slot[p] :
        inbox' = post(taken(p), p, ack_message(p, computed(p, d, message(p))))
  BY DEF take_reveal
<1>2. inbox[p] # <<>>
  BY DEF take_reveal, Substance, arrived
<1>3. ack_message(p, computed(p, d, message(p))).type \in {"ack"}
  BY DEF ack_message
<1>4. Moves(p, {"ack"})
  BY <1>1, <1>2, <1>3, Sent DEF SInv, Arrays
<1>5. /\ pc[p] = "revealing"
      /\ pc' = [pc EXCEPT ![p] = "acking"] /\ UNCHANGED <<choice, slot>>
  BY DEF take_reveal
<1>6. /\ Ahead(p) /\ DOMAIN pc' = Peers /\ pc'[p] = "acking"
      /\ \A r \in Peers \ {p} : pc'[r] = pc[r]
  BY <1>5 DEF Ahead, SInv, Arrays
<1>7. QED
  BY <1>4, <1>5, <1>6, AnswerStep

\* the arrival of an ack,
LEMMA TakeAckKeeps ==
  ASSUME SInv, NEW p \in Peers, take_ack(p)
  PROVE  SInv'
<1>1. CASE \E v : ends(p, v)
  BY <1>1, EndStep
<1>2. CASE ~ \E v : ends(p, v)
  <2>1. PICK r \in pending[p] :
          /\ confirms(p, r, message(p))
          /\ pc' = [pc EXCEPT ![p] = "deciding"]
          /\ inbox' = taken(p)
          /\ choice' = [choice EXCEPT ![p] = {}]
          /\ slot' = [slot EXCEPT ![p] = {}]
    BY <1>2 DEF take_ack
  <2>2. pc[p] = "acking" /\ inbox[p] # <<>>
    BY DEF take_ack, Substance, arrived
  <2>3. Head(inbox[p]).type = "ack"
    BY <2>1 DEF confirms, ack_message, message
  <2>4. QED
    BY <2>1, <2>2, <2>3, NextPhaseStep
<1>3. QED
  BY <1>1, <1>2

\* every end of a match,
LEMMA EndKeeps ==
  ASSUME SInv, NEW p \in Peers,
         \/ reject_handshake(p) \/ close_match(p) \/ forfeit(p)
         \/ give_up(p) \/ reject_time(p) \/ hear_end(p)
  PROVE  SInv'
<1>1. \E v : ends(p, v)
  BY DEF reject_handshake, close_match, forfeit, give_up, reject_time, hear_end
<1>2. QED
  BY <1>1, EndStep

\* and a step of anything else.
LEMMA StutterKeeps == SInv /\ UNCHANGED vars => SInv'
BY DEF SInv, Arrays, Boxes, Keeps, Ahead, vars

\* The invariant holds when two peers start, and every step keeps it.
LEMMA InitSInv == Init => SInv
<1> SUFFICES ASSUME Init PROVE SInv
  OBVIOUS
<1>1. Arrays
  BY DEF Init, Arrays
<1>2. \A p \in Peers : pc[p] = "start" /\ inbox[p] = <<>> /\ slot[p] = {}
  BY DEF Init
<1>3. Boxes
  BY <1>2, EmptyBox DEF Boxes
<1>4. \A p \in Peers : ~ Ahead(p)
  BY <1>2 DEF Ahead
<1>5. \A p \in Peers : Keeps(p, other(p))
  BY <1>2, <1>4, EmptyBox, OtherPeer DEF Keeps
<1>6. QED
  BY <1>1, <1>3, <1>5 DEF SInv

\* One case for each action of Next.
LEMMA NextSInv ==
  ASSUME DecisionsAreSlots, SInv, Next
  PROVE  SInv'
<1>1. CASE sever
  BY <1>1, SeverStep
<1>2. ASSUME NEW p \in Peers,
             Works(p) \/ decide(p) \/ ping(p) \/ give_up(p) \/ reject_time(p)
      PROVE  SInv'
  <2>1. CASE greet(p)
    BY <2>1, GreetKeeps
  <2>2. CASE take_handshake(p)
    BY <2>2, HandshakeKeeps
  <2>3. CASE measure(p)
    BY <2>3, MeasureKeeps
  <2>4. CASE ping(p) \/ answer_ping(p) \/ skip_pong(p)
    BY <2>4, KeepaliveKeeps
  <2>5. CASE decide(p)
    BY <2>5, DecideKeeps
  <2>6. CASE take_slot(p)
    BY <2>6, TakeSlotKeeps
  <2>7. CASE reveal(p)
    BY <2>7, RevealKeeps
  <2>8. CASE take_reveal(p)
    BY <2>8, TakeRevealKeeps
  <2>9. CASE take_ack(p)
    BY <2>9, TakeAckKeeps
  <2>10. CASE \/ reject_handshake(p) \/ close_match(p) \/ forfeit(p)
              \/ give_up(p) \/ reject_time(p) \/ hear_end(p)
    BY <2>10, EndKeeps
  <2>11. QED
    BY <1>2, <2>1, <2>2, <2>3, <2>4, <2>5, <2>6, <2>7, <2>8, <2>9, <2>10 DEF Works
<1>3. QED
  BY <1>1, <1>2 DEF Next

\* The invariant implies the property.
LEMMA SInvSealed == SInv => Sealed
<1> SUFFICES ASSUME SInv, NEW p \in Peers, NEW i \in DOMAIN inbox[p],
                    inbox[p][i].type = "reveal"
             PROVE  choice[p] # {}
  BY DEF Sealed
<1>1. IsBox(inbox[p])
  BY DEF SInv, Boxes
<1>2. i \in 1..Len(inbox[p])
  BY <1>1 DEF IsBox
<1>3. Holds(inbox[p], {"reveal"})
  BY <1>2 DEF Holds
<1>4. pc[p] # "over"
  BY <1>3, EmptyBox DEF SInv, Boxes
<1>5. QED
  BY <1>3, <1>4 DEF SInv, Keeps

\* The exchange of slots, reveals and acks keeps to its order, whatever the two
\* peers think, lose or give up.
THEOREM SessionInvariant ==
  ASSUME DecisionsAreSlots
  PROVE  Spec => []SInv
<1>1. SInv /\ [Next]_vars => SInv'
  BY NextSInv, StutterKeeps
<1>2. QED
  BY InitSInv, <1>1, PTL DEF Spec

\* B2 of the commit-reveal contract, for any two peers, settings, players and
\* interference: no program is on its way to a peer that has not decided.
THEOREM SessionSealed ==
  ASSUME DecisionsAreSlots
  PROVE  Spec => []Sealed
BY SessionInvariant, SInvSealed, PTL
-----------------------------------------------------------------------------
(***************************************************************************)
(* What is in a box.                                                       *)
(***************************************************************************)
Messages(box) == {box[i] : i \in 1..Len(box)}
OneReveal(box) ==
  \A i, j \in 1..Len(box) : i < j /\ box[i].type = "reveal" => box[j].type # "reveal"

\* A box holds a kind of message when one of its messages is of that kind.
LEMMA HoldsMessages ==
  ASSUME NEW box
  PROVE  \A kinds : Holds(box, kinds) <=> \E m \in Messages(box) : m.type \in kinds
BY DEF Holds, Messages

\* Nothing is in an empty box.
LEMMA EmptyMessages == Messages(<<>>) = {} /\ OneReveal(<<>>)
<1>1. Len(<<>>) = 0
  OBVIOUS
<1>2. QED
  BY <1>1 DEF Messages, OneReveal

\* A message is appended at the end, and is the head of an empty box.
LEMMA AppendedMessages ==
  ASSUME NEW box, IsBox(box), NEW m
  PROVE  /\ Messages(Append(box, m)) = Messages(box) \cup {m}
         /\ Append(box, m) # <<>>
         /\ box # <<>> => Head(Append(box, m)) = Head(box)
         /\ box = <<>> => Head(Append(box, m)) = m
         /\ OneReveal(box) /\ (m.type = "reveal" => ~ Holds(box, {"reveal"}))
              => OneReveal(Append(box, m))
<1>1. PICK S : box \in Seq(S)
  BY DEF IsBox
<1>2. box \in Seq(S \cup {m})
  BY <1>1
<1> DEFINE longer == Append(box, m)
<1>3. /\ longer \in Seq(S \cup {m})
      /\ Len(longer) = Len(box) + 1
      /\ Len(box) \in Nat
      /\ longer[Len(box) + 1] = m
      /\ \A i \in 1..Len(box) : longer[i] = box[i]
      /\ Head(longer) = longer[1]
      /\ box # <<>> => Head(box) = box[1] /\ 1 \in 1..Len(box)
      /\ box = <<>> => Len(box) = 0
  BY <1>2
<1> HIDE DEF longer
<1>4. 1..Len(longer) = 1..Len(box) \cup {Len(box) + 1}
  BY <1>3
<1>5. Messages(longer) = Messages(box) \cup {m}
  BY <1>3, <1>4 DEF Messages
<1>6. longer # <<>>
  <2>1. Len(<<>>) = 0
    OBVIOUS
  <2>2. QED
    BY <1>3, <2>1
<1>7. ASSUME OneReveal(box), m.type = "reveal" => ~ Holds(box, {"reveal"})
      PROVE  OneReveal(longer)
  <2>1. SUFFICES ASSUME NEW i \in 1..Len(longer), NEW j \in 1..Len(longer),
                        i < j, longer[i].type = "reveal"
                 PROVE  longer[j].type # "reveal"
    BY DEF OneReveal
  <2>2. i \in 1..Len(box) /\ longer[i] = box[i]
    BY <1>3, <2>1
  <2>3. CASE j = Len(longer)
    BY <1>3, <1>7, <2>1, <2>2, <2>3 DEF Holds
  <2>4. CASE j # Len(longer)
    <3>1. j \in 1..Len(box) /\ longer[j] = box[j]
      BY <1>3, <2>1, <2>4
    <3>2. QED
      BY <1>7, <2>1, <2>2, <3>1 DEF OneReveal
  <2>5. QED
    BY <2>3, <2>4
<1>8. QED
  BY <1>3, <1>5, <1>6, <1>7 DEF longer

\* Taking the first message adds nothing and takes the only reveal away.
LEMMA TakenMessages ==
  ASSUME NEW box, IsBox(box), box # <<>>
  PROVE  /\ Head(box) \in Messages(box)
         /\ Messages(Tail(box)) \subseteq Messages(box)
         /\ OneReveal(box) => OneReveal(Tail(box))
         /\ OneReveal(box) /\ Head(box).type = "reveal" => ~ Holds(Tail(box), {"reveal"})
<1>1. PICK S : box \in Seq(S)
  BY DEF IsBox
<1> DEFINE short == Tail(box)
<1>2. /\ short \in Seq(S)
      /\ Len(box) \in Nat /\ Len(box) > 0
      /\ Len(short) = Len(box) - 1
      /\ Head(box) = box[1]
      /\ \A i \in 1..Len(short) : short[i] = box[i + 1]
  BY <1>1
<1> HIDE DEF short
<1>3. 1 \in 1..Len(box) /\ \A i \in 1..Len(short) : i + 1 \in 1..Len(box) /\ 1 < i + 1
  BY <1>2
<1>4. \A i, j \in 1..Len(short) : i < j => i + 1 < j + 1
  BY <1>2
<1>5. Head(box) \in Messages(box) /\ Messages(short) \subseteq Messages(box)
  BY <1>2, <1>3 DEF Messages
<1>6. OneReveal(box) => OneReveal(short)
  BY <1>2, <1>3, <1>4 DEF OneReveal
<1>7. OneReveal(box) /\ Head(box).type = "reveal" => ~ Holds(short, {"reveal"})
  BY <1>2, <1>3 DEF OneReveal, Holds
<1>8. QED
  BY <1>5, <1>6, <1>7 DEF short

\* A cut leaves a prefix of the messages.
LEMMA CutMessages ==
  ASSUME NEW box, IsBox(box), NEW n \in Nat, n <= Len(box)
  PROVE  /\ Messages(SubSeq(box, 1, n)) \subseteq Messages(box)
         /\ OneReveal(box) => OneReveal(SubSeq(box, 1, n))
         /\ SubSeq(box, 1, n) # <<>> => box # <<>> /\ Head(SubSeq(box, 1, n)) = Head(box)
<1>1. PICK S : box \in Seq(S)
  BY DEF IsBox
<1> DEFINE short == SubSeq(box, 1, n)
<1>2. /\ short \in Seq(S)
      /\ Len(short) = n /\ Len(box) \in Nat
      /\ \A i \in 1..Len(short) : short[i] = box[i] /\ i \in 1..Len(box)
  BY <1>1
<1>3. ASSUME short # <<>> PROVE box # <<>> /\ Head(short) = Head(box)
  <2>1. Len(short) > 0 /\ Head(short) = short[1]
    BY <1>2, <1>3
  <2>2. 1 \in 1..Len(short) /\ short[1] = box[1]
    BY <1>2, <2>1
  <2>3. box # <<>> /\ Head(box) = box[1]
    BY <1>1, <1>2, <2>1
  <2>4. QED
    BY <2>1, <2>2, <2>3
<1> HIDE DEF short
<1>4. Messages(short) \subseteq Messages(box)
  BY <1>2 DEF Messages
<1>5. OneReveal(box) => OneReveal(short)
  BY <1>2 DEF OneReveal
<1>6. QED
  BY <1>3, <1>4, <1>5 DEF short

-----------------------------------------------------------------------------
(***************************************************************************)
(* What a step of a peer p may do to the boxes and to the other peer q.    *)
(***************************************************************************)
Live(p) == pc[p] # "over"

\* p takes its first message, or not, and sends at most one of these messages.
Deals(p, q, new) ==
  /\ DOMAIN inbox' = Peers
  /\ \/ inbox'[p] = inbox[p]
     \/ inbox[p] # <<>> /\ inbox'[p] = Tail(inbox[p])
  /\ \/ inbox'[q] = inbox[q]
     \/ ~ cut /\ Live(q) /\ \E m \in new : inbox'[q] = Append(inbox[q], m)

\* The ways handlers take and send are all dealings.
LEMMA Dealt ==
  ASSUME NEW p \in Peers, NEW q, q = other(p), DOMAIN inbox = Peers, NEW m
  PROVE  /\ inbox' = post(inbox, p, m) => Deals(p, q, {m})
         /\ inbox[p] # <<>> /\ inbox' = post(taken(p), p, m) => Deals(p, q, {m})
         /\ inbox[p] # <<>> /\ inbox' = taken(p) => \A new : Deals(p, q, new)
<1>1. q \in Peers /\ q # p
  BY OtherPeer
<1>2. ASSUME inbox' = post(inbox, p, m) PROVE Deals(p, q, {m})
  <2>1. CASE cut \/ pc[q] = "over"
    BY <1>2, <2>1 DEF post, Deals
  <2>2. CASE ~ (cut \/ pc[q] = "over")
    <3>1. inbox' = [inbox EXCEPT ![q] = Append(inbox[q], m)]
      BY <1>2, <2>2 DEF post
    <3>2. QED
      BY <1>1, <2>2, <3>1 DEF Deals, Live
  <2>3. QED
    BY <2>1, <2>2
<1> DEFINE box == taken(p)
<1>3. DOMAIN box = Peers /\ box[p] = Tail(inbox[p]) /\ box[q] = inbox[q]
  BY <1>1 DEF taken
<1> HIDE DEF box
<1>4. ASSUME inbox[p] # <<>>, inbox' = post(box, p, m) PROVE Deals(p, q, {m})
  <2>1. CASE cut \/ pc[q] = "over"
    <3>1. inbox' = box
      BY <1>4, <2>1 DEF post
    <3>2. QED
      BY <1>3, <1>4, <3>1 DEF Deals
  <2>2. CASE ~ (cut \/ pc[q] = "over")
    <3>1. inbox' = [box EXCEPT ![q] = Append(box[q], m)]
      BY <1>4, <2>2 DEF post
    <3>2. QED
      BY <1>1, <1>3, <1>4, <2>2, <3>1 DEF Deals, Live
  <2>3. QED
    BY <2>1, <2>2
<1>5. ASSUME inbox[p] # <<>>, inbox' = box, NEW new PROVE Deals(p, q, new)
  BY <1>3, <1>5 DEF Deals
<1>6. QED
  BY <1>2, <1>4, <1>5 DEF box

\* What the boxes hold afterwards.
LEMMA AfterDeal ==
  ASSUME NEW p \in Peers, NEW q, q = other(p), NEW new, Deals(p, q, new),
         IsBox(inbox[p]), IsBox(inbox[q])
  PROVE  /\ Messages(inbox'[p]) \subseteq Messages(inbox[p])
         /\ Messages(inbox'[q]) \subseteq Messages(inbox[q]) \cup new
         /\ OneReveal(inbox[p]) => OneReveal(inbox'[p])
         /\ OneReveal(inbox[q])
              /\ ((\E m \in new : m.type = "reveal") => ~ Holds(inbox[q], {"reveal"}))
              => OneReveal(inbox'[q])
         /\ \A k : Holds(inbox'[p], k) => Holds(inbox[p], k)
         /\ \A k : Holds(inbox'[q], k) => Holds(inbox[q], k) \/ \E m \in new : m.type \in k
         /\ inbox[q] # <<>> => inbox'[q] # <<>> /\ Head(inbox'[q]) = Head(inbox[q])
         /\ inbox[q] = <<>> /\ cut => inbox'[q] = <<>>
<1>1. /\ Messages(inbox'[p]) \subseteq Messages(inbox[p])
      /\ OneReveal(inbox[p]) => OneReveal(inbox'[p])
  <2>1. CASE inbox'[p] = inbox[p]
    BY <2>1
  <2>2. CASE inbox[p] # <<>> /\ inbox'[p] = Tail(inbox[p])
    BY <2>2, TakenMessages
  <2>3. QED
    BY <2>1, <2>2 DEF Deals
<1>2. /\ Messages(inbox'[q]) \subseteq Messages(inbox[q]) \cup new
      /\ OneReveal(inbox[q])
           /\ ((\E m \in new : m.type = "reveal") => ~ Holds(inbox[q], {"reveal"}))
           => OneReveal(inbox'[q])
      /\ inbox[q] # <<>> => inbox'[q] # <<>> /\ Head(inbox'[q]) = Head(inbox[q])
      /\ inbox[q] = <<>> /\ cut => inbox'[q] = <<>>
  <2>1. CASE inbox'[q] = inbox[q]
    BY <2>1
  <2>2. CASE ~ cut /\ \E m \in new : inbox'[q] = Append(inbox[q], m)
    BY <2>2, AppendedMessages
  <2>3. QED
    BY <2>1, <2>2 DEF Deals
<1>3. \A k : Holds(inbox'[p], k) => Holds(inbox[p], k)
  BY <1>1, HoldsMessages
<1>4. \A k : Holds(inbox'[q], k) => Holds(inbox[q], k) \/ \E m \in new : m.type \in k
  BY <1>2, HoldsMessages
<1>5. QED
  BY <1>1, <1>2, <1>3, <1>4

\* The arrays of the peers.
Domains ==
  /\ DOMAIN pc = Peers /\ DOMAIN inbox = Peers /\ DOMAIN color = Peers
  /\ DOMAIN game = Peers /\ DOMAIN banks = Peers /\ DOMAIN offers = Peers
  /\ DOMAIN choice = Peers /\ DOMAIN slot = Peers /\ DOMAIN pending = Peers
  /\ DOMAIN verdict = Peers /\ game = [p \in Peers |-> game[p]]
\* A peer that does not move, over a connection that stays.
Rests(q) ==
  /\ pc'[q] = pc[q] /\ color'[q] = color[q] /\ game'[q] = game[q] /\ banks'[q] = banks[q]
  /\ offers'[q] = offers[q] /\ choice'[q] = choice[q] /\ slot'[q] = slot[q]
  /\ pending'[q] = pending[q] /\ verdict'[q] = verdict[q]
  /\ conf' = conf /\ cut' = cut

Acts(p) == Works(p) \/ decide(p) \/ ping(p) \/ give_up(p) \/ reject_time(p)

\* The end of a match.
LEMMA EndEffect ==
  ASSUME Domains, NEW p \in Peers, NEW q \in Peers, q # p, NEW v, ends(p, v)
  PROVE  /\ DOMAIN pc' = Peers /\ DOMAIN inbox' = Peers /\ DOMAIN choice' = Peers
         /\ DOMAIN slot' = Peers /\ DOMAIN pending' = Peers /\ DOMAIN verdict' = Peers
         /\ pc'[p] = "over" /\ verdict'[p] = {v} /\ inbox'[p] = <<>>
         /\ choice'[p] = {} /\ slot'[p] = {} /\ pending'[p] = {}
         /\ pc'[q] = pc[q] /\ inbox'[q] = inbox[q] /\ choice'[q] = choice[q]
         /\ slot'[q] = slot[q] /\ pending'[q] = pending[q] /\ verdict'[q] = verdict[q]
BY DEF ends, Domains

\* A step of one peer leaves the other where it is.
LEMMA Local ==
  ASSUME Domains, NEW p \in Peers, NEW q \in Peers, q # p, Acts(p)
  PROVE  Domains' /\ Rests(q)
<1> USE DEF Domains, Rests
<1> USE DEF terms, settled, standings
<1>1. CASE greet(p)
  BY <1>1 DEF greet, post
<1>2. CASE reject_handshake(p)
  <2>1. PICK v : ends(p, v)
    BY <1>2 DEF reject_handshake
  <2>2. QED
    BY <1>2, <2>1, EndEffect DEF reject_handshake
<1>3. CASE take_handshake(p)
  BY <1>3 DEF take_handshake, post, taken
<1>4. CASE measure(p)
  BY <1>4 DEF measure, post, taken
<1>5. CASE answer_ping(p)
  BY <1>5 DEF answer_ping, post, taken
<1>6. CASE skip_pong(p)
  BY <1>6 DEF skip_pong, taken
<1>7. CASE take_slot(p)
  BY <1>7 DEF take_slot, taken
<1>8. CASE close_match(p)
  <2>1. PICK v : ends(p, v)
    BY <1>8 DEF close_match
  <2>2. QED
    BY <1>8, <2>1, EndEffect DEF close_match
<1>9. CASE reveal(p)
  BY <1>9 DEF reveal, post
<1>10. CASE forfeit(p)
  <2>1. PICK v : ends(p, v)
    BY <1>10 DEF forfeit
  <2>2. QED
    BY <1>10, <2>1, EndEffect DEF forfeit
<1>11. CASE take_reveal(p)
  BY <1>11 DEF take_reveal, post, taken
<1>12. CASE take_ack(p)
  <2>1. CASE \E v : ends(p, v)
    <3>1. PICK v : ends(p, v)
      BY <2>1
    <3>2. UNCHANGED <<game, banks>> \/ \E r : /\ game' = [game EXCEPT ![p] = r.game]
                                              /\ banks' = [banks EXCEPT ![p] = {e.after : e \in r.ledger}]
      BY <1>12 DEF take_ack
    <3>3. UNCHANGED <<conf, cut, color, offers>>
      BY <1>12 DEF take_ack
    <3>4. QED
      BY <3>1, <3>2, <3>3, EndEffect
  <2>2. CASE ~ \E v : ends(p, v)
    BY <1>12, <2>2 DEF take_ack, taken
  <2>3. QED
    BY <2>1, <2>2
<1>13. CASE hear_end(p)
  BY <1>13, EndEffect DEF hear_end
<1>14. CASE decide(p)
  BY <1>14 DEF decide, post
<1>15. CASE ping(p)
  BY <1>15 DEF ping, post
<1>16. CASE give_up(p)
  BY <1>16, EndEffect DEF give_up
<1>17. CASE reject_time(p)
  BY <1>17, EndEffect DEF reject_time
<1>18. QED
  BY <1>1, <1>2, <1>3, <1>4, <1>5, <1>6, <1>7, <1>8, <1>9, <1>10, <1>11, <1>12, <1>13,
     <1>14, <1>15, <1>16, <1>17 DEF Acts, Works

-----------------------------------------------------------------------------
(***************************************************************************)
(* The effect of each action on the peer that takes it.                    *)
(***************************************************************************)
Opening == {"start", "greeting", "measuring"}
Chats(p) ==
  greet(p) \/ take_handshake(p) \/ measure(p) \/ ping(p) \/ answer_ping(p) \/ skip_pong(p)
\* Nothing of the phase changes.
Keeping(p) ==
  /\ game'[p] = game[p] /\ banks'[p] = banks[p] /\ offers'[p] = offers[p]
  /\ choice'[p] = choice[p] /\ slot'[p] = slot[p] /\ pending'[p] = pending[p]
  /\ verdict'[p] = verdict[p]

\* A message of the greeting, the measurement or the keepalive.
LEMMA ChatEffect ==
  ASSUME Domains, NEW p \in Peers, NEW q, q = other(p), Chats(p)
  PROVE  /\ \E m : m.type \in Chat /\ Deals(p, q, {m})
         /\ Keeping(p)
         /\ Live(p)
         /\ pc'[p] = pc[p] \/ (pc[p] \in Opening /\ pc'[p] \in {"greeting", "measuring", "deciding"})
         /\ greet(p) \/ take_handshake(p)
              \/ (pc[p] \notin {"start", "greeting"} /\ pc'[p] \notin {"start", "greeting"})
         /\ take_handshake(p) \/ color'[p] = color[p]
<1> USE DEF terms, settled, standings, Domains, Keeping, Live, Opening
<1>1. CASE greet(p)
  <2>1. to_message(conf[p]).type \in Chat /\ Deals(p, q, {to_message(conf[p])})
    BY <1>1, Dealt DEF greet, to_message, Chat
  <2>2. QED
    BY <1>1, <2>1 DEF greet
<1>2. \A k \in {"ping", "pong"} : \A n : keepalive(k, n).type \in Chat
  BY DEF keepalive, Chat
<1>3. CASE take_handshake(p)
  <2> DEFINE m == keepalive("ping", {0})
  <2>1. /\ inbox[p] # <<>>
        /\ inbox' = post(taken(p), p, m) \/ inbox' = taken(p)
    BY <1>3 DEF take_handshake, arrived
  <2>2. m.type \in Chat
    BY <1>2
  <2> HIDE DEF m
  <2>3. Deals(p, q, {m})
    BY <2>1, Dealt
  <2>4. QED
    BY <1>3, <2>2, <2>3 DEF take_handshake
<1>4. CASE measure(p)
  <2>1. /\ inbox[p] # <<>>
        /\ \/ \E k \in {"ping", "pong"} : \E n : inbox' = post(taken(p), p, keepalive(k, n))
           \/ inbox' = taken(p)
    BY <1>4 DEF measure, arrived
  <2>2. \E m : m.type \in Chat /\ Deals(p, q, {m})
    <3>1. CASE inbox' = taken(p)
      BY <1>2, <2>1, <3>1, Dealt
    <3>2. CASE \E k \in {"ping", "pong"} : \E n : inbox' = post(taken(p), p, keepalive(k, n))
      BY <1>2, <2>1, <3>2, Dealt
    <3>3. QED
      BY <2>1, <3>1, <3>2
  <2>3. QED
    BY <1>4, <2>2 DEF measure
<1>5. CASE ping(p)
  <2>1. \E m : m.type \in Chat /\ Deals(p, q, {m})
    BY <1>2, <1>5, Dealt DEF ping
  <2>2. QED
    BY <1>5, <2>1 DEF ping
<1>6. CASE answer_ping(p)
  <2>1. \E m : m.type \in Chat /\ Deals(p, q, {m})
    BY <1>2, <1>6, Dealt DEF answer_ping, arrived
  <2>2. QED
    BY <1>6, <2>1 DEF answer_ping, Listening
<1>7. CASE skip_pong(p)
  <2>1. \E m : m.type \in Chat /\ Deals(p, q, {m})
    BY <1>2, <1>7, Dealt DEF skip_pong, arrived
  <2>2. QED
    BY <1>7, <2>1 DEF skip_pong, Listening
<1>8. QED
  BY <1>1, <1>3, <1>4, <1>5, <1>6, <1>7 DEF Chats

\* What is known of a decision.
Proper(d) == d.kind \in Slots /\ d.elapsed \subseteq Nat
DecisionsAreTimed ==
  \A c, g, o : \A d \in Decides(c, g, o) :
    "kind" \in DOMAIN d /\ d.kind \in Slots /\ "elapsed" \in DOMAIN d

\* The decision is there, and is sent.
LEMMA DecideEffect ==
  ASSUME DecisionsAreTimed, Domains, NEW p \in Peers, NEW q, q = other(p), decide(p)
  PROVE  /\ pc[p] = "deciding" /\ pc'[p] = "deciding" /\ choice[p] = {}
         /\ \E d : Proper(d) /\ choice'[p] = {d} /\ Deals(p, q, {slot_message(p, d)})
         /\ game'[p] = game[p] /\ banks'[p] = banks[p] /\ offers'[p] = offers[p]
         /\ slot'[p] = slot[p] /\ pending'[p] = pending[p] /\ verdict'[p] = verdict[p]
         /\ color'[p] = color[p]
<1>1. PICK d \in Decides(color[p], game[p], other(p) \in offers[p]), t \in think(p) :
        LET mine == [d EXCEPT !.elapsed = t]
        IN  /\ choice' = [choice EXCEPT ![p] = {mine}]
            /\ inbox' = post(inbox, p, slot_message(p, mine))
  BY DEF decide
<1> DEFINE mine == [d EXCEPT !.elapsed = t]
<1>2. t \subseteq Nat
  BY BoundsAssumption DEF think
<1>3. Proper(mine)
  BY <1>2 DEF DecisionsAreTimed, Proper
<1>4. choice' = [choice EXCEPT ![p] = {mine}] /\ inbox' = post(inbox, p, slot_message(p, mine))
  BY <1>1
<1> HIDE DEF mine
<1>5. choice'[p] = {mine} /\ Deals(p, q, {slot_message(p, mine)})
  BY <1>4, Dealt DEF Domains
<1>6. QED
  BY <1>3, <1>5 DEF decide, terms, standings, Domains

\* The other's slot is taken.
LEMMA TakeSlotEffect ==
  ASSUME Domains, NEW p \in Peers, NEW q, q = other(p), take_slot(p)
  PROVE  /\ pc[p] = "deciding" /\ pc'[p] = "deciding" /\ slot[p] = {}
         /\ inbox[p] # <<>> /\ Head(inbox[p]).type \in Slots /\ slot'[p] = {Head(inbox[p])}
         /\ inbox' = taken(p) /\ Deals(p, q, {})
         /\ game'[p] = game[p] /\ banks'[p] = banks[p] /\ offers'[p] = offers[p]
         /\ choice'[p] = choice[p] /\ pending'[p] = pending[p] /\ verdict'[p] = verdict[p]
         /\ color'[p] = color[p]
<1>1. inbox[p] # <<>> /\ inbox' = taken(p)
  BY DEF take_slot, Substance, arrived
<1>2. Deals(p, q, {})
  BY <1>1, Dealt DEF Domains
<1>3. QED
  BY <1>1, <1>2 DEF take_slot, message, terms, standings, Domains

\* The own program is revealed.
LEMMA RevealEffect ==
  ASSUME Domains, NEW p \in Peers, NEW q, q = other(p), reveal(p)
  PROVE  /\ pc[p] = "deciding" /\ pc'[p] = "revealing"
         /\ \E d \in choice[p], m \in slot[p] :
              /\ slots_verdict(p, d, m) = {}
              /\ offers'[p] = offers_of(p, d, m)
              /\ Deals(p, q, {reveal_message(p, d)})
         /\ game'[p] = game[p] /\ banks'[p] = banks[p] /\ slot'[p] = slot[p]
         /\ choice'[p] = choice[p] /\ pending'[p] = pending[p] /\ verdict'[p] = verdict[p]
         /\ color'[p] = color[p]
<1>1. PICK d \in choice[p], m \in slot[p] :
        /\ slots_verdict(p, d, m) = {}
        /\ offers' = [offers EXCEPT ![p] = offers_of(p, d, m)]
        /\ inbox' = post(inbox, p, reveal_message(p, d))
  BY DEF reveal
<1>2. Deals(p, q, {reveal_message(p, d)}) /\ offers'[p] = offers_of(p, d, m)
  BY <1>1, Dealt DEF Domains
<1>3. QED
  BY <1>1, <1>2 DEF reveal, terms, settled, Domains

\* The other's program is taken, and what it comes to acknowledged.
LEMMA TakeRevealEffect ==
  ASSUME Domains, NEW p \in Peers, NEW q, q = other(p), take_reveal(p)
  PROVE  /\ pc[p] = "revealing" /\ pc'[p] = "acking"
         /\ inbox[p] # <<>> /\ inbox'[p] = Tail(inbox[p])
         /\ \E d \in choice[p], s \in slot[p] :
              LET m == Head(inbox[p])
                  r == computed(p, d, m)
              IN  acceptable(p, d, m, s) /\ pending'[p] = {r} /\ Deals(p, q, {ack_message(p, r)})
         /\ game'[p] = game[p] /\ banks'[p] = banks[p] /\ slot'[p] = slot[p]
         /\ choice'[p] = choice[p] /\ offers'[p] = offers[p] /\ verdict'[p] = verdict[p]
         /\ color'[p] = color[p]
<1>1. PICK d \in choice[p], s \in slot[p] :
        LET r == computed(p, d, message(p))
        IN  /\ acceptable(p, d, message(p), s)
            /\ pending' = [pending EXCEPT ![p] = {r}]
            /\ inbox' = post(taken(p), p, ack_message(p, r))
  BY DEF take_reveal
<1> DEFINE r == computed(p, d, message(p))
<1>2. /\ acceptable(p, d, message(p), s) /\ pending'[p] = {r}
      /\ inbox' = post(taken(p), p, ack_message(p, r))
  BY <1>1 DEF Domains
<1>3. inbox[p] # <<>> /\ message(p) = Head(inbox[p])
  BY DEF take_reveal, Substance, arrived, message
<1>4. Deals(p, q, {ack_message(p, r)})
  BY <1>2, <1>3, Dealt DEF Domains
<1>5. inbox'[p] = Tail(inbox[p])
  BY <1>2, OtherPeer DEF post, taken, Domains
<1>6. acceptable(p, d, Head(inbox[p]), s)
  BY <1>2, <1>3
<1>7. r = computed(p, d, Head(inbox[p]))
  BY <1>3
<1> HIDE DEF r
<1>8. \E dd \in choice[p], ss \in slot[p] :
        LET m  == Head(inbox[p])
            rr == computed(p, dd, m)
        IN  acceptable(p, dd, m, ss) /\ pending'[p] = {rr} /\ Deals(p, q, {ack_message(p, rr)})
  BY <1>2, <1>4, <1>6, <1>7
<1>9. QED
  BY <1>3, <1>5, <1>8 DEF take_reveal, terms, standings, Domains

\* The other's ack is taken: it is no ack of this result and the match fails, or
\* what was computed takes effect, and ends the match or starts the next phase.
LEMMA TakeAckEffect ==
  ASSUME Domains, NEW p \in Peers, NEW q, q = other(p), take_ack(p)
  PROVE  /\ pc[p] = "acking" /\ inbox[p] # <<>> /\ offers'[p] = offers[p] /\ color'[p] = color[p]
         /\ \E r \in pending[p] :
              \/ /\ ends(p, error("ProtocolError"))
                 /\ game'[p] = game[p] /\ banks'[p] = banks[p]
              \/ /\ Head(inbox[p]) = ack_message(p, r)
                 /\ game'[p] = r.game /\ banks'[p] = {e.after : e \in r.ledger}
                 /\ \/ \E v \in r.verdict : ends(p, v)
                    \/ /\ r.verdict = {} /\ pc'[p] = "deciding"
                       /\ inbox' = taken(p) /\ Deals(p, q, {})
                       /\ choice'[p] = {} /\ slot'[p] = {} /\ pending'[p] = {}
                       /\ verdict'[p] = verdict[p]
<1>1. inbox[p] # <<>> /\ message(p) = Head(inbox[p])
  BY DEF take_ack, Substance, arrived, message
<1>2. PICK r \in pending[p] :
        IF ~ confirms(p, r, message(p))
        THEN ends(p, error("ProtocolError")) /\ UNCHANGED <<game, banks>>
        ELSE /\ game' = [game EXCEPT ![p] = r.game]
             /\ banks' = [banks EXCEPT ![p] = {e.after : e \in r.ledger}]
             /\ \/ \E v \in r.verdict : ends(p, v)
                \/ /\ r.verdict = {}
                   /\ pc' = [pc EXCEPT ![p] = "deciding"]
                   /\ inbox' = taken(p)
                   /\ choice' = [choice EXCEPT ![p] = {}]
                   /\ slot' = [slot EXCEPT ![p] = {}]
                   /\ pending' = [pending EXCEPT ![p] = {}]
                   /\ UNCHANGED verdict
  BY DEF take_ack
<1>3. inbox' = taken(p) => Deals(p, q, {})
  BY <1>1, Dealt DEF Domains
<1>4. CASE ~ confirms(p, r, message(p))
  BY <1>1, <1>2, <1>4 DEF take_ack, terms
<1>5. CASE confirms(p, r, message(p))
  <2>1. Head(inbox[p]) = ack_message(p, r)
    BY <1>1, <1>5 DEF confirms
  <2>2. game'[p] = r.game /\ banks'[p] = {e.after : e \in r.ledger}
    BY <1>2, <1>5 DEF Domains
  <2>3. \/ \E v \in r.verdict : ends(p, v)
        \/ /\ r.verdict = {} /\ pc'[p] = "deciding"
           /\ inbox' = taken(p) /\ Deals(p, q, {})
           /\ choice'[p] = {} /\ slot'[p] = {} /\ pending'[p] = {}
           /\ verdict'[p] = verdict[p]
    BY <1>2, <1>3, <1>5 DEF Domains
  <2>4. QED
    BY <1>1, <2>1, <2>2, <2>3 DEF take_ack, terms
<1>6. QED
  BY <1>4, <1>5

\* Every other end of a match, with an error or a result.
Stops(p) ==
  reject_handshake(p) \/ close_match(p) \/ forfeit(p) \/ give_up(p) \/ reject_time(p) \/ hear_end(p)

\* What a handler raises is an error,
LEMMA ErrorKinds ==
  ASSUME NEW e \in {Mismatch[f] : f \in DOMAIN Mismatch}
                     \cup {"ColorNegotiationError", "ProtocolError", "TransportTimeout"}
  PROVE  error(e) \in Errors
BY DEF error, Errors

\* and so is whatever is wrong with a greeting.
LEMMA ObjectionKinds ==
  ASSUME NEW p
  PROVE  objections(p) \subseteq {Mismatch[f] : f \in DOMAIN Mismatch} \cup {"ColorNegotiationError"}
<1>1. ASSUME NEW a, NEW b PROVE mismatches(a, b) \subseteq {Mismatch[f] : f \in DOMAIN Mismatch}
  <2>1. \A i \in DOMAIN Agreed : Agreed[i] \in DOMAIN Mismatch
    BY DEF Agreed, Mismatch
  <2>2. disagreeing(a, b) \subseteq DOMAIN Agreed
    BY DEF disagreeing
  <2>3. QED
    BY <2>1, <2>2 DEF mismatches
<1>2. QED
  BY <1>1 DEF objections

\* A match ends with an error, or with what slots, reveals or an ack say.
LEMMA StopEffect ==
  ASSUME Domains, NEW p \in Peers, Stops(p)
  PROVE  /\ game'[p] = game[p] /\ banks'[p] = banks[p] /\ offers'[p] = offers[p]
         /\ color'[p] = color[p] /\ Live(p)
         /\ \/ \E e \in Errors : ends(p, e)
            \/ /\ pc[p] = "deciding"
               /\ \E d \in choice[p], m \in slot[p] : \E v \in slots_verdict(p, d, m) : ends(p, v)
            \/ /\ pc[p] = "revealing" /\ inbox[p] # <<>>
               /\ \E d \in choice[p], s \in slot[p] :
                    /\ ~ spoiled(p, d, Head(inbox[p]), s)
                    /\ \E v \in adjudicate_legality(p, d, Head(inbox[p])) : ends(p, v)
<1> USE DEF terms, standings, Live
<1>1. CASE reject_handshake(p)
  <2>1. PICK e \in objections(p) : ends(p, error(e))
    BY <1>1 DEF reject_handshake
  <2>2. error(e) \in Errors
    BY ObjectionKinds, ErrorKinds
  <2>3. QED
    BY <1>1, <2>1, <2>2 DEF reject_handshake
<1>2. CASE close_match(p)
  BY <1>2 DEF close_match
<1>3. error("ProtocolError") \in Errors /\ error("TransportTimeout") \in Errors
  BY ErrorKinds
<1>4. CASE forfeit(p)
  <2>1. pc[p] = "revealing" /\ inbox[p] # <<>> /\ message(p) = Head(inbox[p])
    BY <1>4 DEF forfeit, Substance, arrived, message
  <2>2. PICK d \in choice[p], s \in slot[p] :
          IF spoiled(p, d, message(p), s) THEN ends(p, error("ProtocolError"))
          ELSE \E v \in adjudicate_legality(p, d, message(p)) : ends(p, v)
    BY <1>4 DEF forfeit
  <2>3. \/ \E e \in Errors : ends(p, e)
        \/ /\ ~ spoiled(p, d, Head(inbox[p]), s)
           /\ \E v \in adjudicate_legality(p, d, Head(inbox[p])) : ends(p, v)
    BY <1>3, <2>1, <2>2
  <2>4. UNCHANGED <<terms, standings>>
    BY <1>4 DEF forfeit
  <2>5. QED
    BY <2>1, <2>3, <2>4
<1>5. CASE give_up(p)
  BY <1>3, <1>5 DEF give_up, Receiving, Listening
<1>6. CASE reject_time(p)
  BY <1>3, <1>6 DEF reject_time
<1>7. CASE hear_end(p)
  BY <1>3, <1>7 DEF hear_end, Receiving, Listening
<1>8. QED
  BY <1>1, <1>2, <1>4, <1>5, <1>6, <1>7 DEF Stops

\* These are all the actions of a peer.
LEMMA ActionCases ==
  ASSUME NEW p, Acts(p)
  PROVE  \/ Chats(p) \/ decide(p) \/ take_slot(p) \/ reveal(p) \/ take_reveal(p)
         \/ take_ack(p) \/ Stops(p)
BY DEF Acts, Works, Chats, Stops

\* A cut leaves a part of what was on its way, and all else as it was.
LEMMA CutEffect ==
  ASSUME Domains, \A r \in Peers : IsBox(inbox[r]), sever
  PROVE  /\ Domains' /\ cut'
         /\ UNCHANGED <<conf, pc, color, game, banks, offers, choice, slot, pending, verdict>>
         /\ \A r \in Peers :
              /\ Messages(inbox'[r]) \subseteq Messages(inbox[r])
              /\ OneReveal(inbox[r]) => OneReveal(inbox'[r])
              /\ \A k : Holds(inbox'[r], k) => Holds(inbox[r], k)
              /\ inbox'[r] # <<>> => inbox[r] # <<>> /\ Head(inbox'[r]) = Head(inbox[r])
<1>1. PICK n \in [Peers -> 0..2] :
        inbox' = [p \in Peers |-> SubSeq(inbox[p], 1, IF n[p] < Len(inbox[p]) THEN n[p]
                                                      ELSE Len(inbox[p]))]
  BY DEF sever
<1>2. ASSUME NEW r \in Peers
      PROVE  /\ Messages(inbox'[r]) \subseteq Messages(inbox[r])
             /\ OneReveal(inbox[r]) => OneReveal(inbox'[r])
             /\ inbox'[r] # <<>> => inbox[r] # <<>> /\ Head(inbox'[r]) = Head(inbox[r])
  <2> DEFINE l == IF n[r] < Len(inbox[r]) THEN n[r] ELSE Len(inbox[r])
  <2>1. IsBox(inbox[r])
    OBVIOUS
  <2>2. Len(inbox[r]) \in Nat
    BY <2>1 DEF IsBox
  <2>3. l \in Nat /\ l <= Len(inbox[r])
    BY <2>2
  <2>4. inbox'[r] = SubSeq(inbox[r], 1, l)
    BY <1>1
  <2> HIDE DEF l
  <2>5. QED
    BY <2>1, <2>3, <2>4, CutMessages
<1>3. \A r \in Peers : \A k : Holds(inbox'[r], k) => Holds(inbox[r], k)
  BY <1>2, HoldsMessages
<1>4. QED
  BY <1>1, <1>2, <1>3 DEF sever, standings, settled, Domains

-----------------------------------------------------------------------------
(***************************************************************************)
(* The handshake: whoever is past it was started like the other and plays  *)
(* the other colour.                                                       *)
(***************************************************************************)
Past(p) == pc[p] \notin {"start", "greeting"}

Greeted(p, q) ==
  /\ ~ Past(p) => /\ inbox[p] # <<>> => Head(inbox[p]) = to_message(conf[q])
                  /\ pc[q] # "start" /\ ~ cut => inbox[p] # <<>>
  /\ Past(p) => /\ disagreeing(to_message(conf[p]), to_message(conf[q])) = {}
                /\ color[p] \in negotiate_color(to_message(conf[p]), to_message(conf[q]))

Bothlive(p, q) == Live(p) /\ Live(q)
Opened == \A p \in Peers : Bothlive(p, other(p)) => Greeted(p, other(p))
\* What the greeting rests on.
Base == SInv /\ Domains /\ conf \in Settings

\* Every box holds messages of the protocol.
LEMMA BaseBoxes == Base => \A p \in Peers : IsBox(inbox[p])
BY DEF Base, SInv, Boxes

\* A first disagreement is found when there is any.
LEMMA NoMismatch ==
  ASSUME NEW a, NEW b, mismatches(a, b) = {}
  PROVE  disagreeing(a, b) = {}
<1> DEFINE D == disagreeing(a, b)
<1>1. D \subseteq {1, 2, 3, 4, 5}
  BY DEF disagreeing, Agreed
<1>2. {j \in D : \A k \in D : j <= k} = {}
  BY DEF mismatches
<1> HIDE DEF D
<1>3. D = {}
  <2>1. SUFFICES ASSUME D # {} PROVE FALSE
    OBVIOUS
  <2>2. \E j \in D : \A k \in D : j <= k
    <3>1. CASE 1 \in D
      BY <1>1, <3>1
    <3>2. CASE 1 \notin D /\ 2 \in D
      BY <1>1, <3>2
    <3>3. CASE 1 \notin D /\ 2 \notin D /\ 3 \in D
      BY <1>1, <3>3
    <3>4. CASE 1 \notin D /\ 2 \notin D /\ 3 \notin D /\ 4 \in D
      BY <1>1, <3>4
    <3>5. CASE 1 \notin D /\ 2 \notin D /\ 3 \notin D /\ 4 \notin D
      <4>1. \A k \in D : k = 5
        BY <1>1, <3>5
      <4>2. QED
        BY <2>1, <4>1
    <3>6. QED
      BY <3>1, <3>2, <3>3, <3>4, <3>5
  <2>3. QED
    BY <1>2, <2>2
<1>4. QED
  BY <1>3 DEF D

\* A peer past the handshake says nothing that could be taken for one.
LEMMA GreetedMoves ==
  ASSUME Base, NEW p \in Peers, NEW q, q = other(p), NEW new, Deals(p, q, new), Rests(q),
         Past(p), Past(p)', color'[p] = color[p],
         Greeted(p, q), Greeted(q, p)
  PROVE  Greeted(p, q)' /\ Greeted(q, p)'
<1>1. q \in Peers /\ q # p
  BY OtherPeer
<1>2. /\ inbox[q] # <<>> => inbox'[q] # <<>> /\ Head(inbox'[q]) = Head(inbox[q])
      /\ inbox[q] = <<>> /\ cut => inbox'[q] = <<>>
  BY <1>1, AfterDeal, BaseBoxes
<1>3. Greeted(p, q)'
  BY DEF Greeted, Past, Rests
<1>4. Past(q)' <=> Past(q)
  BY DEF Past, Rests
<1>5. pc[p] # "start" /\ pc'[p] # "start"
  BY DEF Past
<1>6. Greeted(q, p)'
  BY <1>2, <1>4, <1>5 DEF Greeted, Rests
<1>7. QED
  BY <1>3, <1>6

\* The first thing a peer says is its handshake.
LEMMA GreetedGreets ==
  ASSUME Base, NEW p \in Peers, NEW q, q = other(p), Rests(q), Live(q), greet(p),
         Greeted(p, q), Greeted(q, p)
  PROVE  Greeted(p, q)' /\ Greeted(q, p)'
<1>1. q \in Peers /\ q # p
  BY OtherPeer
<1>2. pc[p] = "start" /\ pc'[p] = "greeting"
  BY DEF greet, Base, Domains
<1>3. inbox' = IF cut THEN inbox ELSE [inbox EXCEPT ![q] = Append(@, to_message(conf[p]))]
  BY DEF greet, post, Live
<1>4. /\ inbox'[p] = inbox[p]
      /\ cut => inbox'[q] = inbox[q]
      /\ ~ cut => inbox'[q] = Append(inbox[q], to_message(conf[p]))
  BY <1>1, <1>3 DEF Base, Domains
<1>5. Greeted(p, q)'
  BY <1>2, <1>4 DEF Greeted, Past, Rests
<1>6. /\ ~ cut => inbox'[q] # <<>>
      /\ inbox[q] # <<>> => Head(inbox'[q]) = Head(inbox[q])
      /\ inbox[q] = <<>> /\ inbox'[q] # <<>> => Head(inbox'[q]) = to_message(conf[p])
  BY <1>1, <1>4, BaseBoxes, AppendedMessages
<1>7. Greeted(q, p)'
  BY <1>6 DEF Greeted, Past, Rests
<1>8. QED
  BY <1>5, <1>7

\* The handshake is taken from the other, and nothing in it disagrees.
LEMMA GreetedTaken ==
  ASSUME Base, NEW p \in Peers, NEW q, q = other(p), Rests(q), take_handshake(p),
         Greeted(p, q), Greeted(q, p)
  PROVE  Greeted(p, q)' /\ Greeted(q, p)'
<1>1. q \in Peers /\ q # p
  BY OtherPeer
<1>2. /\ pc[p] = "greeting" /\ pc'[p] \in {"measuring", "deciding"} /\ inbox[p] # <<>>
      /\ objections(p) = {} /\ message(p) = Head(inbox[p])
      /\ color'[p] \in negotiate_color(to_message(conf[p]), message(p))
  BY DEF take_handshake, arrived, message, Base, Domains
<1>3. message(p) = to_message(conf[q])
  BY <1>2 DEF Greeted, Past
<1>4. disagreeing(to_message(conf[p]), to_message(conf[q])) = {}
  BY <1>2, <1>3, NoMismatch DEF objections
<1>5. Greeted(p, q)'
  BY <1>2, <1>3, <1>4 DEF Greeted, Past, Rests
<1>6. PICK m : Deals(p, q, {m})
  BY ChatEffect DEF Chats, Base
<1>7. /\ inbox[q] # <<>> => inbox'[q] # <<>> /\ Head(inbox'[q]) = Head(inbox[q])
      /\ inbox[q] = <<>> /\ cut => inbox'[q] = <<>>
  BY <1>1, <1>6, AfterDeal, BaseBoxes
<1>8. Past(q)' <=> Past(q)
  BY DEF Past, Rests
<1>9. Greeted(q, p)'
  BY <1>2, <1>7, <1>8 DEF Greeted, Rests
<1>10. QED
  BY <1>5, <1>9

\* One case for each kind of action.
LEMMA OpenedStep ==
  ASSUME DecisionsAreTimed, Base, Opened, NEW p \in Peers, NEW q, q = other(p), Acts(p),
         Bothlive(p, q)'
  PROVE  Greeted(p, q)' /\ Greeted(q, p)'
<1>1. q \in Peers /\ q # p /\ p = other(q)
  BY OtherPeer
<1>2. Rests(q)
  BY <1>1, Local DEF Base
<1>3. Live(q) /\ Live(p)'
  BY <1>2 DEF Bothlive, Live, Rests
<1> USE DEF Base
<1>4. \A v : ~ ends(p, v)
  BY <1>1, <1>3, EndEffect DEF Live
<1>5. Live(p)
  <2>1. CASE Chats(p)
    BY <2>1, ChatEffect
  <2>2. CASE Stops(p)
    BY <2>2, StopEffect
  <2>3. CASE ~ Chats(p) /\ ~ Stops(p)
    BY <2>3, ActionCases DEF decide, take_slot, reveal, take_reveal, take_ack, Live
  <2>4. QED
    BY <2>1, <2>2, <2>3
<1>6. Greeted(p, q) /\ Greeted(q, p)
  BY <1>1, <1>3, <1>5 DEF Opened, Bothlive
<1>7. CASE greet(p)
  BY <1>2, <1>3, <1>6, <1>7, GreetedGreets
<1>8. CASE take_handshake(p)
  BY <1>2, <1>6, <1>8, GreetedTaken
<1>9. ASSUME ~ greet(p), ~ take_handshake(p)
      PROVE  Past(p) /\ Past(p)' /\ color'[p] = color[p] /\ \E new : Deals(p, q, new)
  <2> USE DEF Past
  <2>1. CASE Chats(p)
    BY <1>9, <2>1, ChatEffect
  <2>2. CASE decide(p)
    BY <2>2, DecideEffect
  <2>3. CASE take_slot(p)
    BY <2>3, TakeSlotEffect
  <2>4. CASE reveal(p)
    BY <2>4, RevealEffect
  <2>5. CASE take_reveal(p)
    BY <2>5, TakeRevealEffect
  <2>6. CASE take_ack(p)
    BY <1>4, <2>6, TakeAckEffect
  <2>7. CASE Stops(p)
    BY <1>4, <2>7, StopEffect
  <2>8. QED
    BY <2>1, <2>2, <2>3, <2>4, <2>5, <2>6, <2>7, ActionCases
<1>10. QED
  BY <1>2, <1>6, <1>7, <1>8, <1>9, GreetedMoves

\* A cut takes no greeting out of order.
LEMMA OpenedCut ==
  ASSUME Base, Opened, sever
  PROVE  Opened'
BY CutEffect, BaseBoxes DEF Base, Opened, Bothlive, Live, Greeted, Past

\* Nobody has greeted at the start.
LEMMA OpenedStart == Init => Opened
BY OtherPeer DEF Init, Opened, Greeted, Past

\* Peers past the handshake play opposite colours and stop at the same phase.
LEMMA Opposed ==
  ASSUME Base, NEW p \in Peers, NEW q, q = other(p), Past(p), Past(q),
         Greeted(p, q), Greeted(q, p)
  PROVE  /\ color[p] \in Color /\ color[q] = opponent(color[p]) /\ color[p] = opponent(color[q])
         /\ conf[p].terms.max_phases = conf[q].terms.max_phases
<1>1. q \in Peers
  BY OtherPeer
<1> DEFINE a == to_message(conf[p])
           b == to_message(conf[q])
<1>2. /\ a.proposed_color \in Color /\ b.proposed_color \in Color
      /\ a.nonce \in Nat /\ b.nonce \in Nat
      /\ a.terms = conf[p].terms /\ b.terms = conf[q].terms
  BY <1>1, SettingsAssumption DEF Base, to_message
<1>3. /\ color[p] \in negotiate_color(a, b) /\ color[q] \in negotiate_color(b, a)
      /\ disagreeing(a, b) = {}
  BY DEF Greeted
<1> HIDE DEF a, b
<1>4. color[p] \in Color /\ color[q] = opponent(color[p])
  BY <1>2, <1>3, ColoursSettled
<1>5. 5 \in DOMAIN Agreed /\ Agreed[5] = "max_phases"
  BY DEF Agreed
<1>6. conf[p].terms["max_phases"] = conf[q].terms["max_phases"]
  BY <1>2, <1>3, <1>5 DEF disagreeing
<1>7. QED
  BY <1>4, <1>6, OpponentDiffers

-----------------------------------------------------------------------------
(***************************************************************************)
(* What a peer's own loop keeps, whatever it is sent.                      *)
(***************************************************************************)
One(S) == \A x, y \in S : x = y
Revealed(p) == pc[p] \in {"revealing", "acking"}
Extended(g, h) == h # <<>> /\ h = Append(g, h[Len(h)])

\* phi has at most one outcome.
OneOutcome == \A g : One(Terminal(g))

\* What was computed leaves the game as it was and ends it, or adds a phase.
Outcome(p, r) ==
  /\ r.game = game[p] \/ Extended(game[p], r.game)
  /\ r.verdict = {} => Extended(game[p], r.game)
  /\ One(r.verdict) /\ One(r.ledger)
  /\ \A e \in r.ledger : e.after \in [Color -> Int]
  /\ r.ledger # {} => timed(p)

Loop(p) ==
  /\ One(verdict[p]) /\ (Live(p) => verdict[p] = {})
  /\ IsBox(game[p])
  /\ One(choice[p]) /\ One(slot[p]) /\ One(pending[p])
  /\ \A d \in choice[p] : Proper(d)
  /\ choice[p] # {} => pc[p] \in {"deciding", "revealing", "acking"}
  /\ Revealed(p) => choice[p] # {} /\ slot[p] # {}
  /\ pending[p] # {} <=> pc[p] = "acking"
  /\ \A m \in slot[p] : m.type \in Slots
  /\ Revealed(p) => \A d \in choice[p], m \in slot[p] :
       d.kind = "commit" /\ m.type = "commit" /\ offers[p] = offers_of(p, d, m)
  /\ One(banks[p]) /\ banks[p] \subseteq [Color -> Int] /\ (banks[p] # {} => timed(p))
  /\ \A r \in pending[p] : Outcome(p, r)

\* Times are revealed in whole microseconds.
Sound(p) == \A m \in Messages(inbox[p]) : m.type = "reveal" => m.elapsed \subseteq Nat

\* The times of a phase, when both are known.
LEMMA TimesKnown ==
  ASSUME NEW p, NEW d, NEW m, d.elapsed \subseteq Nat, m.elapsed \subseteq Nat,
         d.elapsed # {}, m.elapsed # {}
  PROVE  times(p, d, m) \in [Color -> Nat]
BY DEF times, by_color

\* A phase makes a game one phase longer.
LEMMA LongerGame ==
  ASSUME NEW g, IsBox(g), NEW x
  PROVE  /\ IsBox(Append(g, x)) /\ Extended(g, Append(g, x))
         /\ Append(g, x)[Len(Append(g, x))] = x
         /\ Len(Append(g, x)) = Len(g) + 1 /\ Len(g) \in Nat
<1>1. PICK S : g \in Seq(S)
  BY DEF IsBox
<1>2. g \in Seq(S \cup {x})
  BY <1>1
<1> DEFINE h == Append(g, x)
<1>3. /\ h \in Seq(S \cup {x}) /\ Len(h) = Len(g) + 1 /\ Len(g) \in Nat
      /\ h[Len(h)] = x
  BY <1>2
<1>4. Len(<<>>) = 0
  OBVIOUS
<1>5. h # <<>>
  BY <1>3, <1>4
<1>6. QED
  BY <1>3, <1>5 DEF IsBox, Extended

\* What a peer computes extends its game, or ends the match on time.
LEMMA ComputedOutcome ==
  ASSUME OneOutcome, Base, NEW p \in Peers, Loop(p), NEW d \in choice[p], NEW m, NEW s,
         m.elapsed \subseteq Nat, ~ spoiled(p, d, m, s)
  PROVE  Outcome(p, computed(p, d, m))
<1> DEFINE r == computed(p, d, m)
           played == Append(game[p], [programs |-> by_color(p, d.program, m.program),
                                      clock    |-> ledger(p, d, m)])
<1>1. r.ledger = ledger(p, d, m)
  BY DEF computed
<1>2. ASSUME fallen(p, d, m) # {}
      PROVE  /\ r.game = game[p] \/ Extended(game[p], r.game)
             /\ r.verdict = {} => Extended(game[p], r.game)
             /\ One(r.verdict)
  <2>1. r.game = game[p] /\ r.verdict # {} /\ One(r.verdict)
    BY <1>2 DEF computed, One
  <2>2. QED
    BY <2>1
<1>3. ASSUME fallen(p, d, m) = {}
      PROVE  /\ r.game = game[p] \/ Extended(game[p], r.game)
             /\ r.verdict = {} => Extended(game[p], r.game)
             /\ One(r.verdict)
  <2>1. r.game = played /\ r.verdict = IF Terminal(played) # {} THEN Terminal(played)
                                       ELSE limit(p, Len(played))
    BY <1>3 DEF computed
  <2>2. Extended(game[p], played)
    BY LongerGame DEF Loop
  <2>3. One(limit(p, Len(played))) /\ One(Terminal(played))
    BY DEF One, limit, OneOutcome
  <2>4. QED
    BY <2>1, <2>2, <2>3
<1>4. ASSUME NEW b \in banks[p]
      PROVE  banks_after(b, control(p), times(p, d, m)) \in [Color -> Int]
  <2>1. timed(p) /\ b \in [Color -> Int]
    BY DEF Loop
  <2>2. control(p) \in conf[p].clock /\ conf[p].clock \subseteq TimeControl
    BY <2>1, SettingsAssumption DEF timed, control, Base
  <2>3. d.elapsed # {} /\ m.elapsed # {} /\ d.elapsed \subseteq Nat
    BY <2>1 DEF spoiled, Loop, Proper
  <2>4. times(p, d, m) \in [Color -> Nat]
    BY <2>3, TimesKnown
  <2>5. \A c \in Color : banks_after(b, control(p), times(p, d, m))[c] \in Int
    BY <2>1, <2>2, <2>4, FallenIffEmpty
  <2>6. QED
    BY <2>5 DEF banks_after
<1>5. \A e \in ledger(p, d, m) : \E b \in banks[p] :
        e.after = banks_after(b, control(p), times(p, d, m))
  BY DEF ledger, clock_entry
<1>6. /\ One(r.ledger) /\ \A e \in r.ledger : e.after \in [Color -> Int]
      /\ r.ledger # {} => timed(p)
  <2>1. One(ledger(p, d, m))
    BY DEF Loop, One, ledger
  <2>2. ledger(p, d, m) # {} => banks[p] # {}
    BY DEF ledger
  <2>3. QED
    BY <1>1, <1>4, <1>5, <2>1, <2>2 DEF Loop
<1>7. /\ r.game = game[p] \/ Extended(game[p], r.game)
      /\ r.verdict = {} => Extended(game[p], r.game)
      /\ One(r.verdict)
  BY <1>2, <1>3
<1>8. QED
  BY <1>6, <1>7 DEF Outcome

\* The peer that does not move,
LEMMA LoopRests ==
  ASSUME NEW q, Rests(q), Loop(q)
  PROVE  Loop(q)'
<1>1. \A r : Outcome(q, r)' <=> Outcome(q, r)
  BY DEF Outcome, Rests, timed
<1>2. \A d, m : offers_of(q, d, m)' = offers_of(q, d, m)
  BY DEF offers_of
<1>3. QED
  BY <1>1, <1>2 DEF Loop, Rests, Revealed, Live, timed

\* a peer that sends or takes keepalive messages,
LEMMA LoopKeeps ==
  ASSUME NEW p, Loop(p), Keeping(p), conf' = conf, Live(p),
         pc'[p] = pc[p] \/ (pc[p] \in Opening /\ pc'[p] \in {"greeting", "measuring", "deciding"})
  PROVE  Loop(p)'
<1>1. \A r : Outcome(p, r)' <=> Outcome(p, r)
  BY DEF Outcome, Keeping, timed
<1>2. \A d, m : offers_of(p, d, m)' = offers_of(p, d, m)
  BY DEF offers_of
<1>3. Revealed(p)' <=> Revealed(p)
  BY DEF Revealed, Opening
<1>4. (pc'[p] = "acking" <=> pc[p] = "acking") /\ Live(p)'
  BY DEF Opening, Live
<1>5. choice[p] # {} => pc'[p] = pc[p]
  BY DEF Loop, Opening
<1>6. QED
  BY <1>1, <1>2, <1>3, <1>4, <1>5 DEF Loop, Keeping, timed

\* and a peer whose match ends.
LEMMA LoopEnds ==
  ASSUME Domains, NEW p \in Peers, Loop(p), conf' = conf, NEW v, ends(p, v),
         IsBox(game'[p]),
         One(banks'[p]) /\ banks'[p] \subseteq [Color -> Int] /\ (banks'[p] # {} => timed(p))
  PROVE  Loop(p)'
<1>1. other(p) \in Peers /\ other(p) # p
  BY OtherPeer
<1>2. /\ pc'[p] = "over" /\ choice'[p] = {} /\ slot'[p] = {} /\ pending'[p] = {}
      /\ verdict'[p] = {v}
  BY <1>1, EndEffect
<1>3. ~ Revealed(p)' /\ ~ Live(p)'
  BY <1>2 DEF Revealed, Live
<1>4. QED
  BY <1>2, <1>3 DEF Loop, One, timed

\* A peer that is to reveal has two commitments before it.
LEMMA BothCommit ==
  ASSUME NEW p, NEW d, NEW m, d.kind \in Slots, m.type \in Slots, slots_verdict(p, d, m) = {}
  PROVE  d.kind = "commit" /\ m.type = "commit"
BY DEF slots_verdict, resolve_slots, Slots

\* Every step of a peer keeps its own loop in order,
LEMMA LoopStep ==
  ASSUME DecisionsAreTimed, DecisionsAreSlots, OneOutcome, Base, NEW p \in Peers, NEW q,
         q = other(p), Acts(p), Loop(p), Sound(p)
  PROVE  Loop(p)'
<1>1. q \in Peers /\ q # p
  BY OtherPeer
<1>2. conf' = conf
  BY <1>1, Local DEF Base, Rests
<1> USE DEF Base
<1>3. CASE Chats(p)
  BY <1>2, <1>3, ChatEffect, LoopKeeps
<1>4. CASE decide(p)
  <2>1. /\ pc[p] = "deciding" /\ pc'[p] = "deciding" /\ game'[p] = game[p]
        /\ banks'[p] = banks[p] /\ slot'[p] = slot[p] /\ pending'[p] = pending[p]
        /\ verdict'[p] = verdict[p]
    BY <1>4, DecideEffect
  <2>2. PICK d : Proper(d) /\ choice'[p] = {d}
    BY <1>4, DecideEffect
  <2>3. \A r : Outcome(p, r)' <=> Outcome(p, r)
    BY <1>2, <2>1 DEF Outcome, timed
  <2>4. ~ Revealed(p)' /\ Live(p)' /\ Live(p)
    BY <2>1 DEF Revealed, Live
  <2>5. Proper(d)'
    BY <2>2 DEF Proper
  <2>6. QED
    BY <1>2, <2>1, <2>2, <2>3, <2>4, <2>5 DEF Loop, One, timed
<1>5. CASE take_slot(p)
  <2>1. /\ pc[p] = "deciding" /\ pc'[p] = "deciding" /\ game'[p] = game[p]
        /\ banks'[p] = banks[p] /\ choice'[p] = choice[p] /\ pending'[p] = pending[p]
        /\ verdict'[p] = verdict[p] /\ slot'[p] = {Head(inbox[p])}
        /\ Head(inbox[p]).type \in Slots
    BY <1>5, TakeSlotEffect
  <2>2. \A r : Outcome(p, r)' <=> Outcome(p, r)
    BY <1>2, <2>1 DEF Outcome, timed
  <2>3. ~ Revealed(p)' /\ Live(p)' /\ Live(p)
    BY <2>1 DEF Revealed, Live
  <2>4. QED
    BY <1>2, <2>1, <2>2, <2>3 DEF Loop, One, timed
<1>6. CASE reveal(p)
  <2>1. /\ pc[p] = "deciding" /\ pc'[p] = "revealing" /\ game'[p] = game[p]
        /\ banks'[p] = banks[p] /\ choice'[p] = choice[p] /\ pending'[p] = pending[p]
        /\ verdict'[p] = verdict[p] /\ slot'[p] = slot[p]
    BY <1>6, RevealEffect
  <2>2. PICK d \in choice[p], m \in slot[p] :
          slots_verdict(p, d, m) = {} /\ offers'[p] = offers_of(p, d, m)
    BY <1>6, RevealEffect
  <2>3. Live(p)' /\ Live(p)
    BY <2>1 DEF Live
  <2>4. choice[p] = {d} /\ slot[p] = {m}
    BY DEF Loop, One
  <2>5. m.type \in Slots
    BY DEF Loop
  <2>6. d.kind = "commit" /\ m.type = "commit"
    BY <2>2, <2>5, BothCommit DEF Loop, Proper
  <2>7. \A r : Outcome(p, r)' <=> Outcome(p, r)
    BY <1>2, <2>1 DEF Outcome, timed
  <2>8. offers_of(p, d, m)' = offers_of(p, d, m)
    BY DEF offers_of
  <2>9. QED
    BY <1>2, <2>1, <2>2, <2>3, <2>4, <2>6, <2>7, <2>8 DEF Loop, One, timed
<1>7. CASE take_reveal(p)
  <2>1. /\ pc[p] = "revealing" /\ pc'[p] = "acking" /\ game'[p] = game[p]
        /\ banks'[p] = banks[p] /\ choice'[p] = choice[p] /\ offers'[p] = offers[p]
        /\ verdict'[p] = verdict[p] /\ slot'[p] = slot[p] /\ inbox[p] # <<>>
    BY <1>7, TakeRevealEffect
  <2> DEFINE m == Head(inbox[p])
  <2>2. PICK d \in choice[p], s \in slot[p] :
          acceptable(p, d, m, s) /\ pending'[p] = {computed(p, d, m)}
    BY <1>7, TakeRevealEffect
  <2>3. ~ spoiled(p, d, m, s)
    BY <2>2 DEF acceptable
  <2>4. m \in Messages(inbox[p]) /\ m.type = "reveal"
    BY <2>1, <2>3, TakenMessages, BaseBoxes DEF spoiled
  <2>5. m.elapsed \subseteq Nat
    BY <2>4 DEF Sound
  <2> HIDE DEF m
  <2>6. Outcome(p, computed(p, d, m))
    BY <2>3, <2>5, ComputedOutcome
  <2>7. PICK r : pending'[p] = {r} /\ Outcome(p, r)
    BY <2>2, <2>6
  <2>8. Revealed(p) /\ Revealed(p)' /\ Live(p)' /\ Live(p)
    BY <2>1 DEF Revealed, Live
  <2>9. Outcome(p, r)'
    BY <1>2, <2>1, <2>7 DEF Outcome, timed
  <2>10. \A dd, mm : offers_of(p, dd, mm)' = offers_of(p, dd, mm)
    BY DEF offers_of
  <2>11. QED
    BY <1>2, <2>1, <2>7, <2>8, <2>9, <2>10 DEF Loop, One, timed
<1>8. CASE take_ack(p)
  <2>1. pc[p] = "acking"
    BY <1>8, TakeAckEffect
  <2>2. PICK r \in pending[p] :
          \/ /\ ends(p, error("ProtocolError"))
             /\ game'[p] = game[p] /\ banks'[p] = banks[p]
          \/ /\ game'[p] = r.game /\ banks'[p] = {e.after : e \in r.ledger}
             /\ \/ \E v \in r.verdict : ends(p, v)
                \/ /\ r.verdict = {} /\ pc'[p] = "deciding"
                   /\ choice'[p] = {} /\ slot'[p] = {} /\ pending'[p] = {}
                   /\ verdict'[p] = verdict[p]
    BY <1>8, TakeAckEffect
  <2>3. Outcome(p, r)
    BY DEF Loop
  <2>4. ASSUME game'[p] = r.game, banks'[p] = {e.after : e \in r.ledger}
        PROVE  /\ IsBox(game'[p]) /\ One(banks'[p]) /\ banks'[p] \subseteq [Color -> Int]
               /\ banks'[p] # {} => timed(p)
    <3>1. IsBox(game'[p])
      <4>1. IsBox(game[p])
        BY DEF Loop
      <4>2. \A x : IsBox(Append(game[p], x))
        BY <4>1, LongerGame
      <4>3. QED
        BY <2>3, <2>4, <4>1, <4>2 DEF Outcome, Extended
    <3>2. One(banks'[p])
      BY <2>3, <2>4 DEF Outcome, One
    <3>3. banks'[p] \subseteq [Color -> Int] /\ (banks'[p] # {} => timed(p))
      BY <2>3, <2>4 DEF Outcome
    <3>4. QED
      BY <3>1, <3>2, <3>3
  <2>5. CASE \E v : ends(p, v)
    <3>1. /\ IsBox(game'[p]) /\ One(banks'[p]) /\ banks'[p] \subseteq [Color -> Int]
          /\ banks'[p] # {} => timed(p)
      BY <2>2, <2>4 DEF Loop
    <3>2. QED
      BY <1>2, <2>5, <3>1, LoopEnds
  <2>6. CASE ~ \E v : ends(p, v)
    <3>1. /\ IsBox(game'[p]) /\ One(banks'[p]) /\ banks'[p] \subseteq [Color -> Int]
          /\ banks'[p] # {} => timed(p)
          /\ pc'[p] = "deciding" /\ choice'[p] = {} /\ slot'[p] = {} /\ pending'[p] = {}
          /\ verdict'[p] = verdict[p]
      BY <2>2, <2>4, <2>6
    <3>2. Live(p) /\ ~ Revealed(p)' /\ Live(p)'
      BY <2>1, <3>1 DEF Live, Revealed
    <3>3. QED
      BY <1>2, <3>1, <3>2 DEF Loop, One, timed
  <2>7. QED
    BY <2>5, <2>6
<1>9. CASE Stops(p)
  <2>1. PICK v : ends(p, v)
    BY <1>9, StopEffect
  <2>2. game'[p] = game[p] /\ banks'[p] = banks[p]
    BY <1>9, StopEffect
  <2>3. QED
    BY <1>2, <2>1, <2>2, LoopEnds DEF Loop
<1>10. QED
  BY <1>3, <1>4, <1>5, <1>6, <1>7, <1>8, <1>9, ActionCases

\* and so does a cut,
LEMMA LoopCut ==
  ASSUME Base, sever, NEW p \in Peers
  PROVE  (Loop(p) => Loop(p)') /\ (Sound(p) => Sound(p)')
<1>1. /\ UNCHANGED <<conf, pc, color, game, banks, offers, choice, slot, pending, verdict>>
      /\ Messages(inbox'[p]) \subseteq Messages(inbox[p])
  BY CutEffect, BaseBoxes DEF Base
<1>2. \A r : Outcome(p, r)' <=> Outcome(p, r)
  BY <1>1 DEF Outcome, timed
<1>3. \A d, m : offers_of(p, d, m)' = offers_of(p, d, m)
  BY DEF offers_of
<1>4. QED
  BY <1>1, <1>2, <1>3 DEF Loop, Sound, Revealed, Live, timed

\* from the start.
LEMMA LoopStart ==
  ASSUME Init, NEW p \in Peers
  PROVE  Loop(p) /\ Sound(p)
<1>1. /\ pc[p] = "start" /\ inbox[p] = <<>> /\ game[p] = <<>> /\ verdict[p] = {}
      /\ choice[p] = {} /\ slot[p] = {} /\ pending[p] = {}
      /\ banks[p] = {initial_banks(tc) : tc \in conf[p].clock} /\ conf \in Settings
  BY DEF Init
<1>2. conf[p].clock \subseteq TimeControl /\ One(conf[p].clock)
  BY <1>1, SettingsAssumption DEF One
<1>3. \A tc \in TimeControl : initial_banks(tc) \in [Color -> Int]
  BY DEF initial_banks, TimeControl
<1>4. /\ One(banks[p]) /\ banks[p] \subseteq [Color -> Int]
      /\ banks[p] # {} => timed(p)
  BY <1>1, <1>2, <1>3 DEF One, timed
<1>5. QED
  BY <1>1, <1>4, EmptyBox, EmptyMessages DEF Loop, Sound, One, Live, Revealed

\* What is on its way is typed, whoever sent it.
LEMMA SoundStep ==
  ASSUME DecisionsAreTimed, Base, NEW p \in Peers, NEW q, q = other(p), Acts(p),
         Loop(p), Sound(p), Sound(q)
  PROVE  Sound(p)' /\ Sound(q)'
<1>1. q \in Peers /\ q # p
  BY OtherPeer
<1> USE DEF Base
<1>2. CASE \E v : ends(p, v)
  <2>1. inbox'[p] = <<>> /\ inbox'[q] = inbox[q]
    BY <1>1, <1>2, EndEffect
  <2>2. QED
    BY <2>1, EmptyMessages DEF Sound
<1>3. CASE ~ \E v : ends(p, v)
  <2>1. \E new : /\ Deals(p, q, new)
                 /\ \A m \in new : m.type = "reveal" => m.elapsed \subseteq Nat
    <3>1. CASE Chats(p)
      <4>1. PICK m : m.type \in Chat /\ Deals(p, q, {m})
        BY <3>1, ChatEffect
      <4>2. m.type # "reveal"
        BY <4>1 DEF Chat
      <4>3. QED
        BY <4>1, <4>2
    <3>2. CASE decide(p)
      <4>1. PICK d : Proper(d) /\ Deals(p, q, {slot_message(p, d)})
        BY <3>2, DecideEffect
      <4>2. slot_message(p, d).type # "reveal"
        BY <4>1 DEF Proper, slot_message, Slots
      <4>3. QED
        BY <4>1, <4>2
    <3>3. CASE take_slot(p)
      BY <3>3, TakeSlotEffect
    <3>4. CASE reveal(p)
      <4>1. PICK d \in choice[p] : Deals(p, q, {reveal_message(p, d)})
        BY <3>4, RevealEffect
      <4>2. reveal_message(p, d).elapsed \subseteq Nat
        BY DEF reveal_message, Loop, Proper
      <4>3. QED
        BY <4>1, <4>2
    <3>5. CASE take_reveal(p)
      <4>1. PICK r : Deals(p, q, {ack_message(p, r)})
        BY <3>5, TakeRevealEffect
      <4>2. ack_message(p, r).type # "reveal"
        BY DEF ack_message
      <4>3. QED
        BY <4>1, <4>2
    <3>6. CASE take_ack(p)
      BY <1>3, <3>6, TakeAckEffect
    <3>7. CASE Stops(p)
      BY <1>3, <3>7, StopEffect
    <3>8. QED
      BY <3>1, <3>2, <3>3, <3>4, <3>5, <3>6, <3>7, ActionCases
  <2>2. PICK new : /\ Deals(p, q, new)
                   /\ \A m \in new : m.type = "reveal" => m.elapsed \subseteq Nat
    BY <2>1
  <2>3. /\ Messages(inbox'[p]) \subseteq Messages(inbox[p])
        /\ Messages(inbox'[q]) \subseteq Messages(inbox[q]) \cup new
    BY <1>1, <2>2, AfterDeal, BaseBoxes
  <2>4. QED
    BY <2>2, <2>3 DEF Sound
<1>4. QED
  BY <1>2, <1>3

-----------------------------------------------------------------------------
(***************************************************************************)
(* How the two loops fit.                                                  *)
(***************************************************************************)
\* The two have seen the same phases, or p is one phase behind: the other has
\* its ack and can do no more than decide before p has the other's.
Even(p, q) == game[p] = game[q]
Trails(p, q) ==
  /\ Extended(game[p], game[q])
  /\ Live(p) => pc[p] = "acking" /\ \A r \in pending[p] : r.game = game[q]
  /\ pc[q] \in {"deciding", "over"} /\ slot[q] = {} /\ ~ Holds(inbox[q], Slots)
  /\ Bothlive(p, q) => offers[p] = offers[q] /\ \A r \in pending[p] : r.verdict = {}
Abreast(p, q) == Even(p, q) \/ Trails(p, q) \/ Trails(q, p)

\* No slot of the next phase while both are in this one.
Orderly(p, q) == slot[p] # {} /\ Holds(inbox[p], Slots) => ~ Even(p, q)

\* Slots and reveals, on their way to p or taken, say what q has decided,
SlotsFit(p, q) ==
  \A m \in Messages(inbox[p]) : m.type \in Slots => \E d \in choice[q] : m = slot_message(q, d)
HeldFits(p, q) ==
  Even(p, q) => \A m \in slot[p] : \E d \in choice[q] : m = slot_message(q, d)
RevealsFit(p, q) ==
  /\ OneReveal(inbox[p])
  /\ pc[p] = "acking" => ~ Holds(inbox[p], {"reveal"})
  /\ \A m \in Messages(inbox[p]) : m.type = "reveal" =>
       Even(p, q) /\ Revealed(q) /\ \E d \in choice[q] : m = reveal_message(q, d)
\* acks what it has computed,
AcksFit(p, q) ==
  \A m \in Messages(inbox[p]) : m.type = "ack" =>
    \/ Even(p, q) /\ pc[q] = "acking" /\ \E r \in pending[q] : m = ack_message(q, r)
    \/ Trails(p, q)
\* what p has computed comes from both decisions,
ResultFits(p, q) ==
  pc[p] = "acking" /\ Even(p, q) =>
    /\ Revealed(q)
    /\ \A d \in choice[p], e \in choice[q] :
         /\ adjudicate_legality(p, d, e) = {}
         /\ timed(p) => d.elapsed # {} /\ e.elapsed # {}
         /\ \A r \in pending[p] : r = computed(p, d, e)
\* and between two phases the two see the same draw offers.
OffersFit(p, q) ==
  Even(p, q) /\ ~ Revealed(p) /\ ~ Revealed(q) => offers[p] = offers[q]
Fits(p, q) ==
  /\ SlotsFit(p, q) /\ HeldFits(p, q) /\ RevealsFit(p, q)
  /\ AcksFit(p, q) /\ ResultFits(p, q) /\ OffersFit(p, q)

\* Once q was told a result, p can be told no other: its slots, its reveal or
\* what it has computed come to the same.
Told(q, p) ==
  \A v \in verdict[q] \ Errors : Live(p) =>
    \/ /\ pc[p] = "deciding" /\ Even(p, q) /\ choice[p] # {}
       /\ \A d \in choice[p] : \A m \in slot[p] \cup Messages(inbox[p]) : m.type \in Slots =>
            slots_verdict(p, d, m) # {} /\ slots_verdict(p, d, m) \subseteq {v} \cup Errors
    \/ /\ pc[p] = "revealing" /\ Even(p, q)
       /\ \A d \in choice[p], m \in Messages(inbox[p]) :
            m.type = "reveal" => adjudicate_legality(p, d, m) = {v}
    \/ /\ pc[p] = "acking"
       /\ \A r \in pending[p] : r.game = game[q] /\ r.verdict = {v}

Meet(p, q) ==
  /\ Abreast(p, q)
  /\ Orderly(p, q)
  /\ Bothlive(p, q) => Fits(p, q)
  /\ Told(q, p)

\* Neither game is both the same and one phase longer.
LEMMA Lengths ==
  ASSUME NEW p, NEW q, IsBox(game[p]), IsBox(game[q])
  PROVE  /\ Trails(p, q) => ~ Even(p, q) /\ ~ Trails(q, p)
         /\ \A g : IsBox(g) => ~ Extended(g, g)
<1>1. ASSUME NEW g, NEW h, IsBox(g), Extended(g, h) PROVE Len(h) = Len(g) + 1 /\ Len(g) \in Nat
  BY <1>1, LongerGame DEF Extended
<1>2. QED
  BY <1>1 DEF Trails, Even

\* What a peer makes of a message depends on its own game, clock and colour.
LEMMA Readings ==
  ASSUME NEW p, game'[p] = game[p], conf' = conf
  PROVE  /\ \A d : slot_message(p, d)' = slot_message(p, d)
         /\ \A d : reveal_message(p, d)' = reveal_message(p, d)
         /\ \A r : ack_message(p, r)' = ack_message(p, r)
         /\ color'[p] = color[p] =>
              \A d, m : adjudicate_legality(p, d, m)' = adjudicate_legality(p, d, m)
         /\ color'[p] = color[p] /\ offers'[p] = offers[p] =>
              \A d, m : slots_verdict(p, d, m)' = slots_verdict(p, d, m)
         /\ color'[p] = color[p] /\ banks'[p] = banks[p] =>
              \A d, m : computed(p, d, m)' = computed(p, d, m)
<1>1. phase(p)' = phase(p)
  BY DEF phase
<1>2. /\ \A d : slot_message(p, d)' = slot_message(p, d)
      /\ \A d : reveal_message(p, d)' = reveal_message(p, d)
      /\ \A r : ack_message(p, r)' = ack_message(p, r)
  BY <1>1 DEF slot_message, reveal_message, ack_message, commitment, state_hash
<1>3. ASSUME color'[p] = color[p], NEW d, NEW m
      PROVE  adjudicate_legality(p, d, m)' = adjudicate_legality(p, d, m)
  BY <1>3 DEF adjudicate_legality, by_color, result, wins
<1>4. ASSUME color'[p] = color[p], offers'[p] = offers[p], NEW d, NEW m
      PROVE  slots_verdict(p, d, m)' = slots_verdict(p, d, m)
  BY <1>1, <1>4 DEF slots_verdict, resolve_slots, result, wins, error
<1>5. ASSUME color'[p] = color[p], banks'[p] = banks[p], NEW d, NEW m
      PROVE  computed(p, d, m)' = computed(p, d, m)
  <2>1. times(p, d, m)' = times(p, d, m)
    BY <1>5 DEF times, by_color
  <2>2. fallen(p, d, m)' = fallen(p, d, m)
    BY <1>5, <2>1 DEF fallen
  <2>3. ledger(p, d, m)' = ledger(p, d, m)
    BY <1>1, <1>5, <2>1 DEF ledger, control
  <2>4. by_color(p, d.program, m.program)' = by_color(p, d.program, m.program)
    BY <1>5 DEF by_color
  <2>5. \A n : limit(p, n)' = limit(p, n)
    BY DEF limit
  <2>6. QED
    BY <2>2, <2>3, <2>4, <2>5 DEF computed
<1>6. QED
  BY <1>2, <1>3, <1>4, <1>5

\* A peer stays behind while it goes on waiting and the other receives no slot.
LEMMA TrailsKept ==
  ASSUME NEW p, NEW q, Trails(p, q), game'[p] = game[p], game'[q] = game[q],
         Live(p)' => Live(p) /\ pc'[p] = pc[p] /\ pending'[p] = pending[p]
                       /\ offers'[p] = offers[p],
         Live(q)' => Live(q) /\ offers'[q] = offers[q],
         pc'[q] = pc[q] \/ pc'[q] = "over",
         slot'[q] = slot[q] \/ slot'[q] = {},
         Holds(inbox'[q], Slots) => Holds(inbox[q], Slots)
  PROVE  Trails(p, q)'
BY DEF Trails, Bothlive

\* Everything known of a pair.
Pair(p, q) == Loop(p) /\ Loop(q) /\ Meet(p, q) /\ Meet(q, p)

\* A peer that takes or has taken the other's slot or reveals is in the same phase.
LEMMA SamePhase ==
  ASSUME NEW p, NEW q, Pair(p, q), Live(p),
         \/ pc[p] = "revealing"
         \/ pc[p] = "deciding" /\ slot[p] # {}
         \/ pc[p] = "deciding" /\ Holds(inbox[p], Slots)
  PROVE  Even(p, q) /\ Even(q, p) /\ ~ Trails(p, q) /\ ~ Trails(q, p)
<1>1. ~ Trails(p, q)
  BY DEF Trails
<1>2. ~ Trails(q, p)
  BY DEF Trails
<1>3. Even(p, q)
  BY <1>1, <1>2 DEF Pair, Meet, Abreast
<1>4. QED
  BY <1>1, <1>2, <1>3 DEF Even

\* Chat and cuts: of what matters a box holds no more than before, and no loop
\* moves but from one part of the opening to the next.
Quiet(p) ==
  /\ Keeping(p) /\ conf' = conf
  /\ pc'[p] = pc[p] \/ (pc[p] \in Opening /\ pc'[p] \in {"greeting", "measuring", "deciding"})
  /\ pc[p] \notin Opening => color'[p] = color[p]
  /\ \A m \in Messages(inbox'[p]) : m.type \notin Chat => m \in Messages(inbox[p])
  /\ \A k \in {Slots, {"reveal"}} : Holds(inbox'[p], k) => Holds(inbox[p], k)
  /\ OneReveal(inbox[p]) => OneReveal(inbox'[p])

\* Steps that leave phase, messages and stage as they were keep the fit.
LEMMA QuietMeet ==
  ASSUME NEW p, NEW q, Pair(p, q), Quiet(p), Quiet(q)
  PROVE  Meet(p, q)'
<1>1. /\ game'[p] = game[p] /\ game'[q] = game[q] /\ conf' = conf
      /\ choice'[p] = choice[p] /\ choice'[q] = choice[q]
      /\ slot'[p] = slot[p] /\ slot'[q] = slot[q]
      /\ pending'[p] = pending[p] /\ pending'[q] = pending[q]
      /\ offers'[p] = offers[p] /\ offers'[q] = offers[q]
      /\ verdict'[p] = verdict[p] /\ verdict'[q] = verdict[q]
      /\ banks'[p] = banks[p] /\ banks'[q] = banks[q]
  BY DEF Quiet, Keeping
<1>2. /\ Live(p)' <=> Live(p)
      /\ Live(q)' <=> Live(q)
      /\ \A k \in {"revealing", "acking"} : (pc'[p] = k <=> pc[p] = k) /\ (pc'[q] = k <=> pc[q] = k)
      /\ pc[p] \notin Opening => pc'[p] = pc[p]
      /\ pc[q] \notin Opening => pc'[q] = pc[q]
  BY DEF Quiet, Live, Opening
<1>3. (Revealed(p)' <=> Revealed(p)) /\ (Revealed(q)' <=> Revealed(q))
  BY <1>2 DEF Revealed
<1>4. /\ \A k \in {Slots, {"reveal"}} : Holds(inbox'[p], k) => Holds(inbox[p], k)
      /\ \A k \in {Slots, {"reveal"}} : Holds(inbox'[q], k) => Holds(inbox[q], k)
  BY DEF Quiet
<1>5. \A m \in Messages(inbox'[p]) :
        m.type \in Slots \/ m.type \in {"reveal", "ack"} => m \in Messages(inbox[p])
  BY DEF Quiet, Chat, Slots
<1>6. Even(p, q)' <=> Even(p, q)
  BY <1>1 DEF Even
<1>7. Trails(p, q) => Trails(p, q)'
  <2>1. SUFFICES ASSUME Trails(p, q) PROVE Trails(p, q)'
    OBVIOUS
  <2>2. Live(p) => pc[p] \notin Opening
    BY <2>1 DEF Trails, Opening
  <2>3. pc[q] \notin Opening
    BY <2>1 DEF Trails, Opening
  <2>4. QED
    BY <1>1, <1>2, <1>4, <2>1, <2>2, <2>3, TrailsKept
<1>8. Trails(q, p) => Trails(q, p)'
  <2>1. SUFFICES ASSUME Trails(q, p) PROVE Trails(q, p)'
    OBVIOUS
  <2>2. Live(q) => pc[q] \notin Opening
    BY <2>1 DEF Trails, Opening
  <2>3. pc[p] \notin Opening
    BY <2>1 DEF Trails, Opening
  <2>4. QED
    BY <1>1, <1>2, <1>4, <2>1, <2>2, <2>3, TrailsKept
<1>9. Abreast(p, q)'
  BY <1>6, <1>7, <1>8 DEF Pair, Meet, Abreast
<1>10. Orderly(p, q)'
  BY <1>1, <1>4, <1>6 DEF Pair, Meet, Orderly
<1>11. ASSUME Bothlive(p, q)' PROVE Fits(p, q)'
  <2>1. Fits(p, q)
    BY <1>2, <1>11 DEF Pair, Meet, Bothlive
  <2>2. SlotsFit(p, q)' /\ HeldFits(p, q)'
    <3>1. \A d : slot_message(q, d)' = slot_message(q, d)
      BY <1>1, Readings
    <3>2. QED
      BY <1>1, <1>5, <1>6, <2>1, <3>1 DEF Fits, SlotsFit, HeldFits
  <2>3. RevealsFit(p, q)'
    <3>1. \A d : reveal_message(q, d)' = reveal_message(q, d)
      BY <1>1, Readings
    <3>2. OneReveal(inbox'[p])
      BY <2>1 DEF Fits, RevealsFit, Quiet
    <3>3. pc'[p] = "acking" => ~ Holds(inbox'[p], {"reveal"})
      BY <1>2, <1>4, <2>1 DEF Fits, RevealsFit
    <3>4. QED
      BY <1>1, <1>3, <1>5, <1>6, <2>1, <3>1, <3>2, <3>3 DEF Fits, RevealsFit
  <2>4. AcksFit(p, q)'
    <3>1. \A r : ack_message(q, r)' = ack_message(q, r)
      BY <1>1, Readings
    <3>2. QED
      BY <1>1, <1>2, <1>5, <1>6, <1>7, <2>1, <3>1 DEF Fits, AcksFit
  <2>5. ResultFits(p, q)'
    <3>1. SUFFICES ASSUME pc'[p] = "acking", Even(p, q)' PROVE ResultFits(p, q)'
      BY DEF ResultFits
    <3>2. pc[p] = "acking" /\ Even(p, q) /\ color'[p] = color[p]
      BY <1>2, <1>6, <3>1 DEF Quiet, Opening
    <3>3. \A d, m : /\ adjudicate_legality(p, d, m)' = adjudicate_legality(p, d, m)
                    /\ computed(p, d, m)' = computed(p, d, m)
      BY <1>1, <3>2, Readings
    <3>4. timed(p)' <=> timed(p)
      BY <1>1 DEF timed
    <3>5. QED
      BY <1>1, <1>3, <2>1, <3>2, <3>3, <3>4 DEF Fits, ResultFits
  <2>6. OffersFit(p, q)'
    BY <1>1, <1>3, <1>6, <2>1 DEF Fits, OffersFit
  <2>7. QED
    BY <2>2, <2>3, <2>4, <2>5, <2>6 DEF Fits
<1>12. Told(q, p)'
  <2>1. SUFFICES ASSUME NEW v \in verdict[q] \ Errors, Live(p), Told(q, p) PROVE Told(q, p)'
    BY <1>1, <1>2 DEF Told, Pair, Meet, Errors
  <2>2. pc[p] \notin Opening
    BY <2>1 DEF Told, Opening
  <2>3. pc'[p] = pc[p] /\ color'[p] = color[p]
    BY <1>2, <2>2 DEF Quiet
  <2>4. \A d, m : /\ slots_verdict(p, d, m)' = slots_verdict(p, d, m)
                  /\ adjudicate_legality(p, d, m)' = adjudicate_legality(p, d, m)
    BY <1>1, <2>3, Readings
  <2>5. Errors' = Errors
    BY DEF Errors
  <2>6. QED
    BY <1>1, <1>2, <1>5, <1>6, <2>1, <2>3, <2>4, <2>5 DEF Told
<1>13. QED
  BY <1>9, <1>10, <1>11, <1>12 DEF Meet

-----------------------------------------------------------------------------
(***************************************************************************)
(* Two peers of opposite colours read the same phase alike.                *)
(***************************************************************************)
Facing(p, q) ==
  /\ color[p] \in Color /\ color[q] = opponent(color[p]) /\ color[p] = opponent(color[q])
  /\ conf[p].terms.max_phases = conf[q].terms.max_phases

\* Both put the same program at the same colour.
LEMMA ByColor ==
  ASSUME NEW p, NEW q, Facing(p, q)
  PROVE  \A x, y : by_color(p, x, y) = by_color(q, y, x)
<1>1. /\ color[q] \in Color /\ color[p] # color[q]
      /\ \A c \in Color : c = color[p] \/ c = color[q]
  BY OpponentDiffers DEF Facing
<1>2. QED
  BY <1>1 DEF by_color

\* The same programs are rejected,
LEMMA AdjudgedAlike ==
  ASSUME NEW p, NEW q, Facing(p, q), Even(p, q), NEW d, NEW e
  PROVE  adjudicate_legality(p, d, e) = adjudicate_legality(q, e, d)
<1>1. by_color(p, d.program, e.program) = by_color(q, e.program, d.program)
  BY ByColor
<1>2. QED
  BY <1>1 DEF adjudicate_legality, Even

\* a decision counts as what is revealed of it,
LEMMA RevealedAlike ==
  ASSUME NEW p, NEW q, NEW d, NEW e
  PROVE  /\ adjudicate_legality(p, d, reveal_message(q, e)) = adjudicate_legality(p, d, e)
         /\ computed(p, d, reveal_message(q, e)) = computed(p, d, e)
<1> DEFINE m == reveal_message(q, e)
<1>1. m.program = e.program /\ m.elapsed = e.elapsed
  BY DEF reveal_message
<1> HIDE DEF m
<1>2. adjudicate_legality(p, d, m) = adjudicate_legality(p, d, e)
  BY <1>1 DEF adjudicate_legality
<1>3. times(p, d, m) = times(p, d, e)
  BY <1>1 DEF times
<1>4. fallen(p, d, m) = fallen(p, d, e) /\ ledger(p, d, m) = ledger(p, d, e)
  BY <1>3 DEF fallen, ledger
<1>5. computed(p, d, m) = computed(p, d, e)
  BY <1>1, <1>4 DEF computed
<1>6. QED
  BY <1>2, <1>5 DEF m

\* the same draw offers stand,
LEMMA OfferedAlike ==
  ASSUME NEW p \in Peers, NEW q, q = other(p), NEW d, NEW e,
         d.kind = "commit", e.kind = "commit"
  PROVE  offers_of(p, d, slot_message(q, e)) = offers_of(q, e, slot_message(p, d))
<1>1. slot_message(q, e).offer = e.offer /\ slot_message(p, d).offer = d.offer
  BY DEF slot_message
<1>2. q \in Peers /\ q # p /\ \A x \in Peers : x = p \/ x = q
  BY OtherPeer
<1>3. QED
  BY <1>1, <1>2 DEF offers_of

\* and slots that end the match for one end it for the other, with the same
\* result or, when the two disagree about the offers, with an error.
LEMMA ClosedAlike ==
  ASSUME NEW p, NEW q, Facing(p, q), NEW d, NEW e, Proper(d), Proper(e),
         NEW v \in slots_verdict(p, d, slot_message(q, e)), v \notin Errors
  PROVE  /\ slots_verdict(q, e, slot_message(p, d)) # {}
         /\ slots_verdict(q, e, slot_message(p, d)) \subseteq {v} \cup Errors
<1> DEFINE m == slot_message(q, e)
           n == slot_message(p, d)
<1>1. m.type = e.kind /\ n.type = d.kind /\ d.kind \in Slots /\ e.kind \in Slots
  BY DEF slot_message, Proper
<1> HIDE DEF m, n
<1> DEFINE A == resolve_slots(d.kind, e.kind, color[p], p \in offers[p], other(p) \in offers[p])
           B == resolve_slots(e.kind, d.kind, color[q], q \in offers[q], other(q) \in offers[q])
<1>2. error("ProtocolError") \in Errors
  BY ErrorKinds
<1>3. v \in A
  BY <1>1, <1>2 DEF slots_verdict, m
<1>4. color[q] = opponent(color[p]) /\ color[p] = opponent(color[q])
  BY DEF Facing
<1>5. B # {} /\ B \subseteq {v} \cup Errors
  <2>1. CASE "abort" \in {d.kind, e.kind}
    BY <1>3, <2>1 DEF resolve_slots
  <2>2. CASE "abort" \notin {d.kind, e.kind} /\ "resign" \in {d.kind, e.kind}
    <3>1. CASE d.kind = e.kind
      BY <1>3, <2>2, <3>1 DEF resolve_slots
    <3>2. CASE d.kind # e.kind /\ d.kind = "resign"
      <4>1. A = {result(wins(opponent(color[p])), "resignation")}
        BY <2>2, <3>2 DEF resolve_slots
      <4>2. B = {result(wins(color[q]), "resignation")}
        BY <2>2, <3>2 DEF resolve_slots
      <4>3. QED
        BY <1>3, <1>4, <4>1, <4>2
    <3>3. CASE d.kind # e.kind /\ e.kind = "resign"
      <4>1. A = {result(wins(color[p]), "resignation")}
        BY <2>2, <3>3 DEF resolve_slots
      <4>2. B = {result(wins(opponent(color[q])), "resignation")}
        BY <2>2, <3>3 DEF resolve_slots
      <4>3. QED
        BY <1>3, <1>4, <4>1, <4>2
    <3>4. QED
      BY <2>2, <3>1, <3>2, <3>3
  <2>3. CASE /\ "abort" \notin {d.kind, e.kind} /\ "resign" \notin {d.kind, e.kind}
             /\ "accept_draw" \in {d.kind, e.kind}
    BY <1>2, <1>3, <2>3 DEF resolve_slots
  <2>4. CASE d.kind = "commit" /\ e.kind = "commit"
    BY <1>3, <2>4 DEF resolve_slots
  <2>5. QED
    BY <1>1, <2>1, <2>2, <2>3, <2>4 DEF Slots
<1>6. slots_verdict(q, e, n) = B
  BY <1>1, <1>5 DEF slots_verdict
<1>7. QED
  BY <1>5, <1>6 DEF n

\* A flag that fell shows in the bank that is left.
LEMMA FallenShows ==
  ASSUME Base, NEW p \in Peers, Loop(p), NEW d, NEW e, times(p, d, e) \in [Color -> Nat]
  PROVE  \A c \in Color : c \in fallen(p, d, e) <=> \E x \in ledger(p, d, e) : x.after[c] <= 0
<1>1. SUFFICES ASSUME NEW c \in Color
               PROVE  c \in fallen(p, d, e) <=> \E x \in ledger(p, d, e) : x.after[c] <= 0
  OBVIOUS
<1> DEFINE T == times(p, d, e)
<1>2. \A b \in banks[p] : c \in flagged(b, T) <=> banks_after(b, control(p), T)[c] <= 0
  <2>1. SUFFICES ASSUME NEW b \in banks[p]
                 PROVE  c \in flagged(b, T) <=> banks_after(b, control(p), T)[c] <= 0
    OBVIOUS
  <2>2. timed(p) /\ b \in [Color -> Int]
    BY DEF Loop
  <2>3. control(p) \in TimeControl
    BY <2>2, SettingsAssumption DEF timed, control, Base
  <2>4. QED
    BY <2>2, <2>3, FallenIffEmpty
<1>3. c \in fallen(p, d, e) <=> \E b \in banks[p] : c \in flagged(b, T)
  BY DEF fallen
<1> DEFINE row(b) == clock_entry(b, control(p), T, phase(p))
<1>4. \A b \in banks[p] : row(b).after = banks_after(b, control(p), T)
  BY DEF clock_entry
<1>5. ledger(p, d, e) = {row(b) : b \in banks[p]}
  BY DEF ledger
<1> HIDE DEF row, T
<1>6. QED
  BY <1>2, <1>3, <1>4, <1>5

\* Without a clock no flag falls.
LEMMA NoClock ==
  ASSUME NEW p, Loop(p), ~ timed(p), NEW d, NEW e
  PROVE  fallen(p, d, e) = {} /\ ledger(p, d, e) = {}
BY DEF Loop, fallen, ledger

\* Peers whose acks agree computed the same: the same phases are played, and the
\* ledger tells which flags fell.
LEMMA AckedAlike ==
  ASSUME Base, NEW p \in Peers, NEW q \in Peers, Facing(p, q), Even(p, q), Loop(p), Loop(q),
         NEW d, NEW e, d.elapsed \subseteq Nat, e.elapsed \subseteq Nat,
         timed(p) \/ timed(q) => d.elapsed # {} /\ e.elapsed # {},
         ack_message(p, computed(p, d, e)) = ack_message(q, computed(q, e, d))
  PROVE  computed(p, d, e) = computed(q, e, d)
<1> DEFINE r == computed(p, d, e)
           s == computed(q, e, d)
           g == game[p]
           P == by_color(p, d.program, e.program)
           x(L) == Append(g, [programs |-> P, clock |-> L])
<1>1. game[q] = g /\ by_color(q, e.program, d.program) = P
  BY ByColor DEF Even
<1>2. r.ledger = ledger(p, d, e) /\ s.ledger = ledger(q, e, d)
  BY DEF computed
<1>3. r.ledger = s.ledger /\ state_hash(r.game) = state_hash(s.game)
  <2>1. \A u, w : ack_message(p, u) = ack_message(q, w)
                   => u.ledger = w.ledger /\ state_hash(u.game) = state_hash(w.game)
    BY DEF ack_message
  <2>2. QED
    BY <2>1
<1> DEFINE L == ledger(p, d, e)
<1>4. ledger(q, e, d) = L
  BY <1>2, <1>3
<1>5. /\ fallen(p, d, e) # {} => r.game = g
      /\ fallen(p, d, e) = {} => r.game = x(L)
      /\ fallen(q, e, d) # {} => s.game = g
      /\ fallen(q, e, d) = {} => s.game = x(L)
  BY <1>1, <1>4 DEF computed
<1>6. fallen(p, d, e) = {} <=> fallen(q, e, d) = {}
  <2>1. IsBox(g) /\ IsBox(x(L)) /\ Len(x(L)) = Len(g) + 1 /\ Len(g) \in Nat
    BY LongerGame DEF Loop
  <2>2. DOMAIN g = 1..Len(g) /\ DOMAIN x(L) = 1..Len(x(L))
    BY <2>1 DEF IsBox
  <2>3. DOMAIN g # DOMAIN x(L)
    BY <2>1, <2>2
  <2>4. DOMAIN state_hash(r.game) = DOMAIN r.game /\ DOMAIN state_hash(s.game) = DOMAIN s.game
    BY DEF state_hash
  <2>5. DOMAIN r.game = DOMAIN s.game
    BY <1>3, <2>4
  <2> HIDE DEF r, s, g, x, L
  <2>6. QED
    BY <1>5, <2>3, <2>5
<1>7. fallen(p, d, e) = fallen(q, e, d)
  <2>1. CASE timed(p) \/ timed(q)
    <3>1. times(p, d, e) \in [Color -> Nat] /\ times(q, e, d) \in [Color -> Nat]
      BY <2>1, TimesKnown
    <3>2. \A c \in Color : c \in fallen(p, d, e) <=> \E y \in L : y.after[c] <= 0
      BY <3>1, FallenShows
    <3>3. \A c \in Color : c \in fallen(q, e, d) <=> \E y \in L : y.after[c] <= 0
      BY <1>4, <3>1, FallenShows
    <3>4. fallen(p, d, e) \subseteq Color /\ fallen(q, e, d) \subseteq Color
      BY DEF fallen, flagged
    <3> HIDE DEF L
    <3>5. QED
      BY <3>2, <3>3, <3>4
  <2>2. CASE ~ (timed(p) \/ timed(q))
    BY <2>2, NoClock
  <2>3. QED
    BY <2>1, <2>2
<1>8. \A n : limit(p, n) = limit(q, n)
  BY DEF limit, Facing
<1>9. QED
  BY <1>1, <1>4, <1>7, <1>8 DEF computed

-----------------------------------------------------------------------------
(***************************************************************************)
(* Every step of p keeps the two loops in fit with each other.             *)
(***************************************************************************)
\* What a peer that does not move reads and has is what it was.
LEMMA Unmoved ==
  ASSUME NEW q, Rests(q)
  PROVE  /\ \A d : slot_message(q, d)' = slot_message(q, d)
         /\ \A d : reveal_message(q, d)' = reveal_message(q, d)
         /\ \A r : ack_message(q, r)' = ack_message(q, r)
         /\ \A d, m : adjudicate_legality(q, d, m)' = adjudicate_legality(q, d, m)
         /\ \A d, m : slots_verdict(q, d, m)' = slots_verdict(q, d, m)
         /\ \A d, m : computed(q, d, m)' = computed(q, d, m)
         /\ (timed(q)' <=> timed(q)) /\ (Revealed(q)' <=> Revealed(q)) /\ (Live(q)' <=> Live(q))
<1>1. /\ game'[q] = game[q] /\ conf' = conf /\ color'[q] = color[q] /\ banks'[q] = banks[q]
      /\ offers'[q] = offers[q] /\ pc'[q] = pc[q]
  BY DEF Rests
<1>2. QED
  BY <1>1, Readings DEF timed, Revealed, Live

\* The boxes after p sent one message.
LEMMA AfterSend ==
  ASSUME Base, NEW p \in Peers, NEW q, q = other(p), NEW m, Deals(p, q, {m})
  PROVE  /\ Messages(inbox'[p]) \subseteq Messages(inbox[p])
         /\ Messages(inbox'[q]) \subseteq Messages(inbox[q]) \cup {m}
         /\ OneReveal(inbox[p]) => OneReveal(inbox'[p])
         /\ OneReveal(inbox[q]) /\ (m.type = "reveal" => ~ Holds(inbox[q], {"reveal"}))
              => OneReveal(inbox'[q])
         /\ \A k : Holds(inbox'[p], k) => Holds(inbox[p], k)
         /\ \A k : Holds(inbox'[q], k) => Holds(inbox[q], k) \/ m.type \in k
<1>1. q \in Peers /\ IsBox(inbox[p]) /\ IsBox(inbox[q])
  BY OtherPeer, BaseBoxes
<1>2. PICK new : new = {m}
  OBVIOUS
<1>3. Deals(p, q, new)
  BY <1>2
<1>4. /\ Messages(inbox'[p]) \subseteq Messages(inbox[p])
      /\ Messages(inbox'[q]) \subseteq Messages(inbox[q]) \cup new
      /\ OneReveal(inbox[p]) => OneReveal(inbox'[p])
      /\ OneReveal(inbox[q])
           /\ ((\E x \in new : x.type = "reveal") => ~ Holds(inbox[q], {"reveal"}))
           => OneReveal(inbox'[q])
      /\ \A k : Holds(inbox'[p], k) => Holds(inbox[p], k)
      /\ \A k : Holds(inbox'[q], k) => Holds(inbox[q], k) \/ \E x \in new : x.type \in k
  BY <1>1, <1>3, AfterDeal
<1>5. QED
  BY <1>2, <1>4

\* Keepalive and greetings.
LEMMA ChatMeet ==
  ASSUME Base, NEW p \in Peers, NEW q, q = other(p), Pair(p, q), Chats(p)
  PROVE  Meet(p, q)' /\ Meet(q, p)'
<1>1. q \in Peers /\ q # p
  BY OtherPeer
<1>2. Rests(q)
  BY <1>1, Local DEF Base, Acts, Works, Chats
<1>3. PICK m : m.type \in Chat /\ Deals(p, q, {m})
  BY ChatEffect DEF Base
<1>4. /\ Messages(inbox'[p]) \subseteq Messages(inbox[p])
      /\ Messages(inbox'[q]) \subseteq Messages(inbox[q]) \cup {m}
      /\ OneReveal(inbox[p]) => OneReveal(inbox'[p])
      /\ OneReveal(inbox[q]) /\ (m.type = "reveal" => ~ Holds(inbox[q], {"reveal"}))
           => OneReveal(inbox'[q])
      /\ \A k : Holds(inbox'[p], k) => Holds(inbox[p], k)
      /\ \A k : Holds(inbox'[q], k) => Holds(inbox[q], k) \/ m.type \in k
  BY <1>3, AfterSend
<1>5. m.type # "reveal" /\ m.type \notin Slots
  BY <1>3 DEF Chat, Slots
<1>6. Quiet(p)
  <2>1. /\ Keeping(p)
        /\ pc'[p] = pc[p] \/ (pc[p] \in Opening /\ pc'[p] \in {"greeting", "measuring", "deciding"})
        /\ take_handshake(p) \/ color'[p] = color[p]
    BY ChatEffect DEF Base
  <2>2. take_handshake(p) => pc[p] \in Opening
    BY DEF take_handshake, Opening
  <2>3. QED
    BY <1>2, <1>4, <2>1, <2>2 DEF Quiet, Rests
<1>7. Quiet(q)
  <2>1. \A k \in {Slots, {"reveal"}} : Holds(inbox'[q], k) => Holds(inbox[q], k)
    BY <1>4, <1>5
  <2>2. QED
    BY <1>2, <1>3, <1>4, <1>5, <2>1 DEF Quiet, Rests, Keeping
<1>8. QED
  BY <1>6, <1>7, QuietMeet DEF Pair

\* A lost connection.
LEMMA CutMeet ==
  ASSUME Base, NEW p \in Peers, NEW q, q = other(p), Pair(p, q), sever
  PROVE  Meet(p, q)'
<1>1. q \in Peers
  BY OtherPeer
<1>2. ASSUME NEW r \in Peers PROVE Quiet(r)
  <2>1. /\ UNCHANGED <<conf, pc, color, game, banks, offers, choice, slot, pending, verdict>>
        /\ Messages(inbox'[r]) \subseteq Messages(inbox[r])
        /\ OneReveal(inbox[r]) => OneReveal(inbox'[r])
        /\ \A k : Holds(inbox'[r], k) => Holds(inbox[r], k)
    BY CutEffect, BaseBoxes DEF Base
  <2>2. QED
    BY <2>1 DEF Quiet, Keeping
<1>3. QED
  BY <1>1, <1>2, QuietMeet

\* A decision: the other has seen no slot of this phase yet.
LEMMA DecideMeet ==
  ASSUME DecisionsAreTimed, Base, NEW p \in Peers, NEW q, q = other(p), Pair(p, q), decide(p)
  PROVE  Meet(p, q)' /\ Meet(q, p)'
<1>1. q \in Peers /\ q # p
  BY OtherPeer
<1>2. Rests(q)
  BY <1>1, Local DEF Base, Acts
<1>3. /\ pc[p] = "deciding" /\ pc'[p] = "deciding" /\ choice[p] = {}
      /\ game'[p] = game[p] /\ banks'[p] = banks[p] /\ offers'[p] = offers[p]
      /\ slot'[p] = slot[p] /\ pending'[p] = pending[p] /\ verdict'[p] = verdict[p]
      /\ color'[p] = color[p]
  BY DecideEffect DEF Base
<1>4. PICK d : Proper(d) /\ choice'[p] = {d} /\ Deals(p, q, {slot_message(p, d)})
  BY DecideEffect DEF Base
<1>5. PICK s : s = slot_message(p, d)
  OBVIOUS
<1>6. slot_message(p, d)' = s
  BY <1>2, <1>3, <1>5, Readings DEF Rests
<1>7. s.type \in Slots /\ s.type # "reveal" /\ s.type # "ack"
  BY <1>4, <1>5 DEF slot_message, Proper, Slots
<1>8. /\ Messages(inbox'[p]) \subseteq Messages(inbox[p])
      /\ Messages(inbox'[q]) \subseteq Messages(inbox[q]) \cup {s}
      /\ OneReveal(inbox[p]) => OneReveal(inbox'[p])
      /\ OneReveal(inbox[q]) => OneReveal(inbox'[q])
      /\ \A k : Holds(inbox'[p], k) => Holds(inbox[p], k)
      /\ \A k : Holds(inbox'[q], k) => Holds(inbox[q], k) \/ s.type \in k
  <2>1. Deals(p, q, {s})
    BY <1>4, <1>5
  <2>2. QED
    BY <1>7, <2>1, AfterSend
<1>9. /\ game'[q] = game[q] /\ pc'[q] = pc[q] /\ choice'[q] = choice[q] /\ slot'[q] = slot[q]
      /\ pending'[q] = pending[q] /\ offers'[q] = offers[q] /\ verdict'[q] = verdict[q]
      /\ conf' = conf
  BY <1>2 DEF Rests
<1>10. Live(p) /\ Live(p)' /\ (Live(q)' <=> Live(q)) /\ ~ Revealed(p) /\ ~ Revealed(p)'
       /\ (Revealed(q)' <=> Revealed(q))
  BY <1>3, <1>9 DEF Live, Revealed
<1>11. /\ Even(p, q)' <=> Even(p, q)
       /\ Even(q, p)' <=> Even(q, p)
  BY <1>3, <1>9 DEF Even
<1>12. ~ Trails(p, q)
  BY <1>3, <1>10 DEF Trails
<1>13. Trails(q, p) => Trails(q, p)'
  BY <1>3, <1>8, <1>9, <1>10, TrailsKept
<1>14. Abreast(p, q)' /\ Abreast(q, p)'
  BY <1>11, <1>12, <1>13 DEF Pair, Meet, Abreast
<1>15. Live(q) /\ Even(q, p) => slot[q] = {}
  BY <1>3, <1>10 DEF Pair, Meet, Fits, HeldFits, Bothlive
<1>16. Orderly(p, q)'
  BY <1>3, <1>8, <1>11 DEF Pair, Meet, Orderly
<1>17. Orderly(q, p)'
  <2>1. slot[q] # {} => Live(q)
    BY <1>1 DEF Base, SInv, Boxes, Live
  <2>2. QED
    BY <1>9, <1>11, <1>15, <2>1 DEF Orderly
<1>18. ASSUME Live(q) PROVE Fits(p, q)' /\ Fits(q, p)'
  <2>1. Fits(p, q) /\ Fits(q, p)
    BY <1>10, <1>18 DEF Pair, Meet, Bothlive
  <2>2. /\ \A x : slot_message(q, x)' = slot_message(q, x)
        /\ \A x : reveal_message(q, x)' = reveal_message(q, x)
        /\ \A x : ack_message(q, x)' = ack_message(q, x)
    BY <1>2, Unmoved
  <2>3. SlotsFit(p, q)' /\ HeldFits(p, q)'
    BY <1>3, <1>8, <1>9, <1>11, <2>1, <2>2 DEF Fits, SlotsFit, HeldFits
  <2>4. RevealsFit(p, q)'
    BY <1>3, <1>8, <1>9, <1>10, <1>11, <2>1, <2>2 DEF Fits, RevealsFit
  <2>5. AcksFit(p, q)'
    BY <1>8, <1>9, <1>11, <1>12, <2>1, <2>2 DEF Fits, AcksFit
  <2>6. ResultFits(p, q)'
    BY <1>3 DEF ResultFits
  <2>7. OffersFit(p, q)' /\ OffersFit(q, p)'
    BY <1>3, <1>9, <1>10, <1>11, <2>1 DEF Fits, OffersFit
  <2>8. SlotsFit(q, p)'
    <3>1. \A m \in Messages(inbox[q]) : m.type \notin Slots
      BY <1>3, <2>1 DEF Fits, SlotsFit
    <3>2. QED
      BY <1>4, <1>6, <1>7, <1>8, <3>1 DEF SlotsFit
  <2>9. HeldFits(q, p)'
    BY <1>9, <1>11, <1>15, <1>18 DEF HeldFits
  <2>10. RevealsFit(q, p)'
    <3>1. \A m \in Messages(inbox[q]) : m.type # "reveal"
      BY <1>10, <2>1 DEF Fits, RevealsFit
    <3>2. \A m \in Messages(inbox'[q]) : m.type # "reveal"
      BY <1>7, <1>8, <3>1
    <3>3. QED
      BY <1>8, <2>1, <3>2, HoldsMessages DEF Fits, RevealsFit
  <2>11. AcksFit(q, p)'
    BY <1>3, <1>7, <1>8, <1>13, <2>1 DEF Fits, AcksFit
  <2>12. ResultFits(q, p)'
    BY <1>9, <1>10, <1>11, <2>1 DEF Fits, ResultFits
  <2>13. QED
    BY <2>3, <2>4, <2>5, <2>6, <2>7, <2>8, <2>9, <2>10, <2>11, <2>12 DEF Fits
<1>19. Told(q, p)'
  <2>1. \A v \in verdict[q] : v \in Errors
    BY <1>3, <1>10 DEF Pair, Meet, Told
  <2>2. QED
    BY <1>9, <2>1 DEF Told, Errors
<1>20. Told(p, q)'
  BY <1>3, <1>10 DEF Told, Pair, Loop
<1>21. QED
  BY <1>10, <1>14, <1>16, <1>17, <1>18, <1>19, <1>20 DEF Meet, Bothlive

\* The other's slot is taken: it was decided in the same phase.
LEMMA TakeSlotMeet ==
  ASSUME Base, NEW p \in Peers, NEW q, q = other(p), Pair(p, q), take_slot(p)
  PROVE  Meet(p, q)' /\ Meet(q, p)'
<1>1. q \in Peers /\ q # p
  BY OtherPeer
<1>2. Rests(q)
  BY <1>1, Local DEF Base, Acts, Works
<1>3. /\ pc[p] = "deciding" /\ pc'[p] = "deciding" /\ slot[p] = {}
      /\ game'[p] = game[p] /\ banks'[p] = banks[p] /\ offers'[p] = offers[p]
      /\ choice'[p] = choice[p] /\ pending'[p] = pending[p] /\ verdict'[p] = verdict[p]
      /\ color'[p] = color[p]
  BY TakeSlotEffect DEF Base
<1>4. /\ inbox[p] # <<>> /\ inbox'[p] = Tail(inbox[p]) /\ inbox'[q] = inbox[q]
      /\ Head(inbox[p]).type \in Slots /\ slot'[p] = {Head(inbox[p])}
  BY <1>1, TakeSlotEffect DEF Base, Domains, taken
<1>5. PICK m : m = Head(inbox[p])
  OBVIOUS
<1>6. IsBox(inbox[p]) /\ OneSlot(inbox[p])
  BY DEF Base, SInv, Boxes
<1>7. /\ m \in Messages(inbox[p]) /\ m.type \in Slots /\ slot'[p] = {m}
      /\ Messages(inbox'[p]) \subseteq Messages(inbox[p])
      /\ OneReveal(inbox[p]) => OneReveal(inbox'[p])
      /\ \A k : Holds(inbox'[p], k) => Holds(inbox[p], k)
      /\ ~ Holds(inbox'[p], Slots) /\ Holds(inbox[p], Slots)
  BY <1>4, <1>5, <1>6, TakenMessages, TakenBox
<1>8. /\ game'[q] = game[q] /\ pc'[q] = pc[q] /\ choice'[q] = choice[q] /\ slot'[q] = slot[q]
      /\ pending'[q] = pending[q] /\ offers'[q] = offers[q] /\ verdict'[q] = verdict[q]
      /\ conf' = conf
  BY <1>2 DEF Rests
<1>9. Live(p) /\ Live(p)' /\ (Live(q)' <=> Live(q)) /\ ~ Revealed(p) /\ ~ Revealed(p)'
      /\ (Revealed(q)' <=> Revealed(q))
  BY <1>3, <1>8 DEF Live, Revealed
<1>10. Even(p, q) /\ Even(q, p) /\ ~ Trails(p, q) /\ ~ Trails(q, p)
  BY <1>3, <1>7, <1>9, SamePhase
<1>11. Even(p, q)' /\ Even(q, p)'
  BY <1>3, <1>8, <1>10 DEF Even
<1>12. Abreast(p, q)' /\ Abreast(q, p)'
  BY <1>11 DEF Abreast
<1>13. Orderly(p, q)' /\ Orderly(q, p)'
  BY <1>4, <1>7, <1>8, <1>10 DEF Pair, Meet, Orderly
<1>14. ASSUME Live(q) PROVE Fits(p, q)' /\ Fits(q, p)'
  <2>1. Fits(p, q) /\ Fits(q, p)
    BY <1>9, <1>14 DEF Pair, Meet, Bothlive
  <2>2. /\ \A x : slot_message(q, x)' = slot_message(q, x)
        /\ \A x : reveal_message(q, x)' = reveal_message(q, x)
        /\ \A x : ack_message(q, x)' = ack_message(q, x)
    BY <1>2, Unmoved
  <2>3. /\ \A x : slot_message(p, x)' = slot_message(p, x)
        /\ \A x : reveal_message(p, x)' = reveal_message(p, x)
        /\ \A x : ack_message(p, x)' = ack_message(p, x)
    BY <1>3, <1>8, Readings
  <2>4. SlotsFit(p, q)' /\ HeldFits(p, q)'
    BY <1>7, <1>8, <2>1, <2>2 DEF Fits, SlotsFit, HeldFits
  <2>5. RevealsFit(p, q)'
    BY <1>3, <1>7, <1>8, <1>9, <1>11, <2>1, <2>2 DEF Fits, RevealsFit
  <2>6. AcksFit(p, q)'
    BY <1>7, <1>8, <1>10, <1>11, <2>1, <2>2 DEF Fits, AcksFit
  <2>7. ResultFits(p, q)'
    BY <1>3 DEF ResultFits
  <2>8. OffersFit(p, q)' /\ OffersFit(q, p)'
    BY <1>3, <1>8, <1>9, <1>10, <2>1 DEF Fits, OffersFit
  <2>9. SlotsFit(q, p)' /\ HeldFits(q, p)'
    BY <1>3, <1>4, <1>8, <1>10, <2>1, <2>3 DEF Fits, SlotsFit, HeldFits
  <2>10. RevealsFit(q, p)'
    BY <1>4, <1>8, <1>9, <1>10, <2>1 DEF Fits, RevealsFit
  <2>11. AcksFit(q, p)'
    BY <1>3, <1>4, <1>10, <2>1 DEF Fits, AcksFit
  <2>12. ResultFits(q, p)'
    BY <1>8, <1>9, <1>10, <2>1 DEF Fits, ResultFits
  <2>13. QED
    BY <2>4, <2>5, <2>6, <2>7, <2>8, <2>9, <2>10, <2>11, <2>12 DEF Fits
<1>15. Told(q, p)'
  <2>1. \A d, x : slots_verdict(p, d, x)' = slots_verdict(p, d, x)
    BY <1>3, <1>8, Readings
  <2>2. Errors' = Errors
    BY DEF Errors
  <2>3. Told(q, p)
    BY DEF Pair, Meet
  <2>4. SUFFICES ASSUME NEW v \in verdict[q], v \notin Errors PROVE Told(q, p)'
    BY <1>8, <2>2 DEF Told
  <2>5. \A d \in choice[p] : \A x \in slot[p] \cup Messages(inbox[p]) : x.type \in Slots =>
          slots_verdict(p, d, x) # {} /\ \A w \in verdict[q] \ Errors :
                                           slots_verdict(p, d, x) \subseteq {w} \cup Errors
    BY <1>3, <1>9, <2>3, <2>4 DEF Told
  <2>6. choice[p] # {}
    BY <1>3, <1>9, <2>3, <2>4 DEF Told
  <2>7. \A d \in choice'[p] : \A x \in slot'[p] \cup Messages(inbox'[p]) : x.type \in Slots =>
          slots_verdict(p, d, x)' # {} /\ \A w \in verdict[q] \ Errors :
                                           slots_verdict(p, d, x)' \subseteq {w} \cup Errors
    BY <1>3, <1>7, <2>1, <2>5
  <2>8. QED
    BY <1>3, <1>8, <1>11, <2>2, <2>6, <2>7 DEF Told
<1>16. Told(p, q)'
  BY <1>3, <1>9 DEF Told, Pair, Loop
<1>17. QED
  BY <1>9, <1>12, <1>13, <1>14, <1>15, <1>16 DEF Meet, Bothlive

\* The own program is revealed: both have committed, and the other has not yet
\* seen a reveal of this phase.
LEMMA RevealMeet ==
  ASSUME Base, NEW p \in Peers, NEW q, q = other(p), Pair(p, q), reveal(p)
  PROVE  Meet(p, q)' /\ Meet(q, p)'
<1>1. q \in Peers /\ q # p
  BY OtherPeer
<1>2. Rests(q)
  BY <1>1, Local DEF Base, Acts, Works
<1>3. /\ pc[p] = "deciding" /\ pc'[p] = "revealing"
      /\ game'[p] = game[p] /\ banks'[p] = banks[p] /\ slot'[p] = slot[p]
      /\ choice'[p] = choice[p] /\ pending'[p] = pending[p] /\ verdict'[p] = verdict[p]
      /\ color'[p] = color[p]
  BY RevealEffect DEF Base
<1>4. PICK d \in choice[p], s \in slot[p] :
        slots_verdict(p, d, s) = {} /\ Deals(p, q, {reveal_message(p, d)})
  BY RevealEffect DEF Base
<1>5. PICK m : m = reveal_message(p, d)
  OBVIOUS
<1>6. m.type = "reveal" /\ m.type # "ack" /\ m.type \notin Slots
  BY <1>5 DEF reveal_message, Slots
<1>7. Deals(p, q, {m})
  BY <1>4, <1>5
<1>8. /\ Messages(inbox'[p]) \subseteq Messages(inbox[p])
      /\ Messages(inbox'[q]) \subseteq Messages(inbox[q]) \cup {m}
      /\ OneReveal(inbox[p]) => OneReveal(inbox'[p])
      /\ OneReveal(inbox[q]) /\ ~ Holds(inbox[q], {"reveal"}) => OneReveal(inbox'[q])
      /\ \A k : Holds(inbox'[p], k) => Holds(inbox[p], k)
      /\ \A k : Holds(inbox'[q], k) => Holds(inbox[q], k) \/ m.type \in k
  BY <1>7, AfterSend
<1>9. /\ game'[q] = game[q] /\ pc'[q] = pc[q] /\ choice'[q] = choice[q] /\ slot'[q] = slot[q]
      /\ pending'[q] = pending[q] /\ verdict'[q] = verdict[q] /\ conf' = conf
  BY <1>2 DEF Rests
<1>10. Live(p) /\ Live(p)' /\ (Live(q)' <=> Live(q)) /\ ~ Revealed(p) /\ Revealed(p)'
       /\ (Revealed(q)' <=> Revealed(q))
  BY <1>3, <1>9 DEF Live, Revealed
<1>11. Even(p, q) /\ Even(q, p) /\ ~ Trails(p, q) /\ ~ Trails(q, p)
  BY <1>3, <1>4, <1>10, SamePhase
<1>12. Even(p, q)' /\ Even(q, p)'
  BY <1>3, <1>9, <1>11 DEF Even
<1>13. Abreast(p, q)' /\ Abreast(q, p)'
  BY <1>12 DEF Abreast
<1>14. Orderly(p, q)' /\ Orderly(q, p)'
  BY <1>3, <1>6, <1>8, <1>9, <1>11 DEF Pair, Meet, Orderly
<1>15. ASSUME Live(q) PROVE Fits(p, q)' /\ Fits(q, p)'
  <2>1. Fits(p, q) /\ Fits(q, p)
    BY <1>10, <1>15 DEF Pair, Meet, Bothlive
  <2>2. /\ \A x : slot_message(q, x)' = slot_message(q, x)
        /\ \A x : reveal_message(q, x)' = reveal_message(q, x)
        /\ \A x : ack_message(q, x)' = ack_message(q, x)
    BY <1>2, Unmoved
  <2>3. /\ \A x : slot_message(p, x)' = slot_message(p, x)
        /\ \A x : reveal_message(p, x)' = reveal_message(p, x)
    BY <1>3, <1>9, Readings
  <2>4. SlotsFit(p, q)' /\ HeldFits(p, q)'
    BY <1>3, <1>8, <1>9, <1>11, <2>1, <2>2 DEF Fits, SlotsFit, HeldFits
  <2>5. RevealsFit(p, q)'
    BY <1>3, <1>8, <1>9, <1>10, <1>12, <2>1, <2>2 DEF Fits, RevealsFit
  <2>6. AcksFit(p, q)'
    BY <1>8, <1>9, <1>11, <1>12, <2>1, <2>2 DEF Fits, AcksFit
  <2>7. ResultFits(p, q)'
    BY <1>3 DEF ResultFits
  <2>8. OffersFit(p, q)' /\ OffersFit(q, p)'
    BY <1>10 DEF OffersFit
  <2>9. SlotsFit(q, p)' /\ HeldFits(q, p)'
    BY <1>3, <1>6, <1>8, <1>9, <1>11, <2>1, <2>3 DEF Fits, SlotsFit, HeldFits
  <2>10. pc[q] # "acking"
    BY <1>10, <1>11, <2>1 DEF Fits, ResultFits
  <2>11. RevealsFit(q, p)'
    <3>1. \A x \in Messages(inbox[q]) : x.type # "reveal"
      BY <1>10, <2>1 DEF Fits, RevealsFit
    <3>2. ~ Holds(inbox[q], {"reveal"})
      BY <3>1, HoldsMessages
    <3>3. OneReveal(inbox'[q])
      BY <1>8, <2>1, <3>2 DEF Fits, RevealsFit
    <3>4. \A x \in Messages(inbox'[q]) : x.type = "reveal" => x = reveal_message(p, d)'
      BY <1>5, <1>8, <2>3, <3>1
    <3>5. QED
      BY <1>3, <1>4, <1>9, <1>10, <1>12, <2>10, <3>3, <3>4 DEF RevealsFit
  <2>12. AcksFit(q, p)'
    BY <1>3, <1>6, <1>8, <1>11, <2>1 DEF Fits, AcksFit
  <2>13. ResultFits(q, p)'
    BY <1>9, <2>10 DEF ResultFits
  <2>14. QED
    BY <2>4, <2>5, <2>6, <2>7, <2>8, <2>9, <2>11, <2>12, <2>13 DEF Fits
<1>16. Told(q, p)'
  <2>1. s.type \in Slots
    BY <1>4 DEF Pair, Loop
  <2>2. \A v \in verdict[q] : v \in Errors
    BY <1>3, <1>4, <1>10, <2>1 DEF Pair, Meet, Told
  <2>3. QED
    BY <1>9, <2>2 DEF Told, Errors
<1>17. Told(p, q)'
  BY <1>3, <1>10 DEF Told, Pair, Loop
<1>18. QED
  BY <1>10, <1>13, <1>14, <1>15, <1>16, <1>17 DEF Meet, Bothlive

\* The other's program is taken: it is what the other decided and committed to.
LEMMA TakeRevealMeet ==
  ASSUME Base, NEW p \in Peers, NEW q, q = other(p), Pair(p, q), take_reveal(p)
  PROVE  Meet(p, q)' /\ Meet(q, p)'
<1>1. q \in Peers /\ q # p
  BY OtherPeer
<1>2. Rests(q)
  BY <1>1, Local DEF Base, Acts, Works
<1>3. /\ pc[p] = "revealing" /\ pc'[p] = "acking"
      /\ inbox[p] # <<>> /\ inbox'[p] = Tail(inbox[p])
      /\ game'[p] = game[p] /\ banks'[p] = banks[p] /\ slot'[p] = slot[p]
      /\ choice'[p] = choice[p] /\ offers'[p] = offers[p] /\ verdict'[p] = verdict[p]
      /\ color'[p] = color[p]
  BY TakeRevealEffect DEF Base
<1>4. PICK m : m = Head(inbox[p])
  OBVIOUS
<1>5. PICK d \in choice[p], s \in slot[p] :
        LET r == computed(p, d, m)
        IN  acceptable(p, d, m, s) /\ pending'[p] = {r} /\ Deals(p, q, {ack_message(p, r)})
  BY <1>4, TakeRevealEffect DEF Base
<1>6. PICK r : r = computed(p, d, m)
  OBVIOUS
<1>7. PICK a : a = ack_message(p, r)
  OBVIOUS
<1>8. /\ adjudicate_legality(p, d, m) = {} /\ m.type = "reveal"
      /\ timed(p) => d.elapsed # {} /\ m.elapsed # {}
  BY <1>5 DEF acceptable, spoiled
<1>9. Deals(p, q, {a}) /\ pending'[p] = {r}
  BY <1>5, <1>6, <1>7
<1>10. a.type = "ack" /\ a.type # "reveal" /\ a.type \notin Slots
  BY <1>7 DEF ack_message, Slots
<1>11. /\ Messages(inbox'[p]) \subseteq Messages(inbox[p])
       /\ Messages(inbox'[q]) \subseteq Messages(inbox[q]) \cup {a}
       /\ OneReveal(inbox[p]) => OneReveal(inbox'[p])
       /\ OneReveal(inbox[q]) => OneReveal(inbox'[q])
       /\ \A k : Holds(inbox'[p], k) => Holds(inbox[p], k)
       /\ \A k : Holds(inbox'[q], k) => Holds(inbox[q], k) \/ a.type \in k
  BY <1>9, <1>10, AfterSend
<1>12. /\ m \in Messages(inbox[p])
       /\ OneReveal(inbox[p]) => ~ Holds(inbox'[p], {"reveal"})
  BY <1>3, <1>4, <1>8, BaseBoxes, TakenMessages
<1>13. /\ game'[q] = game[q] /\ pc'[q] = pc[q] /\ choice'[q] = choice[q] /\ slot'[q] = slot[q]
       /\ pending'[q] = pending[q] /\ verdict'[q] = verdict[q] /\ offers'[q] = offers[q]
       /\ conf' = conf
  BY <1>2 DEF Rests
<1>14. Live(p) /\ Live(p)' /\ (Live(q)' <=> Live(q)) /\ Revealed(p) /\ Revealed(p)'
       /\ (Revealed(q)' <=> Revealed(q))
  BY <1>3, <1>13 DEF Live, Revealed
<1>15. Even(p, q) /\ Even(q, p) /\ ~ Trails(p, q) /\ ~ Trails(q, p)
  BY <1>3, <1>14, SamePhase
<1>16. Even(p, q)' /\ Even(q, p)'
  BY <1>3, <1>13, <1>15 DEF Even
<1>17. Abreast(p, q)' /\ Abreast(q, p)'
  BY <1>16 DEF Abreast
<1>18. Orderly(p, q)' /\ Orderly(q, p)'
  BY <1>3, <1>10, <1>11, <1>13, <1>15 DEF Pair, Meet, Orderly
<1>19. ASSUME Live(q) PROVE Fits(p, q)' /\ Fits(q, p)'
  <2>1. Fits(p, q) /\ Fits(q, p)
    BY <1>14, <1>19 DEF Pair, Meet, Bothlive
  <2>2. /\ \A x : slot_message(q, x)' = slot_message(q, x)
        /\ \A x : reveal_message(q, x)' = reveal_message(q, x)
        /\ \A x : ack_message(q, x)' = ack_message(q, x)
        /\ \A x, y : adjudicate_legality(q, x, y)' = adjudicate_legality(q, x, y)
        /\ \A x, y : computed(q, x, y)' = computed(q, x, y)
        /\ timed(q)' <=> timed(q)
    BY <1>2, Unmoved
  <2>3. /\ \A x : slot_message(p, x)' = slot_message(p, x)
        /\ \A x : reveal_message(p, x)' = reveal_message(p, x)
        /\ \A x : ack_message(p, x)' = ack_message(p, x)
        /\ \A x, y : adjudicate_legality(p, x, y)' = adjudicate_legality(p, x, y)
        /\ \A x, y : computed(p, x, y)' = computed(p, x, y)
        /\ timed(p)' <=> timed(p)
    BY <1>3, <1>13, Readings DEF timed
  <2>4. SlotsFit(p, q)' /\ HeldFits(p, q)'
    BY <1>3, <1>11, <1>13, <1>15, <2>1, <2>2 DEF Fits, SlotsFit, HeldFits
  <2>5. RevealsFit(p, q)'
    BY <1>11, <1>12, <1>13, <1>14, <1>16, <2>1, <2>2 DEF Fits, RevealsFit
  <2>6. AcksFit(p, q)'
    BY <1>11, <1>13, <1>15, <1>16, <2>1, <2>2 DEF Fits, AcksFit
  <2>7. PICK e \in choice[q] : m = reveal_message(q, e) /\ Revealed(q)
    BY <1>8, <1>12, <2>1 DEF Fits, RevealsFit
  <2>8. /\ adjudicate_legality(p, d, m) = adjudicate_legality(p, d, e)
        /\ computed(p, d, m) = computed(p, d, e)
        /\ m.elapsed = e.elapsed
    BY <2>7, RevealedAlike DEF reveal_message
  <2>9. choice[p] = {d} /\ choice[q] = {e}
    BY <1>5, <2>7 DEF Pair, Loop, One
  <2>10. ResultFits(p, q)'
    BY <1>3, <1>6, <1>8, <1>9, <1>13, <1>14, <2>3, <2>7, <2>8, <2>9 DEF ResultFits
  <2>11. OffersFit(p, q)' /\ OffersFit(q, p)'
    BY <1>14 DEF OffersFit
  <2>12. SlotsFit(q, p)' /\ HeldFits(q, p)'
    BY <1>3, <1>10, <1>11, <1>13, <1>15, <2>1, <2>3 DEF Fits, SlotsFit, HeldFits
  <2>13. RevealsFit(q, p)'
    <3>1. pc'[q] = "acking" => ~ Holds(inbox'[q], {"reveal"})
      BY <1>10, <1>11, <1>13, <2>1 DEF Fits, RevealsFit
    <3>2. \A x \in Messages(inbox'[q]) : x.type = "reveal" => x \in Messages(inbox[q])
      BY <1>10, <1>11
    <3>3. QED
      BY <1>3, <1>11, <1>14, <1>16, <2>1, <2>3, <3>1, <3>2 DEF Fits, RevealsFit
  <2>14. AcksFit(q, p)'
    <3>1. \A x \in Messages(inbox[q]) : x.type # "ack"
      BY <1>3, <1>15, <2>1 DEF Fits, AcksFit
    <3>2. \A x \in Messages(inbox'[q]) : x.type = "ack" => x = ack_message(p, r)'
      BY <1>7, <1>11, <2>3, <3>1
    <3>3. QED
      BY <1>3, <1>9, <1>16, <3>2 DEF AcksFit
  <2>15. ResultFits(q, p)'
    BY <1>3, <1>13, <1>14, <1>15, <2>1, <2>2 DEF Fits, ResultFits
  <2>16. QED
    BY <2>4, <2>5, <2>6, <2>10, <2>11, <2>12, <2>13, <2>14, <2>15 DEF Fits
<1>20. Told(q, p)'
  <2>1. \A v \in verdict[q] : v \in Errors
    BY <1>3, <1>5, <1>8, <1>12, <1>14 DEF Pair, Meet, Told
  <2>2. QED
    BY <1>13, <2>1 DEF Told, Errors
<1>21. Told(p, q)'
  BY <1>3, <1>14 DEF Told, Pair, Loop
<1>22. QED
  BY <1>14, <1>17, <1>18, <1>19, <1>20, <1>21 DEF Meet, Bothlive

\* A match ends for p, its game being what it was.
LEMMA EndMeet ==
  ASSUME Base, NEW p \in Peers, NEW q, q = other(p), Pair(p, q), Rests(q), NEW v, ends(p, v),
         game'[p] = game[p], Told(p, q)'
  PROVE  Meet(p, q)' /\ Meet(q, p)'
<1>1. q \in Peers /\ q # p
  BY OtherPeer
<1>2. /\ pc'[p] = "over" /\ verdict'[p] = {v} /\ inbox'[p] = <<>> /\ slot'[p] = {}
      /\ inbox'[q] = inbox[q] /\ slot'[q] = slot[q]
  BY <1>1, EndEffect DEF Base
<1>3. /\ game'[q] = game[q] /\ pc'[q] = pc[q] /\ slot'[q] = slot[q]
      /\ pending'[q] = pending[q] /\ offers'[q] = offers[q]
  BY <1>2 DEF Rests
<1>4. ~ Live(p)' /\ (Live(q)' <=> Live(q))
  BY <1>2, <1>3 DEF Live
<1>5. ~ Holds(inbox'[p], Slots)
  BY <1>2, EmptyBox
<1>6. Trails(p, q) => Trails(p, q)'
  BY <1>2, <1>3, <1>4, <1>5, TrailsKept
<1>7. Trails(q, p) => Trails(q, p)'
  BY <1>2, <1>3, <1>4, <1>5, TrailsKept
<1>8. Abreast(p, q)' /\ Abreast(q, p)'
  BY <1>3, <1>6, <1>7 DEF Pair, Meet, Abreast, Even
<1>9. Orderly(p, q)' /\ Orderly(q, p)'
  BY <1>2, <1>3 DEF Pair, Meet, Orderly, Even
<1>10. Told(q, p)'
  BY <1>4 DEF Told
<1>11. QED
  BY <1>4, <1>8, <1>9, <1>10 DEF Meet, Bothlive

\* Live peers past the handshake face each other.
LEMMA Faced ==
  ASSUME Base, Opened, NEW p \in Peers, NEW q, q = other(p), Bothlive(p, q), Past(p), Past(q)
  PROVE  Facing(p, q) /\ Facing(q, p)
<1>1. q \in Peers /\ p = other(q) /\ Bothlive(q, p)
  BY OtherPeer DEF Bothlive
<1>2. Greeted(p, q) /\ Greeted(q, p)
  BY <1>1 DEF Opened
<1>3. /\ color[p] \in Color /\ color[q] = opponent(color[p]) /\ color[p] = opponent(color[q])
      /\ conf[p].terms.max_phases = conf[q].terms.max_phases
  BY <1>2, Opposed
<1>4. color[q] \in Color
  BY <1>3, OpponentDiffers
<1>5. QED
  BY <1>3, <1>4 DEF Facing

\* Two slots give a result: the other has both of them before it, or will have.
LEMMA CloseTells ==
  ASSUME Base, Opened, NEW p \in Peers, NEW q, q = other(p), Pair(p, q), Bothlive(p, q),
         pc[p] = "deciding", NEW d \in choice[p], NEW m \in slot[p],
         NEW v \in slots_verdict(p, d, m), v \notin Errors
  PROVE  /\ pc[q] = "deciding" /\ Even(p, q) /\ choice[q] # {}
         /\ \A e \in choice[q] : \A n \in slot[q] \cup Messages(inbox[q]) : n.type \in Slots =>
              slots_verdict(q, e, n) # {} /\ slots_verdict(q, e, n) \subseteq {v} \cup Errors
<1>1. Even(p, q) /\ Even(q, p)
  BY SamePhase DEF Bothlive
<1>2. Fits(p, q) /\ Fits(q, p)
  BY DEF Pair, Meet, Bothlive
<1>3. PICK e \in choice[q] : m = slot_message(q, e)
  BY <1>1, <1>2 DEF Fits, HeldFits
<1>4. choice[p] = {d} /\ choice[q] = {e} /\ Proper(d) /\ Proper(e)
  BY <1>3 DEF Pair, Loop, One
<1>5. \A n \in slot[q] \cup Messages(inbox[q]) : n.type \in Slots => n = slot_message(p, d)
  BY <1>1, <1>2, <1>4 DEF Fits, HeldFits, SlotsFit
<1>6. ~ Revealed(q)
  <2>1. SUFFICES ASSUME Revealed(q) PROVE FALSE
    OBVIOUS
  <2>2. PICK n \in slot[q] : n.type = "commit" /\ e.kind = "commit"
    BY <1>3, <2>1 DEF Pair, Loop
  <2>3. n = slot_message(p, d)
    BY <1>5, <2>2 DEF Slots
  <2>4. d.kind = "commit" /\ m.type = "commit"
    BY <1>3, <2>2, <2>3 DEF slot_message
  <2>5. resolve_slots(d.kind, m.type, color[p], p \in offers[p], other(p) \in offers[p]) = {}
    BY <2>4 DEF resolve_slots
  <2>6. v = error("ProtocolError")
    BY <2>5 DEF slots_verdict
  <2>7. QED
    BY <2>6, ErrorKinds
<1>7. pc[q] = "deciding"
  BY <1>3, <1>6 DEF Pair, Loop, Revealed
<1>8. Facing(p, q)
  BY <1>7, Faced DEF Past
<1>9. slots_verdict(q, e, slot_message(p, d)) # {}
      /\ slots_verdict(q, e, slot_message(p, d)) \subseteq {v} \cup Errors
  BY <1>3, <1>4, <1>8, ClosedAlike
<1>10. QED
  BY <1>1, <1>4, <1>5, <1>7, <1>9

\* A program is rejected: the other has the same two before it, or will have.
LEMMA ForfeitTells ==
  ASSUME Base, Opened, NEW p \in Peers, NEW q, q = other(p), Pair(p, q), Bothlive(p, q),
         pc[p] = "revealing", NEW m \in Messages(inbox[p]), m.type = "reveal",
         NEW d \in choice[p], NEW v \in adjudicate_legality(p, d, m)
  PROVE  /\ pc[q] = "revealing" /\ Even(p, q)
         /\ \A e \in choice[q], n \in Messages(inbox[q]) :
              n.type = "reveal" => adjudicate_legality(q, e, n) = {v}
<1>1. Even(p, q) /\ Even(q, p)
  BY SamePhase DEF Bothlive
<1>2. Fits(p, q) /\ Fits(q, p)
  BY DEF Pair, Meet, Bothlive
<1>3. PICK e \in choice[q] : m = reveal_message(q, e) /\ Revealed(q)
  BY <1>2 DEF Fits, RevealsFit
<1>4. choice[p] = {d} /\ choice[q] = {e}
  BY <1>3 DEF Pair, Loop, One
<1>5. Facing(p, q)
  BY <1>3, Faced DEF Past, Revealed
<1>6. adjudicate_legality(p, d, m) = adjudicate_legality(q, e, d)
  BY <1>1, <1>3, <1>5, RevealedAlike, AdjudgedAlike
<1>7. adjudicate_legality(p, d, m) = {v}
  BY DEF adjudicate_legality
<1>8. pc[q] = "revealing"
  BY <1>1, <1>2, <1>3, <1>4, <1>6, <1>7 DEF Fits, ResultFits, Revealed
<1>9. ASSUME NEW n \in Messages(inbox[q]), n.type = "reveal"
       PROVE  adjudicate_legality(q, e, n) = {v}
  <2>1. n = reveal_message(p, d)
    BY <1>2, <1>4, <1>9 DEF Fits, RevealsFit
  <2>2. adjudicate_legality(q, e, n) = adjudicate_legality(q, e, d)
    BY <2>1, RevealedAlike
  <2>3. QED
    BY <1>6, <1>7, <2>2
<1>10. QED
  BY <1>1, <1>4, <1>8, <1>9

\* Every end of a match but by an ack.
LEMMA StopMeet ==
  ASSUME Base, Opened, NEW p \in Peers, NEW q, q = other(p), Pair(p, q), Stops(p)
  PROVE  Meet(p, q)' /\ Meet(q, p)'
<1>1. q \in Peers /\ q # p
  BY OtherPeer
<1>2. Rests(q)
  BY <1>1, Local DEF Base, Acts, Works, Stops
<1>3. game'[p] = game[p] /\ Live(p)
  BY StopEffect DEF Base
<1>4. /\ game'[q] = game[q] /\ pc'[q] = pc[q] /\ choice'[q] = choice[q] /\ slot'[q] = slot[q]
      /\ (Live(q)' <=> Live(q))
  BY <1>2 DEF Rests, Live
<1>5. Errors' = Errors
  BY DEF Errors
<1>6. CASE \E e \in Errors : ends(p, e)
  <2>1. PICK e \in Errors : ends(p, e)
    BY <1>6
  <2>2. verdict'[p] = {e}
    BY <1>1, <2>1, EndEffect DEF Base
  <2>3. Told(p, q)'
    BY <1>5, <2>2 DEF Told
  <2>4. QED
    BY <1>2, <1>3, <2>1, <2>3, EndMeet
<1>7. CASE /\ ~ \E e \in Errors : ends(p, e)
           /\ pc[p] = "deciding"
           /\ \E d \in choice[p], m \in slot[p] : \E v \in slots_verdict(p, d, m) : ends(p, v)
  <2>1. PICK d \in choice[p], m \in slot[p] : \E v \in slots_verdict(p, d, m) : ends(p, v)
    BY <1>7
  <2>2. PICK v \in slots_verdict(p, d, m) : ends(p, v)
    BY <2>1
  <2>3. v \notin Errors
    BY <1>7, <2>2
  <2>4. verdict'[p] = {v} /\ inbox'[q] = inbox[q]
    BY <1>1, <2>2, EndEffect DEF Base
  <2>5. \A e, n : slots_verdict(q, e, n)' = slots_verdict(q, e, n)
    BY <1>2, Unmoved
  <2>6. Told(p, q)'
    <3>1. SUFFICES ASSUME Live(q) PROVE Told(p, q)'
      BY <1>4 DEF Told
    <3>2. /\ pc[q] = "deciding" /\ Even(p, q) /\ choice[q] # {}
          /\ \A e \in choice[q] : \A n \in slot[q] \cup Messages(inbox[q]) : n.type \in Slots =>
               slots_verdict(q, e, n) # {} /\ slots_verdict(q, e, n) \subseteq {v} \cup Errors
      BY <1>3, <1>7, <2>3, <3>1, CloseTells DEF Bothlive
    <3>3. Even(q, p)'
      BY <1>3, <1>4, <3>2 DEF Even
    <3>4. QED
      BY <1>4, <1>5, <2>4, <2>5, <3>2, <3>3 DEF Told
  <2>7. QED
    BY <1>2, <1>3, <2>2, <2>6, EndMeet
<1>8. CASE /\ pc[p] = "revealing" /\ inbox[p] # <<>>
           /\ \E d \in choice[p], s \in slot[p] :
                /\ ~ spoiled(p, d, Head(inbox[p]), s)
                /\ \E v \in adjudicate_legality(p, d, Head(inbox[p])) : ends(p, v)
  <2>1. PICK m : m = Head(inbox[p])
    OBVIOUS
  <2>2. PICK d \in choice[p] : /\ m.type = "reveal"
                               /\ \E v \in adjudicate_legality(p, d, m) : ends(p, v)
    BY <1>8, <2>1 DEF spoiled
  <2>3. PICK v \in adjudicate_legality(p, d, m) : ends(p, v)
    BY <2>2
  <2>4. verdict'[p] = {v} /\ inbox'[q] = inbox[q]
    BY <1>1, <2>3, EndEffect DEF Base
  <2>5. \A e, n : adjudicate_legality(q, e, n)' = adjudicate_legality(q, e, n)
    BY <1>2, Unmoved
  <2>6. Told(p, q)'
    <3>1. SUFFICES ASSUME Live(q) PROVE Told(p, q)'
      BY <1>4 DEF Told
    <3>2. /\ pc[q] = "revealing" /\ Even(p, q)
          /\ \A e \in choice[q], n \in Messages(inbox[q]) :
               n.type = "reveal" => adjudicate_legality(q, e, n) = {v}
      <4>1. /\ Bothlive(p, q) /\ pc[p] = "revealing" /\ m \in Messages(inbox[p])
            /\ m.type = "reveal"
        BY <1>3, <1>8, <2>1, <2>2, <3>1, BaseBoxes, TakenMessages DEF Bothlive
      <4>2. QED
        BY <4>1, ForfeitTells
    <3>3. Even(q, p)'
      BY <1>3, <1>4, <3>2 DEF Even
    <3>4. QED
      BY <1>4, <2>4, <2>5, <3>2, <3>3 DEF Told
  <2>7. QED
    BY <1>2, <1>3, <2>3, <2>6, EndMeet
<1>9. QED
  BY <1>6, <1>7, <1>8, StopEffect DEF Base

\* An ack that confirms a result comes from a peer that waits for the ack of it.
LEMMA SameResult ==
  ASSUME Base, Opened, NEW p \in Peers, NEW q, q = other(p), Pair(p, q), Bothlive(p, q),
         Even(p, q), pc[p] = "acking", NEW r \in pending[p], NEW m \in Messages(inbox[p]),
         m = ack_message(p, r)
  PROVE  pc[q] = "acking" /\ r \in pending[q] /\ offers[p] = offers[q]
<1>1. q \in Peers /\ q # p
  BY OtherPeer
<1>2. Fits(p, q) /\ Fits(q, p) /\ Even(q, p)
  BY DEF Pair, Meet, Bothlive, Even
<1>3. m.type = "ack"
  BY DEF ack_message
<1>4. ~ Trails(p, q)
  BY Lengths DEF Pair, Loop
<1>5. PICK s \in pending[q] : m = ack_message(q, s) /\ pc[q] = "acking"
  BY <1>2, <1>3, <1>4 DEF Fits, AcksFit
<1>6. Revealed(p) /\ Revealed(q)
  BY <1>5 DEF Revealed
<1>7. PICK d \in choice[p], e \in choice[q], n \in slot[p], o \in slot[q] :
        /\ d.kind = "commit" /\ e.kind = "commit"
        /\ offers[p] = offers_of(p, d, n) /\ offers[q] = offers_of(q, e, o)
  BY <1>6 DEF Pair, Loop
<1>8. choice[p] = {d} /\ choice[q] = {e} /\ Proper(d) /\ Proper(e)
  BY <1>7 DEF Pair, Loop, One
<1>9. n = slot_message(q, e) /\ o = slot_message(p, d)
  BY <1>2, <1>7, <1>8 DEF Fits, HeldFits
<1>10. offers[p] = offers[q]
  BY <1>7, <1>9, OfferedAlike
<1>11. /\ r = computed(p, d, e) /\ s = computed(q, e, d)
       /\ timed(p) \/ timed(q) => d.elapsed # {} /\ e.elapsed # {}
  BY <1>2, <1>5, <1>7 DEF Fits, ResultFits
<1>12. Facing(p, q)
  BY <1>6, Faced DEF Past, Revealed
<1>13. ack_message(p, computed(p, d, e)) = ack_message(q, computed(q, e, d))
  BY <1>5, <1>11
<1>14. computed(p, d, e) = computed(q, e, d)
  BY <1>1, <1>8, <1>11, <1>12, <1>13, AckedAlike DEF Pair, Proper
<1>15. QED
  BY <1>5, <1>10, <1>11, <1>14

\* What holds of an ack that confirms the result, whether or not it ends the match.
LEMMA Confirmed ==
  ASSUME Base, Opened, NEW p \in Peers, NEW q, q = other(p), Pair(p, q), Rests(q),
         pc[p] = "acking", inbox[p] # <<>>, NEW r \in pending[p],
         Head(inbox[p]) = ack_message(p, r), game'[p] = r.game,
         slot'[p] = {}, ~ Holds(inbox'[p], Slots), pc'[p] \in {"deciding", "over"},
         inbox'[q] = inbox[q], offers'[p] = offers[p],
         Live(p)' => r.verdict = {}
  PROVE  /\ Abreast(p, q)' /\ Abreast(q, p)' /\ Orderly(p, q)' /\ Orderly(q, p)'
         /\ Trails(p, q) => Even(p, q)'
         /\ Even(p, q) /\ Extended(game[p], r.game) => Trails(q, p)'
         /\ Even(p, q) /\ Live(q) => pc[q] = "acking" /\ r \in pending[q]
<1>1. q \in Peers /\ q # p
  BY OtherPeer
<1>2. /\ game'[q] = game[q] /\ pc'[q] = pc[q] /\ slot'[q] = slot[q] /\ pending'[q] = pending[q]
      /\ offers'[q] = offers[q] /\ (Live(q)' <=> Live(q))
  BY DEF Rests, Live
<1>3. pending[p] = {r} /\ Live(p) /\ Outcome(p, r) /\ slot[p] # {}
  BY DEF Pair, Loop, One, Live, Revealed
<1>4. ~ Trails(q, p)
  BY <1>3 DEF Trails
<1>5. Head(inbox[p]) \in Messages(inbox[p])
  BY BaseBoxes, TakenMessages
<1>6. ASSUME Even(p, q), Live(q)
      PROVE  pc[q] = "acking" /\ r \in pending[q] /\ offers[p] = offers[q]
  BY <1>3, <1>5, <1>6, SameResult DEF Bothlive
<1>7. ASSUME Even(p, q), Extended(game[p], r.game) PROVE Trails(q, p)'
  <2>1. Extended(game'[q], game'[p])
    BY <1>2, <1>7 DEF Even
  <2>2. Live(q)' => pc'[q] = "acking" /\ \A s \in pending'[q] : s.game = game'[p]
    BY <1>2, <1>6, <1>7 DEF Pair, Loop, One
  <2>3. Bothlive(q, p)' => offers'[q] = offers'[p] /\ \A s \in pending'[q] : s.verdict = {}
    BY <1>2, <1>6, <1>7 DEF Pair, Loop, One, Bothlive
  <2>4. QED
    BY <2>1, <2>2, <2>3 DEF Trails
<1>8. ASSUME Trails(p, q) PROVE Even(p, q)' /\ Even(q, p)' /\ slot'[q] = {}
  BY <1>2, <1>3, <1>8 DEF Trails, Even
<1>9. ASSUME Even(p, q), r.game = game[p] PROVE Even(p, q)' /\ Even(q, p)'
  BY <1>2, <1>9 DEF Even
<1>10. Even(p, q) \/ Trails(p, q)
  BY <1>4 DEF Pair, Meet, Abreast
<1>11. r.game = game[p] \/ Extended(game[p], r.game)
  BY <1>3 DEF Outcome
<1>12. Abreast(p, q)' /\ Abreast(q, p)'
  BY <1>7, <1>8, <1>9, <1>10, <1>11 DEF Abreast
<1>13. Orderly(p, q)'
  BY DEF Orderly
<1>14. Orderly(q, p)'
  <2>1. CASE Even(p, q)
    BY <1>2, <2>1 DEF Pair, Meet, Orderly, Even
  <2>2. CASE Trails(p, q)
    BY <1>8, <2>2 DEF Orderly
  <2>3. QED
    BY <1>10, <2>1, <2>2
<1>15. QED
  BY <1>6, <1>7, <1>8, <1>12, <1>13, <1>14

\* Before phase n + 1: an ack that ends no match starts the next phase,
LEMMA NextPhaseFits ==
  ASSUME Base, Opened, NEW p \in Peers, NEW q, q = other(p), Pair(p, q), Bothlive(p, q), Rests(q),
         pc[p] = "acking", inbox[p] # <<>>, NEW r \in pending[p],
         Head(inbox[p]) = ack_message(p, r), game'[p] = r.game, r.verdict = {},
         pc'[p] = "deciding", slot'[p] = {},
         inbox'[p] = Tail(inbox[p]), inbox'[q] = inbox[q], offers'[p] = offers[p],
         ~ Holds(inbox'[p], {"reveal", "ack"}),
         Even(p, q) => Trails(q, p)' /\ ~ Holds(inbox'[p], Slots),
         Trails(p, q) => Even(p, q)'
  PROVE  Fits(p, q)' /\ Fits(q, p)'
<1>1. q \in Peers /\ q # p
  BY OtherPeer
<1>2. Fits(p, q) /\ Fits(q, p)
  BY DEF Pair, Meet, Bothlive
<1>3. /\ game'[q] = game[q] /\ pc'[q] = pc[q] /\ choice'[q] = choice[q] /\ slot'[q] = slot[q]
      /\ pending'[q] = pending[q] /\ offers'[q] = offers[q] /\ conf' = conf
  BY DEF Rests
<1>4. ~ Revealed(p)' /\ Live(p) /\ Revealed(p)
  BY DEF Revealed, Live
<1>5. /\ Messages(inbox'[p]) \subseteq Messages(inbox[p])
      /\ OneReveal(inbox'[p])
  BY <1>2, BaseBoxes, TakenMessages DEF Fits, RevealsFit
<1>6. \A x \in Messages(inbox'[p]) : x.type # "reveal" /\ x.type # "ack"
  BY HoldsMessages
<1>7. /\ RevealsFit(p, q)' /\ AcksFit(p, q)' /\ ResultFits(p, q)' /\ HeldFits(p, q)'
  BY <1>5, <1>6 DEF RevealsFit, AcksFit, ResultFits, HeldFits
<1>8. SlotsFit(p, q)'
  <2>1. \A x : slot_message(q, x)' = slot_message(q, x)
    BY Unmoved
  <2>2. QED
    BY <1>2, <1>3, <1>5, <2>1 DEF Fits, SlotsFit
<1>9. CASE Even(p, q)
  <2>1. Even(q, p) /\ ~ Trails(p, q) /\ ~ Trails(q, p)
    <3>1. IsBox(game[p]) /\ IsBox(game[q])
      BY DEF Pair, Loop
    <3>2. Even(q, p)
      BY <1>9 DEF Even
    <3>3. ~ Trails(p, q)
      BY <1>9, <3>1, Lengths
    <3>4. ~ Trails(q, p)
      BY <3>1, <3>2, Lengths
    <3>5. QED
      BY <3>2, <3>3, <3>4
  <2>2. Trails(q, p)'
    BY <1>9
  <2>3. ~ Even(p, q)' /\ ~ Even(q, p)'
    <3>1. Extended(game[q], game'[p])
      BY <1>3, <2>2 DEF Trails
    <3>2. game'[p] # game[q]
      BY <3>1, Lengths DEF Pair, Loop
    <3>3. QED
      BY <1>3, <3>2 DEF Even
  <2>4. pc[q] = "acking"
    BY <1>3, <2>2 DEF Trails, Bothlive, Live
  <2>5. \A x \in Messages(inbox[q]) : x.type \notin Slots /\ x.type # "reveal"
    <3>1. slot[q] # {} /\ ~ Holds(inbox[q], Slots)
      BY <2>1, <2>4 DEF Pair, Loop, Revealed, Meet, Orderly
    <3>2. ~ Holds(inbox[q], {"reveal"})
      BY <1>2, <2>4 DEF Fits, RevealsFit
    <3>3. QED
      BY <3>1, <3>2, HoldsMessages
  <2>6. SlotsFit(q, p)' /\ HeldFits(q, p)' /\ ResultFits(q, p)'
    BY <2>3, <2>5 DEF SlotsFit, HeldFits, ResultFits
  <2>7. RevealsFit(q, p)'
    BY <1>2, <1>3, <2>5 DEF Fits, RevealsFit, Holds, Messages
  <2>8. AcksFit(q, p)'
    BY <2>2 DEF AcksFit
  <2>9. OffersFit(p, q)' /\ OffersFit(q, p)'
    BY <2>3 DEF OffersFit
  <2>10. QED
    BY <1>7, <1>8, <2>6, <2>7, <2>8, <2>9 DEF Fits
<1>10. CASE Trails(p, q)
  <2>1. ~ Even(q, p) /\ ~ Trails(q, p) /\ ~ Even(p, q)
    BY <1>10, Lengths DEF Even, Pair, Loop
  <2>2. pc[q] = "deciding" /\ slot[q] = {} /\ ~ Holds(inbox[q], Slots) /\ offers[p] = offers[q]
    BY <1>10 DEF Trails, Bothlive, Live
  <2>3. \A x \in Messages(inbox[q]) : x.type \notin Slots /\ x.type # "reveal" /\ x.type # "ack"
    <3>1. \A x \in Messages(inbox[q]) : x.type # "reveal" /\ x.type # "ack"
      BY <1>2, <2>1 DEF Fits, RevealsFit, AcksFit
    <3>2. QED
      BY <2>2, <3>1, HoldsMessages
  <2>4. SlotsFit(q, p)' /\ HeldFits(q, p)' /\ ResultFits(q, p)' /\ AcksFit(q, p)'
    BY <1>3, <2>2, <2>3 DEF SlotsFit, HeldFits, ResultFits, AcksFit
  <2>5. RevealsFit(q, p)'
    BY <1>2, <1>3, <2>2, <2>3 DEF Fits, RevealsFit
  <2>6. OffersFit(p, q)' /\ OffersFit(q, p)'
    BY <1>3, <2>2 DEF OffersFit
  <2>7. QED
    BY <1>7, <1>8, <2>4, <2>5, <2>6 DEF Fits
<1>11. ~ Trails(q, p)
  BY <1>4 DEF Trails
<1>12. QED
  BY <1>9, <1>10, <1>11 DEF Pair, Meet, Abreast

\* and one that ends it tells a result that the other has computed too.
LEMMA TakeAckMeet ==
  ASSUME Base, Opened, NEW p \in Peers, NEW q, q = other(p), Pair(p, q), take_ack(p)
  PROVE  Meet(p, q)' /\ Meet(q, p)'
<1>1. q \in Peers /\ q # p
  BY OtherPeer
<1>2. Rests(q)
  BY <1>1, Local DEF Base, Acts, Works
<1>3. pc[p] = "acking" /\ inbox[p] # <<>> /\ offers'[p] = offers[p] /\ Live(p)
  BY TakeAckEffect DEF Base, Live
<1>4. PICK r \in pending[p] :
        \/ /\ ends(p, error("ProtocolError")) /\ game'[p] = game[p]
        \/ /\ Head(inbox[p]) = ack_message(p, r) /\ game'[p] = r.game
           /\ \/ \E v \in r.verdict : ends(p, v)
              \/ /\ r.verdict = {} /\ pc'[p] = "deciding" /\ inbox' = taken(p)
                 /\ slot'[p] = {} /\ verdict'[p] = verdict[p]
  BY TakeAckEffect DEF Base
<1>5. /\ verdict'[q] = verdict[q] /\ pc'[q] = pc[q] /\ pending'[q] = pending[q]
      /\ (Live(q)' <=> Live(q))
  BY <1>2 DEF Rests, Live
<1>6. pending[p] = {r} /\ Outcome(p, r) /\ slot[p] # {} /\ verdict[p] = {}
  BY <1>3 DEF Pair, Loop, One, Revealed
<1>7. CASE ends(p, error("ProtocolError")) /\ game'[p] = game[p]
  <2>1. verdict'[p] = {error("ProtocolError")}
    BY <1>1, <1>7, EndEffect DEF Base
  <2>2. error("ProtocolError") \in Errors'
    BY ErrorKinds DEF Errors
  <2>3. Told(p, q)'
    BY <2>1, <2>2 DEF Told
  <2>4. QED
    BY <1>2, <1>7, <2>3, EndMeet
<1>8. CASE /\ Head(inbox[p]) = ack_message(p, r) /\ game'[p] = r.game
           /\ \E v \in r.verdict : ends(p, v)
  <2>1. PICK v \in r.verdict : ends(p, v)
    BY <1>8
  <2>2. /\ pc'[p] = "over" /\ verdict'[p] = {v} /\ inbox'[p] = <<>> /\ slot'[p] = {}
        /\ inbox'[q] = inbox[q] /\ r.verdict = {v}
    BY <1>1, <1>6, <2>1, EndEffect DEF Base, Outcome, One
  <2>3. ~ Live(p)' /\ ~ Holds(inbox'[p], Slots)
    BY <2>2, EmptyBox DEF Live
  <2>4. /\ Abreast(p, q)' /\ Abreast(q, p)' /\ Orderly(p, q)' /\ Orderly(q, p)'
        /\ Even(p, q) /\ Live(q) => pc[q] = "acking" /\ r \in pending[q]
    BY <1>2, <1>3, <1>8, <2>2, <2>3, Confirmed
  <2>5. Live(q) => Even(p, q)
    <3>1. ~ Trails(q, p)
      BY <1>3 DEF Trails, Live
    <3>2. Live(q) => ~ Trails(p, q)
      BY <1>3, <2>2 DEF Trails, Bothlive
    <3>3. QED
      BY <3>1, <3>2 DEF Pair, Meet, Abreast
  <2>6. Told(p, q)'
    <3>1. Live(q) => pc[q] = "acking" /\ pending[q] = {r}
      BY <2>4, <2>5 DEF Pair, Loop, One
    <3>2. QED
      BY <1>5, <1>8, <2>2, <3>1 DEF Told
  <2>7. Told(q, p)'
    BY <2>3 DEF Told
  <2>8. QED
    BY <2>3, <2>4, <2>6, <2>7 DEF Meet, Bothlive
<1>9. CASE /\ Head(inbox[p]) = ack_message(p, r) /\ game'[p] = r.game
           /\ r.verdict = {} /\ pc'[p] = "deciding" /\ inbox' = taken(p)
           /\ slot'[p] = {} /\ verdict'[p] = verdict[p]
  <2>1. inbox'[p] = Tail(inbox[p]) /\ inbox'[q] = inbox[q]
    BY <1>1, <1>9 DEF Base, Domains, taken
  <2>2. /\ ~ Holds(inbox'[p], {"reveal", "ack"})
        /\ Holds(inbox'[p], Slots) => Holds(inbox[p], Slots)
    <3>1. IsBox(inbox[p]) /\ AckIsLast(inbox[p])
      BY DEF Base, SInv, Boxes
    <3>2. Head(inbox[p]).type = "ack"
      BY <1>9 DEF ack_message
    <3>3. QED
      BY <1>3, <2>1, <3>1, <3>2, TakenBox DEF Exchange
  <2>3. Extended(game[p], r.game) /\ Live(p)'
    BY <1>6, <1>9 DEF Outcome, Live
  <2>4. Trails(p, q) \/ Even(p, q)
    BY <1>3 DEF Pair, Meet, Abreast, Trails, Live
  <2>5. Told(q, p)'
    <3>1. \A v \in verdict[q] : v \in Errors
      BY <1>3, <1>6, <1>9, SMTT(30) DEF Pair, Meet, Told
    <3>2. QED
      BY <1>5, <3>1 DEF Told, Errors
  <2>6. Told(p, q)'
    BY <1>6, <1>9 DEF Told
  <2>7. CASE Even(p, q)
    <3>1. ~ Holds(inbox'[p], Slots)
      BY <1>6, <2>2, <2>7 DEF Pair, Meet, Orderly
    <3>2. /\ Abreast(p, q)' /\ Abreast(q, p)' /\ Orderly(p, q)' /\ Orderly(q, p)'
          /\ Trails(q, p)'
      BY <1>2, <1>3, <1>9, <2>1, <2>3, <2>7, <3>1, Confirmed
    <3>3. ~ Trails(p, q)
      BY <2>7, Lengths DEF Pair, Loop
    <3>4. Live(q) => Fits(p, q)' /\ Fits(q, p)'
      BY <1>2, <1>3, <1>9, <2>1, <2>2, <3>1, <3>2, <3>3, NextPhaseFits DEF Bothlive
    <3>5. QED
      BY <1>5, <2>5, <2>6, <3>2, <3>4 DEF Meet, Bothlive
  <2>8. CASE Trails(p, q)
    <3>1. Even(p, q)' /\ Even(q, p)' /\ slot'[q] = {}
      BY <1>2, <1>3, <1>6, <1>9, <2>8 DEF Trails, Even, Rests
    <3>2. Abreast(p, q)' /\ Abreast(q, p)' /\ Orderly(p, q)' /\ Orderly(q, p)'
      BY <1>9, <3>1 DEF Abreast, Orderly
    <3>3. ~ Even(p, q)
      BY <2>8, Lengths DEF Pair, Loop
    <3>4. Live(q) => Fits(p, q)' /\ Fits(q, p)'
      BY <1>2, <1>3, <1>9, <2>1, <2>2, <3>1, <3>3, NextPhaseFits DEF Bothlive
    <3>5. QED
      BY <1>5, <2>5, <2>6, <3>2, <3>4 DEF Meet, Bothlive
  <2>9. QED
    BY <2>4, <2>7, <2>8
<1>10. QED
  BY <1>4, <1>7, <1>8, <1>9

-----------------------------------------------------------------------------
(***************************************************************************)
(* The inductive invariant.                                                *)
(***************************************************************************)
AInv ==
  /\ Base /\ Opened
  /\ \A p \in Peers : Loop(p) /\ Sound(p) /\ Meet(p, other(p))

\* The invariant speaks of every pair in both directions.
LEMMA PairOf ==
  ASSUME AInv, NEW p \in Peers, NEW q, q = other(p)
  PROVE  q \in Peers /\ q # p /\ p = other(q) /\ Pair(p, q) /\ Pair(q, p)
BY OtherPeer DEF AInv, Pair

\* Both loops fit before anything was sent.
LEMMA InitAInv == Init => AInv
<1> SUFFICES ASSUME Init PROVE AInv
  OBVIOUS
<1>1. Base
  BY InitSInv DEF Base, Domains, Init
<1>2. ASSUME NEW p \in Peers PROVE Meet(p, other(p))
  <2>1. PICK q \in Peers : q = other(p)
    BY OtherPeer
  <2>2. \A r \in {p, q} : /\ pc[r] = "start" /\ inbox[r] = <<>> /\ game[r] = <<>>
                          /\ offers[r] = {} /\ slot[r] = {} /\ verdict[r] = {}
    BY DEF Init
  <2>3. Messages(inbox[p]) = {} /\ OneReveal(inbox[p])
    BY <2>2, EmptyMessages
  <2>4. Fits(p, q)
    BY <2>2, <2>3 DEF Fits, SlotsFit, HeldFits, RevealsFit, AcksFit, ResultFits, OffersFit, Even
  <2>5. QED
    BY <2>1, <2>2, <2>4 DEF Meet, Abreast, Even, Orderly, Told
<1>3. QED
  BY <1>1, <1>2, OpenedStart, LoopStart DEF AInv

\* Every step of one peer keeps the fit with the other.
LEMMA ActsMeet ==
  ASSUME DecisionsAreTimed, Base, Opened, NEW p \in Peers, NEW q, q = other(p), Pair(p, q), Acts(p)
  PROVE  Meet(p, q)' /\ Meet(q, p)'
BY ActionCases, ChatMeet, DecideMeet, TakeSlotMeet, RevealMeet, TakeRevealMeet, TakeAckMeet, StopMeet

\* Every step keeps the invariant,
LEMMA NextAInv ==
  ASSUME DecisionsAreTimed, OneOutcome, AInv, Next
  PROVE  AInv'
<1>1. DecisionsAreSlots
  BY DEF DecisionsAreTimed, DecisionsAreSlots
<1>2. SInv'
  BY <1>1, NextSInv DEF AInv, Base
<1>3. CASE sever
  <2>1. Domains' /\ conf' = conf
    BY <1>3, CutEffect, BaseBoxes DEF AInv, Base
  <2>2. Base'
    BY <1>2, <2>1 DEF AInv, Base
  <2>3. Opened'
    BY <1>3, OpenedCut DEF AInv
  <2>4. \A p \in Peers : Loop(p)' /\ Sound(p)'
    BY <1>3, LoopCut DEF AInv
  <2>5. \A p \in Peers : Meet(p, other(p))'
    BY <1>3, CutMeet, PairOf DEF AInv
  <2>6. QED
    BY <2>2, <2>3, <2>4, <2>5 DEF AInv
<1>4. CASE \E p \in Peers : Acts(p)
  <2>1. PICK p \in Peers : Acts(p)
    BY <1>4
  <2>2. PICK q : q = other(p)
    OBVIOUS
  <2>3. q \in Peers /\ q # p /\ p = other(q) /\ Pair(p, q) /\ Pair(q, p)
    BY <2>2, PairOf
  <2>4. \A r \in Peers : r = p \/ r = q
    BY <2>2, OtherPeer
  <2>5. Base /\ Opened /\ Loop(p) /\ Loop(q) /\ Sound(p) /\ Sound(q)
    BY <2>3 DEF AInv
  <2>6. Domains' /\ Rests(q)
    BY <2>1, <2>3, <2>5, Local DEF Base
  <2>7. Base'
    BY <1>2, <2>5, <2>6 DEF Base, Rests
  <2>8. Opened'
    <3>1. Bothlive(p, q)' => Greeted(p, q)' /\ Greeted(q, p)'
      BY <2>1, <2>2, <2>5, OpenedStep
    <3>2. QED
      BY <2>2, <2>3, <2>4, <3>1 DEF Opened, Bothlive
  <2>9. Loop(p)' /\ Loop(q)'
    BY <1>1, <2>1, <2>2, <2>5, <2>6, LoopStep, LoopRests
  <2>10. Sound(p)' /\ Sound(q)'
    BY <2>1, <2>2, <2>5, SoundStep
  <2>11. Meet(p, q)' /\ Meet(q, p)'
    BY <2>1, <2>2, <2>3, <2>5, ActsMeet
  <2>12. \A r \in Peers : Meet(r, other(r))'
    BY <2>2, <2>3, <2>4, <2>11
  <2>13. QED
    BY <2>4, <2>7, <2>8, <2>9, <2>10, <2>12 DEF AInv
<1>5. QED
  BY <1>3, <1>4 DEF Next, Acts

\* and so does a stutter.
LEMMA StutterAInv ==
  ASSUME AInv, UNCHANGED vars
  PROVE  AInv'
<1>1. UNCHANGED <<conf, pc, inbox, cut, color, game, banks, offers, choice, slot, pending, verdict>>
  BY DEF vars
<1>2. Base'
  <2>1. SInv'
    BY StutterKeeps DEF AInv, Base
  <2>2. QED
    BY <1>1, <2>1 DEF AInv, Base, Domains
<1>3. Opened'
  BY <1>1 DEF AInv, Opened, Bothlive, Live, Greeted, Past
<1>4. ASSUME NEW p \in Peers PROVE Loop(p)' /\ Sound(p)' /\ Quiet(p)
  <2>1. Rests(p) /\ Loop(p)
    BY <1>1 DEF Rests, AInv
  <2>2. Loop(p)'
    BY <2>1, LoopRests
  <2>3. Sound(p)'
    BY <1>1 DEF AInv, Sound
  <2>4. Quiet(p)
    BY <1>1 DEF Quiet, Keeping
  <2>5. QED
    BY <2>2, <2>3, <2>4
<1>5. ASSUME NEW p \in Peers PROVE Meet(p, other(p))'
  BY <1>4, PairOf, QuietMeet
<1>6. QED
  BY <1>2, <1>3, <1>4, <1>5 DEF AInv

\* Whatever two peers decide, lose or give up, both loops stay in fit with each
\* other.
THEOREM SessionAgrees ==
  ASSUME DecisionsAreTimed, OneOutcome
  PROVE  Spec => []AInv
<1>1. AInv /\ [Next]_vars => AInv'
  BY NextAInv, StutterAInv
<1>2. QED
  BY InitAInv, <1>1, PTL DEF Spec

-----------------------------------------------------------------------------
(***************************************************************************)
(* The refinement of Promise.                                              *)
(***************************************************************************)
Result(v) == v \notin Errors

\* A peer that is told a result is told what the other was.
LEMMA ToldAlike ==
  ASSUME AInv, NEW p \in Peers, NEW q, q = other(p), Stops(p), NEW v, ends(p, v), Result(v),
         NEW w \in verdict[q], Result(w)
  PROVE  v = w /\ Even(p, q)
<1>1. q \in Peers /\ q # p /\ Pair(p, q) /\ Domains
  BY PairOf DEF AInv, Base
<1>2. verdict'[p] = {v}
  BY <1>1, EndEffect
<1>3. \A u : ends(p, u) => u = v
  BY <1>1, <1>2, EndEffect
<1>4. Live(p) /\ Told(q, p)
  BY <1>1, StopEffect DEF Pair, Meet
<1>5. CASE /\ pc[p] = "deciding"
           /\ \E d \in choice[p], m \in slot[p] : \E u \in slots_verdict(p, d, m) : ends(p, u)
  <2>1. PICK d \in choice[p], m \in slot[p] : v \in slots_verdict(p, d, m)
    BY <1>3, <1>5
  <2>2. m.type \in Slots
    BY <1>1 DEF Pair, Loop
  <2>3. slots_verdict(p, d, m) \subseteq {w} \cup Errors /\ Even(p, q)
    BY <1>4, <1>5, <2>2 DEF Told, Result
  <2>4. QED
    BY <2>1, <2>3 DEF Result
<1>6. CASE /\ pc[p] = "revealing" /\ inbox[p] # <<>>
           /\ \E d \in choice[p], s \in slot[p] :
                /\ ~ spoiled(p, d, Head(inbox[p]), s)
                /\ \E u \in adjudicate_legality(p, d, Head(inbox[p])) : ends(p, u)
  <2>1. PICK m : m = Head(inbox[p])
    OBVIOUS
  <2>2. PICK d \in choice[p] : m.type = "reveal" /\ v \in adjudicate_legality(p, d, m)
    BY <1>3, <1>6, <2>1 DEF spoiled
  <2>3. m \in Messages(inbox[p])
    BY <1>6, <2>1, BaseBoxes, TakenMessages DEF AInv
  <2>4. adjudicate_legality(p, d, m) = {w} /\ Even(p, q)
    BY <1>4, <1>6, <2>2, <2>3 DEF Told, Result
  <2>5. QED
    BY <2>2, <2>4
<1>7. ~ \E e \in Errors : ends(p, e)
  BY <1>3 DEF Result
<1>8. QED
  BY <1>1, <1>5, <1>6, <1>7, StopEffect

\* One more phase is the one the other has seen, or a new one.
LEMMA PhaseAlike ==
  ASSUME AInv, NEW p \in Peers, NEW q, q = other(p), pc[p] = "acking", NEW r \in pending[p],
         Extended(game[p], r.game)
  PROVE  /\ Len(game[q]) >= Len(game[p])
         /\ Len(game[q]) > Len(game[p]) => game[q][Len(r.game)] = r.game[Len(r.game)]
<1>1. Pair(p, q) /\ Live(p)
  BY PairOf DEF Live
<1>2. ~ Trails(q, p)
  BY <1>1 DEF Trails
<1>3. IsBox(game[p]) /\ Len(game[p]) \in Nat
  BY <1>1, LongerGame DEF Pair, Loop
<1>4. CASE Even(p, q)
  BY <1>3, <1>4 DEF Even
<1>5. CASE Trails(p, q)
  <2>1. r.game = game[q]
    BY <1>1, <1>5 DEF Trails
  <2>2. Len(r.game) = Len(game[p]) + 1
    BY <1>3, LongerGame DEF Extended
  <2>3. QED
    BY <1>3, <2>1, <2>2
<1>6. QED
  BY <1>1, <1>2, <1>4, <1>5 DEF Pair, Meet, Abreast

\* Each step of a peer is a step of Promise, or leaves games and verdicts alone.
LEMMA ActsPromise ==
  ASSUME DecisionsAreTimed, AInv, NEW p \in Peers, Acts(p)
  PROVE  Abstract!Step(p) \/ UNCHANGED <<game, verdict>>
<1>1. PICK q : q = other(p)
  OBVIOUS
<1>2. /\ q \in Peers /\ q # p /\ Pair(p, q) /\ Domains /\ Base
      /\ Abstract!others(p) = {q}
  BY <1>1, PairOf, OtherPeer DEF AInv, Base, Abstract!others
<1>3. ASSUME NEW v, ends(p, v),
             Result(v) => \A w \in verdict[q] : Result(w) => v = w /\ game[q] = game'[p]
      PROVE  Abstract!Tells(p)
  <2>1. verdict' = [verdict EXCEPT ![p] = {v}] /\ verdict'[p] = {v}
    BY <1>2, <1>3 DEF ends, Domains
  <2>2. One(verdict[q])
    BY <1>2 DEF Pair, Loop
  <2>3. ASSUME Abstract!results(verdict[q]) # {}, Abstract!results(verdict'[p]) # {}
        PROVE  verdict[q] = verdict'[p] /\ game[q] = game'[p]
    <3>1. Result(v)
      BY <2>1, <2>3 DEF Abstract!results, Result
    <3>2. PICK w \in verdict[q] : Result(w)
      BY <2>3 DEF Abstract!results, Result
    <3>3. verdict[q] = {w}
      BY <2>2 DEF One
    <3>4. QED
      BY <1>3, <2>1, <3>1, <3>2, <3>3
  <2>4. QED
    BY <1>2, <2>1, <2>3 DEF Abstract!Tells
<1>4. Live(p) => verdict[p] = {}
  BY <1>2 DEF Pair, Loop
<1>5. CASE Chats(p) \/ decide(p) \/ take_slot(p) \/ reveal(p) \/ take_reveal(p)
  BY <1>5 DEF Chats, greet, take_handshake, measure, ping, answer_ping, skip_pong, decide,
              take_slot, reveal, take_reveal, standings, settled
<1>6. CASE Stops(p)
  <2>1. Live(p) /\ \E v : ends(p, v)
    BY <1>2, <1>6, StopEffect
  <2>2. UNCHANGED game
    BY <1>6 DEF Stops, reject_handshake, close_match, forfeit, give_up, reject_time, hear_end,
                standings
  <2>3. PICK v : ends(p, v)
    BY <2>1
  <2>4. Result(v) => \A w \in verdict[q] : Result(w) => v = w /\ game[q] = game'[p]
    BY <1>1, <1>6, <2>2, <2>3, ToldAlike DEF Even
  <2>5. QED
    BY <1>3, <1>4, <2>1, <2>2, <2>3, <2>4 DEF Abstract!Step
<1>7. CASE take_ack(p)
  <2>1. pc[p] = "acking" /\ Live(p)
    BY <1>7 DEF take_ack, Live
  <2>2. PICK r \in pending[p] :
          \/ ends(p, error("ProtocolError")) /\ UNCHANGED game
          \/ /\ game' = [game EXCEPT ![p] = r.game]
             /\ (\E v \in r.verdict : ends(p, v)) \/ (r.verdict = {} /\ UNCHANGED verdict)
    BY <1>7 DEF take_ack
  <2>3. Outcome(p, r) /\ Told(q, p)
    BY <1>2 DEF Pair, Loop, Meet
  <2>4. CASE ends(p, error("ProtocolError")) /\ UNCHANGED game
    <3>1. ~ Result(error("ProtocolError"))
      BY ErrorKinds DEF Result
    <3>2. QED
      BY <1>3, <1>4, <2>1, <2>4, <3>1 DEF Abstract!Step
  <2>5. CASE game' = [game EXCEPT ![p] = r.game]
    <3>1. game'[p] = r.game
      BY <1>2, <2>5 DEF Domains
    <3>2. Extended(game[p], r.game) => Abstract!Extends(p)
      <4>1. SUFFICES ASSUME Extended(game[p], r.game) PROVE Abstract!Extends(p)
        OBVIOUS
      <4>2. /\ Len(game[q]) >= Len(game[p])
            /\ Len(game[q]) > Len(game[p]) => game[q][Len(r.game)] = r.game[Len(r.game)]
        BY <1>1, <2>1, <4>1, PhaseAlike
      <4>3. r.game # <<>> /\ r.game = Append(game[p], r.game[Len(r.game)])
        BY <4>1 DEF Extended
      <4>4. game' = [game EXCEPT ![p] = Append(game[p], game'[p][Len(game'[p])])]
        BY <2>5, <3>1, <4>3
      <4>5. QED
        BY <1>2, <3>1, <4>2, <4>3, <4>4 DEF Abstract!Extends
    <3>3. CASE \E v \in r.verdict : ends(p, v)
      <4>1. PICK v \in r.verdict : ends(p, v)
        BY <3>3
      <4>2. ASSUME NEW w \in verdict[q], Result(w) PROVE v = w /\ game[q] = game'[p]
        BY <2>1, <2>3, <3>1, <4>1, <4>2 DEF Told, Result
      <4>3. Abstract!Tells(p)
        BY <1>3, <4>1, <4>2
      <4>4. r.game = game[p] => UNCHANGED game
        BY <1>2, <2>5 DEF Domains
      <4>5. Abstract!Extends(p) \/ UNCHANGED game
        BY <2>3, <3>2, <4>4 DEF Outcome
      <4>6. QED
        BY <1>4, <2>1, <4>3, <4>5 DEF Abstract!Step
    <3>4. CASE r.verdict = {} /\ UNCHANGED verdict
      BY <1>4, <2>1, <2>3, <3>2, <3>4 DEF Abstract!Step, Outcome
    <3>5. CASE ends(p, error("ProtocolError")) /\ UNCHANGED game
      BY <2>4, <3>5
    <3>6. QED
      BY <2>2, <3>3, <3>4, <3>5
  <2>6. QED
    BY <2>2, <2>4, <2>5
<1>8. QED
  BY <1>5, <1>6, <1>7, ActionCases

\* An online match keeps what Promise states, for any two peers, settings,
\* players, faults and losses: both see one game, in one order, at most a phase
\* apart, and are told one result of it.
THEOREM SessionKeepsPromise ==
  ASSUME DecisionsAreTimed, OneOutcome
  PROVE  Spec => Promised
<1>1. Init => Abstract!Init
  BY DEF Init, Abstract!Init
<1>2. AInv /\ [Next]_vars => [Abstract!Next]_(Abstract!vars)
  <2>1. SUFFICES ASSUME AInv, [Next]_vars
                 PROVE  Abstract!Next \/ UNCHANGED <<game, verdict>>
    BY DEF Abstract!vars
  <2>2. CASE sever
    BY <2>2 DEF sever, standings, settled
  <2>3. CASE \E p \in Peers : Acts(p)
    BY <2>1, <2>3, ActsPromise DEF Abstract!Next
  <2>4. CASE UNCHANGED vars
    BY <2>4 DEF vars
  <2>5. QED
    BY <2>1, <2>2, <2>3, <2>4 DEF Next, Acts
<1>3. QED
  BY <1>1, <1>2, SessionAgrees, PTL DEF Spec, Promised, Abstract!Spec

-----------------------------------------------------------------------------
(***************************************************************************)
(* What a match may come to.                                               *)
(***************************************************************************)
\* phi ends a match in one of its own ways.
OutcomesOfPhi ==
  \A g : Terminal(g) \subseteq [outcome : {"white_wins", "black_wins", "draw"},
                                reason : {"regicide", "repetition", "no_progress"}]

-----------------------------------------------------------------------------
(***************************************************************************)
(* The types of the loop's own variables.                                  *)
(***************************************************************************)
Stages == {"start", "greeting", "measuring", "deciding", "revealing", "acking", "over"}
Typed ==
  /\ pc \in [Peers -> Stages]
  /\ faults \in 0..MaxFaults
  /\ round \in [Peers -> 0..Rounds]
  /\ color \in [Peers -> Color]
  /\ offers \in [Peers -> SUBSET Peers]
  /\ \A p \in Peers : /\ pc[p] \in {"start", "greeting"} => round[p] = 0
                      /\ pc[p] = "measuring" => round[p] < Rounds

\* A colour is settled whatever the other proposed.
LEMMA ColoursAreColours ==
  ASSUME NEW a, NEW b, a.proposed_color \in Color, NEW c \in negotiate_color(a, b)
  PROVE  c \in Color
BY OpponentDiffers DEF negotiate_color

\* The end of a match changes nothing of these but where the loop stands.
LEMMA TypedEnds ==
  ASSUME Typed, NEW p \in Peers, NEW v, ends(p, v), faults' \in 0..MaxFaults,
         UNCHANGED <<round, color, offers>>
  PROVE  Typed'
BY DEF Typed, Stages, ends

\* Every step of a peer,
LEMMA TypedStep ==
  ASSUME Typed, Base, NEW p \in Peers, Acts(p)
  PROVE  Typed'
<1> USE DEF terms, settled, standings
<1>1. CASE greet(p)
  BY <1>1 DEF Typed, Stages, greet
<1>2. CASE reject_handshake(p)
  BY <1>2, TypedEnds DEF Typed, reject_handshake
<1>3. CASE take_handshake(p)
  <2>1. PICK c \in negotiate_color(to_message(conf[p]), message(p)) :
          color' = [color EXCEPT ![p] = c]
    BY <1>3 DEF take_handshake
  <2>2. to_message(conf[p]).proposed_color \in Color
    BY SettingsAssumption DEF Base, to_message
  <2>3. c \in Color
    BY <2>2, ColoursAreColours
  <2>4. /\ pc[p] = "greeting" /\ UNCHANGED <<faults, round, offers>>
        /\ pc' = [pc EXCEPT ![p] = IF timed(p) THEN "measuring" ELSE "deciding"]
    BY <1>3 DEF take_handshake
  <2>5. 0 < Rounds
    BY BoundsAssumption
  <2>6. QED
    BY <2>1, <2>3, <2>4, <2>5 DEF Typed, Stages
<1>4. CASE measure(p)
  <2> DEFINE mine == message(p).type = "pong" /\ message(p).seq = {round[p]}
             next == round[p] + 1
  <2>1. /\ pc[p] = "measuring" /\ UNCHANGED <<faults, color, offers>>
        /\ round' = [round EXCEPT ![p] = IF mine THEN next ELSE @]
        /\ pc' = [pc EXCEPT ![p] = IF mine /\ next = Rounds THEN "deciding" ELSE @]
    BY <1>4 DEF measure
  <2>2. Rounds \in Nat
    BY BoundsAssumption
  <2> HIDE DEF mine
  <2>3. round[p] \in 0..Rounds /\ round[p] < Rounds
    BY <2>1 DEF Typed
  <2>4. next \in 0..Rounds /\ (next # Rounds => next < Rounds)
    BY <2>2, <2>3
  <2>5. QED
    BY <2>1, <2>2, <2>3, <2>4 DEF Typed, Stages
<1>5. CASE answer_ping(p) \/ skip_pong(p) \/ ping(p) \/ take_slot(p) \/ decide(p)
  BY <1>5 DEF Typed, answer_ping, skip_pong, ping, take_slot, decide
<1>6. CASE close_match(p)
  BY <1>6, TypedEnds DEF Typed, close_match
<1>7. CASE reveal(p)
  <2>1. PICK d, m : offers' = [offers EXCEPT ![p] = offers_of(p, d, m)]
    BY <1>7 DEF reveal
  <2>2. offers_of(p, d, m) \subseteq Peers
    BY DEF offers_of
  <2>3. QED
    BY <1>7, <2>1, <2>2 DEF reveal, Typed, Stages
<1>8. CASE forfeit(p)
  <2>1. PICK v : ends(p, v)
    BY <1>8 DEF forfeit
  <2>2. QED
    BY <1>8, <2>1, TypedEnds DEF forfeit, Typed
<1>9. CASE take_reveal(p)
  BY <1>9 DEF Typed, Stages, take_reveal
<1>10. CASE take_ack(p)
  <2>1. UNCHANGED <<faults, round, color, offers>>
    BY <1>10 DEF take_ack
  <2>2. pc[p] = "acking" /\ ((\E v : ends(p, v)) \/ pc' = [pc EXCEPT ![p] = "deciding"])
    BY <1>10 DEF take_ack
  <2>3. CASE \E v : ends(p, v)
    BY <2>1, <2>3, TypedEnds DEF Typed
  <2>4. CASE pc' = [pc EXCEPT ![p] = "deciding"]
    BY <2>1, <2>4 DEF Typed, Stages
  <2>5. QED
    BY <2>2, <2>3, <2>4
<1>11. CASE hear_end(p)
  BY <1>11, TypedEnds DEF hear_end, Typed
<1>12. CASE give_up(p) \/ reject_time(p)
  <2>1. faults < MaxFaults /\ faults' = faults + 1 /\ UNCHANGED <<round, color, offers>>
    BY <1>12 DEF give_up, reject_time
  <2>2. faults' \in 0..MaxFaults
    BY <2>1, BoundsAssumption DEF Typed
  <2>3. \E v : ends(p, v)
    BY <1>12 DEF give_up, reject_time
  <2>4. QED
    BY <2>1, <2>2, <2>3, TypedEnds
<1>13. QED
  BY <1>1, <1>2, <1>3, <1>4, <1>5, <1>6, <1>7, <1>8, <1>9, <1>10, <1>11, <1>12 DEF Acts, Works

\* a cut,
LEMMA TypedCut ==
  ASSUME Typed, sever
  PROVE  Typed'
<1>1. faults < MaxFaults /\ faults' = faults + 1 /\ UNCHANGED <<pc, round, color, offers>>
  BY DEF sever, standings
<1>2. faults' \in 0..MaxFaults
  BY <1>1, BoundsAssumption DEF Typed
<1>3. QED
  BY <1>1, <1>2 DEF Typed

\* and the start leave the variables of the loops typed.
LEMMA TypedStart == Init => Typed
<1> SUFFICES ASSUME Init PROVE Typed
  OBVIOUS
<1>1. \A p \in Peers : conf[p].color \in Color
  BY SettingsAssumption DEF Init
<1>2. Rounds \in Nat /\ MaxFaults \in Nat
  BY BoundsAssumption
<1>3. QED
  BY <1>1, <1>2 DEF Init, Typed, Stages

-----------------------------------------------------------------------------
(***************************************************************************)
(* Play ends at the phase limit, and every end is an error or a result.    *)
(***************************************************************************)
Limits(p) ==
  /\ phase(p) <= conf[p].terms.max_phases
  /\ Live(p) => phase(p) < conf[p].terms.max_phases
  /\ ~ Live(p) => verdict[p] # {}
  /\ verdict[p] \subseteq Errors \cup Results
  /\ \A r \in pending[p] :
       /\ Len(r.game) <= conf[p].terms.max_phases
       /\ r.verdict = {} => Len(r.game) < conf[p].terms.max_phases
       /\ r.verdict \subseteq Results

\* Results other than those of the clock.
Timely == {v \in Results : v.reason # "timeout"}

\* What is no error is a result, and none of these is a loss on time.
LEMMA ErrorsOrResults ==
  /\ \A v \in Errors : v.reason # "timeout" /\ v \notin Results
  /\ \A c \in Color : wins(c) \in {"white_wins", "black_wins"}
BY DEF Errors, Results, Mismatch, wins

\* Every result of a match is one of Results.
LEMMA ResultKinds ==
  ASSUME NEW o \in {"white_wins", "black_wins", "draw"},
         NEW r \in {"regicide", "repetition", "no_progress", "resignation", "timeout",
                    "illegal_program", "abort", "draw_agreement", "phase_limit"}
  PROVE  result(o, r) \in Results /\ (r # "timeout" => result(o, r) \in Timely)
BY DEF result, Results, Timely

\* Two slots, or two programs, are no loss on time.
LEMMA SlotsAreTimely ==
  ASSUME NEW p, NEW d, NEW m
  PROVE  slots_verdict(p, d, m) \subseteq Timely \cup Errors
<1> DEFINE A == p \in offers[p]
           B == other(p) \in offers[p]
<1>1. \A c : wins(c) \in {"white_wins", "black_wins"}
  BY DEF wins
<1>2. error("ProtocolError") \in Errors
  BY ErrorKinds
<1>3. ASSUME NEW l, NEW r, NEW c, NEW a, NEW b
      PROVE  resolve_slots(l, r, c, a, b) \subseteq Timely \cup Errors
  <2>1. result("draw", "abort") \in Timely /\ result("draw", "draw_agreement") \in Timely
    BY ResultKinds
  <2>2. \A o \in {"white_wins", "black_wins", "draw"} : result(o, "resignation") \in Timely
    BY ResultKinds
  <2>3. \A x, y \in {"white_wins", "black_wins", "draw"} :
          (IF l = r THEN "draw" ELSE IF l = "resign" THEN x ELSE y)
            \in {"white_wins", "black_wins", "draw"}
    OBVIOUS
  <2>4. resolve_slots(l, r, c, a, b)
          \in {{}, {result("draw", "abort")}, {result("draw", "draw_agreement")},
               {error("ProtocolError")},
               {result(IF l = r THEN "draw" ELSE IF l = "resign" THEN wins(opponent(c))
                       ELSE wins(c), "resignation")}}
    BY DEF resolve_slots
  <2>5. result(IF l = r THEN "draw" ELSE IF l = "resign" THEN wins(opponent(c))
               ELSE wins(c), "resignation") \in Timely
    BY <1>1, <2>2, <2>3
  <2>6. QED
    BY <1>2, <2>1, <2>4, <2>5
<1>4. resolve_slots(d.kind, m.type, color[p], A, B) \subseteq Timely \cup Errors
  BY <1>3
<1>5. QED
  BY <1>2, <1>4 DEF slots_verdict

\* A judgement of legality is no loss on time.
LEMMA JudgementsAreTimely ==
  ASSUME NEW p, NEW d, NEW m
  PROVE  adjudicate_legality(p, d, m) \subseteq Timely
<1>1. \A o \in {"white_wins", "black_wins", "draw"} : result(o, "illegal_program") \in Timely
  BY ResultKinds
<1>2. \A c : wins(c) \in {"white_wins", "black_wins", "draw"}
  BY DEF wins
<1>3. QED
  BY <1>1, <1>2 DEF adjudicate_legality

\* A match that does not end with what was computed ends in time.
LEMMA StopsInTime ==
  ASSUME Domains, NEW p \in Peers, Stops(p)
  PROVE  \E v \in Timely \cup Errors : ends(p, v)
BY StopEffect, SlotsAreTimely, JudgementsAreTimely

\* What is computed is within the limit, and below it if play goes on.
LEMMA ComputedLimits ==
  ASSUME OutcomesOfPhi, Base, NEW p \in Peers, Loop(p), Limits(p), Live(p), NEW d, NEW m
  PROVE  LET r == computed(p, d, m)
         IN  /\ Len(r.game) <= conf[p].terms.max_phases
             /\ r.verdict = {} => Len(r.game) < conf[p].terms.max_phases
             /\ r.verdict \subseteq Results
             /\ fallen(p, d, m) = {} => r.verdict \subseteq Timely
<1> DEFINE r == computed(p, d, m)
           played == Append(game[p], [programs |-> by_color(p, d.program, m.program),
                                      clock    |-> ledger(p, d, m)])
           max == conf[p].terms.max_phases
<1>1. max \in Nat
  BY SettingsAssumption DEF Base
<1>2. Len(game[p]) < max /\ Len(game[p]) \in Nat /\ Len(played) = Len(game[p]) + 1
  BY LongerGame DEF Limits, phase, Loop
<1>3. CASE fallen(p, d, m) # {}
  <2> DEFINE o == IF fallen(p, d, m) = Color THEN "draw"
                  ELSE wins(CHOOSE c \in Color : c \notin fallen(p, d, m))
  <2>1. r.game = game[p] /\ r.verdict = {result(o, "timeout")}
    BY <1>3 DEF computed
  <2>2. \A c : wins(c) \in {"white_wins", "black_wins", "draw"}
    BY DEF wins
  <2>3. result(o, "timeout") \in Results
    BY <2>2, ResultKinds
  <2> HIDE DEF o, r, max
  <2>4. Len(r.game) <= max /\ r.verdict # {} /\ r.verdict \subseteq Results
    BY <1>1, <1>2, <2>1, <2>3
  <2>5. QED
    BY <1>3, <2>4 DEF r, max
<1>4. CASE fallen(p, d, m) = {}
  <2>1. r.game = played /\ r.verdict = IF Terminal(played) # {} THEN Terminal(played)
                                       ELSE limit(p, Len(played))
    BY <1>4 DEF computed
  <2>2. Terminal(played) \subseteq Timely
    BY DEF OutcomesOfPhi, Timely, Results
  <2>3. limit(p, Len(played)) = IF Len(played) = max THEN {result("draw", "phase_limit")} ELSE {}
    BY DEF limit
  <2>4. result("draw", "phase_limit") \in Timely
    BY ResultKinds
  <2> HIDE DEF r, played, max
  <2>5. r.verdict \subseteq Timely /\ (r.verdict = {} => Len(r.game) < max) /\ Len(r.game) <= max
    <3>1. Len(r.game) = Len(game[p]) + 1
      BY <1>2, <2>1
    <3>2. r.verdict \subseteq Timely
      BY <2>1, <2>2, <2>3, <2>4
    <3>3. r.verdict = {} => Len(r.game) # max
      BY <2>1, <2>3
    <3>4. QED
      BY <1>1, <1>2, <3>1, <3>2, <3>3
  <2>6. Timely \subseteq Results
    BY DEF Timely
  <2>7. QED
    BY <2>5, <2>6 DEF r, max
<1>5. QED
  BY <1>3, <1>4

-----------------------------------------------------------------------------
(***************************************************************************)
(* What a step does to a peer's accounts: nothing, a computation, an end   *)
(* without one, or what was computed taking effect.                        *)
(***************************************************************************)
Stays(p) ==
  /\ Live(p) /\ Live(p)'
  /\ game'[p] = game[p] /\ banks'[p] = banks[p] /\ pending'[p] = pending[p]
  /\ verdict'[p] = verdict[p]
Computes(p) ==
  /\ Live(p) /\ Live(p)'
  /\ game'[p] = game[p] /\ banks'[p] = banks[p] /\ verdict'[p] = verdict[p]
  /\ \E d \in choice[p] : \E m, s : /\ ~ spoiled(p, d, m, s) /\ m.elapsed \subseteq Nat
                                     /\ pending'[p] = {computed(p, d, m)}
Leaves(p) ==
  /\ Live(p) /\ ~ Live(p)'
  /\ game'[p] = game[p] /\ banks'[p] = banks[p] /\ pending'[p] = {}
  /\ \E v \in Timely \cup Errors : verdict'[p] = {v}
Settles(p) ==
  /\ Live(p)
  /\ \E r \in pending[p] :
       /\ game'[p] = r.game /\ banks'[p] = {e.after : e \in r.ledger} /\ pending'[p] = {}
       /\ \/ \E v \in r.verdict : verdict'[p] = {v} /\ ~ Live(p)'
          \/ r.verdict = {} /\ verdict'[p] = verdict[p] /\ Live(p)'

\* A step stays in the phase, computes it, leaves the match or settles the phase.
LEMMA StepKinds ==
  ASSUME DecisionsAreTimed, Base, NEW p \in Peers, Acts(p), Sound(p)
  PROVE  Stays(p) \/ Computes(p) \/ Leaves(p) \/ Settles(p)
<1>1. PICK q \in Peers : q = other(p) /\ q # p
  BY OtherPeer
<1> USE DEF Base
<1>2. ASSUME NEW v, ends(p, v)
      PROVE  verdict'[p] = {v} /\ ~ Live(p)' /\ pending'[p] = {}
  BY <1>1, <1>2, EndEffect DEF Live
<1>3. CASE Chats(p)
  <2>1. Keeping(p) /\ Live(p) /\ (pc'[p] = pc[p] \/ pc'[p] \in {"greeting", "measuring", "deciding"})
    BY <1>1, <1>3, ChatEffect
  <2>2. Stays(p)
    BY <2>1 DEF Keeping, Stays, Live
  <2>3. QED
    BY <2>2
<1>4. CASE decide(p) \/ take_slot(p) \/ reveal(p)
  <2>1. Stays(p)
    BY <1>1, <1>4, DecideEffect, TakeSlotEffect, RevealEffect DEF Stays, Live
  <2>2. QED
    BY <2>1
<1>5. CASE take_reveal(p)
  <2>1. /\ pc[p] = "revealing" /\ pc'[p] = "acking" /\ inbox[p] # <<>>
        /\ game'[p] = game[p] /\ banks'[p] = banks[p] /\ verdict'[p] = verdict[p]
    BY <1>1, <1>5, TakeRevealEffect
  <2>2. PICK m : m = Head(inbox[p])
    OBVIOUS
  <2>3. PICK d \in choice[p], s \in slot[p] :
          acceptable(p, d, m, s) /\ pending'[p] = {computed(p, d, m)}
    BY <1>1, <1>5, <2>2, TakeRevealEffect
  <2>4. ~ spoiled(p, d, m, s)
    BY <2>3 DEF acceptable
  <2>5. m \in Messages(inbox[p]) /\ m.type = "reveal"
    BY <2>1, <2>2, <2>4, TakenMessages, BaseBoxes DEF spoiled
  <2>6. m.elapsed \subseteq Nat
    BY <2>5 DEF Sound
  <2>7. Computes(p)
    BY <2>1, <2>3, <2>4, <2>6 DEF Computes, Live
  <2>8. QED
    BY <2>7
<1>6. CASE take_ack(p)
  <2>1. Live(p)
    BY <1>1, <1>6, TakeAckEffect DEF Live
  <2>2. PICK r \in pending[p] :
          \/ /\ ends(p, error("ProtocolError"))
             /\ game'[p] = game[p] /\ banks'[p] = banks[p]
          \/ /\ game'[p] = r.game /\ banks'[p] = {e.after : e \in r.ledger}
             /\ \/ \E v \in r.verdict : ends(p, v)
                \/ /\ r.verdict = {} /\ pc'[p] = "deciding"
                   /\ pending'[p] = {} /\ verdict'[p] = verdict[p]
    BY <1>1, <1>6, TakeAckEffect
  <2>3. CASE ends(p, error("ProtocolError")) /\ game'[p] = game[p] /\ banks'[p] = banks[p]
    <3>1. error("ProtocolError") \in Errors
      BY ErrorKinds
    <3>2. Leaves(p)
      BY <1>2, <2>1, <2>3, <3>1 DEF Leaves
    <3>3. QED
      BY <3>2
  <2>4. CASE /\ game'[p] = r.game /\ banks'[p] = {e.after : e \in r.ledger}
             /\ \/ \E v \in r.verdict : ends(p, v)
                \/ /\ r.verdict = {} /\ pc'[p] = "deciding"
                   /\ pending'[p] = {} /\ verdict'[p] = verdict[p]
    <3>1. \/ /\ \E v \in r.verdict : verdict'[p] = {v} /\ ~ Live(p)'
             /\ pending'[p] = {}
          \/ r.verdict = {} /\ verdict'[p] = verdict[p] /\ Live(p)' /\ pending'[p] = {}
      BY <1>2, <2>4 DEF Live
    <3>2. Settles(p)
      BY <2>1, <2>4, <3>1 DEF Settles
    <3>3. QED
      BY <3>2
  <2>5. QED
    BY <2>2, <2>3, <2>4
<1>7. CASE Stops(p)
  <2>1. PICK v \in Timely \cup Errors : ends(p, v)
    BY <1>7, StopsInTime
  <2>2. game'[p] = game[p] /\ banks'[p] = banks[p] /\ Live(p)
    BY <1>7, StopEffect
  <2>3. Leaves(p)
    BY <1>2, <2>1, <2>2 DEF Leaves
  <2>4. QED
    BY <2>3
<1>8. QED
  BY <1>3, <1>4, <1>5, <1>6, <1>7, ActionCases

\* A step takes no game past its limit.
LEMMA LimitsStep ==
  ASSUME DecisionsAreTimed, OutcomesOfPhi, Base, NEW p \in Peers, Acts(p), Loop(p), Sound(p),
         Limits(p), conf' = conf
  PROVE  Limits(p)'
<1> DEFINE max == conf[p].terms.max_phases
<1>1. max \in Nat /\ max' = max
  BY SettingsAssumption DEF Base
<1>2. Timely \cup Errors \subseteq Errors \cup Results
  BY DEF Timely
<1>3. CASE Stays(p)
  BY <1>3 DEF Stays, Limits, phase
<1>4. CASE Computes(p)
  <2>1. PICK d, m : pending'[p] = {computed(p, d, m)}
    BY <1>4 DEF Computes
  <2>2. PICK r : r = computed(p, d, m)
    OBVIOUS
  <2>3. Len(r.game) <= max /\ (r.verdict = {} => Len(r.game) < max) /\ r.verdict \subseteq Results
    BY <1>4, <2>2, ComputedLimits DEF Computes
  <2>4. QED
    BY <1>1, <1>4, <2>1, <2>2, <2>3 DEF Computes, Limits, phase
<1>5. CASE Leaves(p)
  BY <1>1, <1>2, <1>5 DEF Leaves, Limits, phase
<1>6. CASE Settles(p)
  <2>1. PICK r \in pending[p] :
          /\ game'[p] = r.game /\ pending'[p] = {}
          /\ \/ \E v \in r.verdict : verdict'[p] = {v} /\ ~ Live(p)'
             \/ r.verdict = {} /\ verdict'[p] = verdict[p] /\ Live(p)'
    BY <1>6 DEF Settles
  <2>2. Len(r.game) <= max /\ (r.verdict = {} => Len(r.game) < max) /\ r.verdict \subseteq Results
    BY DEF Limits
  <2>3. QED
    BY <1>1, <2>1, <2>2 DEF Limits, phase
<1>7. QED
  BY <1>3, <1>4, <1>5, <1>6, StepKinds

-----------------------------------------------------------------------------
(***************************************************************************)
(* C4 and C5 along the whole match.                                        *)
(***************************************************************************)
\* A bank that holds time is spent by the fall of a flag alone, and a fall
\* leaves no time.
Booked(tc, b, vs) ==
  /\ tc.initial_bank > 0 => \A c \in Color :
       b[c] > 0 \/ \E v \in vs : v.reason = "timeout" /\ v.outcome # wins(c)
  /\ \A v \in vs : v.reason = "timeout" => \E c \in Color : b[c] <= 0

\* A bonus is the faster player's alone and no more than the time it saved.
FairEntry(tc, e) ==
  \A c \in Color : e.bonus[c] > 0 =>
    /\ e.bonus[opponent(c)] = 0 /\ e.think[c] < e.think[opponent(c)]
    /\ tc.bonus_rule # "winner_take_all" => e.bonus[c] <= e.think[opponent(c)] - e.think[c]
FairGame(tc, g) == \A i \in DOMAIN g : \A e \in g[i].clock : FairEntry(tc, e)

Accounts(p) ==
  \A tc \in conf[p].clock :
    /\ \A b \in banks[p] : Booked(tc, b, verdict[p])
    /\ FairGame(tc, game[p])
    /\ \A r \in pending[p] :
         FairGame(tc, r.game) /\ \A e \in r.ledger : Booked(tc, e.after, r.verdict)

\* A phase is added whose ledger is fair.
LEMMA LongerFair ==
  ASSUME NEW tc, NEW g, IsBox(g), FairGame(tc, g), NEW x, \A e \in x.clock : FairEntry(tc, e)
  PROVE  FairGame(tc, Append(g, x))
<1>1. PICK S : g \in Seq(S)
  BY DEF IsBox
<1>2. g \in Seq(S \cup {x})
  BY <1>1
<1> DEFINE h == Append(g, x)
<1>3. /\ Len(g) \in Nat /\ DOMAIN g = 1..Len(g) /\ DOMAIN h = 1..(Len(g) + 1)
      /\ \A i \in 1..Len(g) : h[i] = g[i]
      /\ h[Len(g) + 1] = x
  BY <1>2
<1> HIDE DEF h
<1>4. SUFFICES ASSUME NEW i \in DOMAIN h, NEW e \in h[i].clock
               PROVE  FairEntry(tc, e)
  BY DEF FairGame, h
<1>5. i \in 1..Len(g) \/ i = Len(g) + 1
  BY <1>3
<1>6. QED
  BY <1>3, <1>5 DEF FairGame

\* The row of a phase is fair, and leaves time to whoever did not fall.
LEMMA FairRow ==
  ASSUME NEW tc \in TimeControl, NEW b \in [Color -> Int], NEW t \in [Color -> Nat], NEW n
  PROVE  FairEntry(tc, clock_entry(b, tc, t, n))
<1> DEFINE e == clock_entry(b, tc, t, n)
<1>1. e.think = t /\ e.bonus = earned(b, tc, t)
  BY DEF clock_entry
<1> HIDE DEF e
<1>2. SUFFICES FairEntry(tc, e)
  BY DEF e
<1>3. QED
  BY <1>1, BonusIsEarned DEF FairEntry

\* Whoever falls does not win, and somebody else does unless both fall.
LEMMA LoserFalls ==
  ASSUME NEW F, F # {}, F \subseteq Color, NEW c \in F
  PROVE  (IF F = Color THEN "draw" ELSE wins(CHOOSE x \in Color : x \notin F)) # wins(c)
<1>1. CASE F = Color
  BY <1>1 DEF wins
<1>2. CASE F # Color
  <2>1. PICK x : x = CHOOSE y \in Color : y \notin F
    OBVIOUS
  <2>2. x \in Color /\ x \notin F
    BY <1>2, <2>1
  <2>3. wins(x) # wins(c)
    BY <2>2 DEF wins, Color
  <2>4. QED
    BY <1>2, <2>1, <2>3
<1>3. QED
  BY <1>1, <1>2

\* What is computed keeps the accounts.
LEMMA ComputedAccounts ==
  ASSUME OutcomesOfPhi, Base, NEW p \in Peers, Loop(p), Limits(p), Live(p),
         NEW d \in choice[p], NEW m, NEW s, ~ spoiled(p, d, m, s), m.elapsed \subseteq Nat,
         NEW tc \in conf[p].clock, FairGame(tc, game[p])
  PROVE  LET r == computed(p, d, m)
         IN  FairGame(tc, r.game) /\ \A e \in r.ledger : Booked(tc, e.after, r.verdict)
<1>1. tc = control(p) /\ tc \in TimeControl /\ timed(p)
  BY SettingsAssumption DEF Base, control, timed
<1>2. d.elapsed \subseteq Nat /\ d.elapsed # {} /\ m.elapsed # {}
  BY <1>1 DEF spoiled, Loop, Proper
<1>3. PICK T : T = times(p, d, m) /\ T \in [Color -> Nat]
  BY <1>2, TimesKnown
<1>4. \A x \in ledger(p, d, m) : \E b \in banks[p] : x = clock_entry(b, tc, T, phase(p))
  BY <1>1, <1>3 DEF ledger
<1>5. \A b \in banks[p] : b \in [Color -> Int]
  BY DEF Loop
<1>6. \A x \in ledger(p, d, m) : FairEntry(tc, x)
  BY <1>1, <1>3, <1>4, <1>5, FairRow
<1>7. PICK F : F = fallen(p, d, m)
  OBVIOUS
<1>8. F \subseteq Color
  BY <1>7 DEF fallen, flagged
<1>9. \A x \in ledger(p, d, m) : \A c \in Color : x.after[c] \in Int /\ (x.after[c] <= 0 <=> c \in F)
  <2>1. SUFFICES ASSUME NEW x \in ledger(p, d, m), NEW c \in Color
                 PROVE  x.after[c] \in Int /\ (x.after[c] <= 0 <=> c \in F)
    OBVIOUS
  <2>2. PICK b \in banks[p] : x = clock_entry(b, tc, T, phase(p))
    BY <1>4
  <2>3. x.after = banks_after(b, tc, T)
    BY <2>2 DEF clock_entry
  <2>4. x.after[c] \in Int /\ (x.after[c] <= 0 <=> c \in flagged(b, T))
    BY <1>1, <1>3, <1>5, <2>3, FallenIffEmpty
  <2>5. banks[p] = {b}
    BY DEF Loop, One
  <2>6. F = flagged(b, T)
    BY <1>3, <1>7, <2>5 DEF fallen
  <2>7. QED
    BY <2>4, <2>6
<1> DEFINE r == computed(p, d, m)
<1>10. r.ledger = ledger(p, d, m)
  BY DEF computed
<1>11. CASE F # {}
  <2> DEFINE o == IF F = Color THEN "draw" ELSE wins(CHOOSE c \in Color : c \notin F)
  <2>1. r.game = game[p] /\ r.verdict = {result(o, "timeout")}
    BY <1>7, <1>11 DEF computed
  <2>2. PICK v : v = result(o, "timeout") /\ v.reason = "timeout" /\ v.outcome = o
    <3>1. \A x : result(x, "timeout").reason = "timeout" /\ result(x, "timeout").outcome = x
      BY DEF result
    <3> HIDE DEF o
    <3>2. QED
      BY <3>1
  <2>3. \A c \in F : o # wins(c)
    BY <1>8, <1>11, LoserFalls
  <2> HIDE DEF r, o
  <2>4. ASSUME NEW e \in r.ledger PROVE Booked(tc, e.after, r.verdict)
    <3>1. \A c \in Color : e.after[c] > 0 \/ v.outcome # wins(c)
      BY <1>9, <1>10, <2>2, <2>3
    <3>2. \E c \in Color : e.after[c] <= 0
      BY <1>8, <1>9, <1>10, <1>11
    <3>3. QED
      BY <2>1, <2>2, <3>1, <3>2 DEF Booked
  <2>5. QED
    BY <2>1, <2>4 DEF r
<1>12. CASE F = {}
  <2>1. r.game = Append(game[p], [programs |-> by_color(p, d.program, m.program),
                                  clock    |-> ledger(p, d, m)])
    BY <1>7, <1>12 DEF computed
  <2>2. PICK x : x = [programs |-> by_color(p, d.program, m.program),
                      clock    |-> ledger(p, d, m)]
    OBVIOUS
  <2>3. FairGame(tc, Append(game[p], x))
    <3>1. x.clock = ledger(p, d, m)
      BY <2>2
    <3>2. QED
      BY <1>6, <3>1, LongerFair DEF Loop
  <2>4. r.verdict \subseteq Timely
    BY <1>7, <1>12, ComputedLimits
  <2>5. \A v \in r.verdict : v.reason # "timeout"
    BY <2>4 DEF Timely
  <2> HIDE DEF r
  <2>6. ASSUME NEW e \in r.ledger PROVE Booked(tc, e.after, r.verdict)
    <3>1. \A c \in Color : e.after[c] > 0
      BY <1>9, <1>10, <1>12
    <3>2. QED
      BY <2>5, <3>1 DEF Booked
  <2>7. QED
    BY <2>1, <2>2, <2>3, <2>6 DEF r
<1>13. QED
  BY <1>11, <1>12

\* A step takes no bank out of its account.
LEMMA AccountsStep ==
  ASSUME DecisionsAreTimed, OutcomesOfPhi, Base, NEW p \in Peers, Acts(p), Loop(p), Sound(p),
         Limits(p), Accounts(p), conf' = conf
  PROVE  Accounts(p)'
<1>1. \A v \in Timely \cup Errors : v.reason # "timeout"
  BY ErrorsOrResults DEF Timely
<1>2. SUFFICES ASSUME NEW tc \in conf[p].clock
               PROVE  /\ \A b \in banks'[p] : Booked(tc, b, verdict'[p])
                      /\ FairGame(tc, game'[p])
                      /\ \A r \in pending'[p] :
                           FairGame(tc, r.game) /\ \A e \in r.ledger : Booked(tc, e.after, r.verdict)
  BY DEF Accounts, Booked, FairGame, FairEntry
<1>3. /\ \A b \in banks[p] : Booked(tc, b, verdict[p])
      /\ FairGame(tc, game[p])
      /\ \A r \in pending[p] :
           FairGame(tc, r.game) /\ \A e \in r.ledger : Booked(tc, e.after, r.verdict)
  BY DEF Accounts
<1>4. CASE Stays(p)
  BY <1>3, <1>4 DEF Stays
<1>5. CASE Computes(p)
  <2>1. PICK d, m, s : /\ d \in choice[p] /\ ~ spoiled(p, d, m, s) /\ m.elapsed \subseteq Nat
                                     /\ pending'[p] = {computed(p, d, m)}
    BY <1>5 DEF Computes
  <2>2. PICK r : r = computed(p, d, m)
    OBVIOUS
  <2>3. FairGame(tc, r.game) /\ \A e \in r.ledger : Booked(tc, e.after, r.verdict)
    BY <1>3, <1>5, <2>1, <2>2, ComputedAccounts DEF Computes
  <2>4. QED
    BY <1>3, <1>5, <2>1, <2>2, <2>3 DEF Computes
<1>6. CASE Leaves(p)
  <2>1. PICK v \in Timely \cup Errors : verdict'[p] = {v}
    BY <1>6 DEF Leaves
  <2>2. verdict[p] = {}
    BY <1>6 DEF Leaves, Loop
  <2>3. \A b : Booked(tc, b, {}) => Booked(tc, b, {v})
    BY <1>1 DEF Booked
  <2>4. QED
    BY <1>3, <1>6, <2>1, <2>2, <2>3 DEF Leaves
<1>7. CASE Settles(p)
  <2>1. PICK r \in pending[p] :
          /\ game'[p] = r.game /\ banks'[p] = {e.after : e \in r.ledger} /\ pending'[p] = {}
          /\ \/ \E v \in r.verdict : verdict'[p] = {v}
             \/ r.verdict = {} /\ verdict'[p] = verdict[p]
    BY <1>7 DEF Settles
  <2>2. verdict[p] = {} /\ One(r.verdict)
    BY <1>7 DEF Settles, Loop, Outcome
  <2>3. verdict'[p] = r.verdict
    BY <2>1, <2>2 DEF One
  <2>4. QED
    BY <1>3, <2>1, <2>3
<1>8. QED
  BY <1>4, <1>5, <1>6, <1>7, StepKinds

\* Everything is still to be spent at the start.
LEMMA AccountsStart ==
  ASSUME Init, NEW p \in Peers
  PROVE  Limits(p) /\ Accounts(p)
<1>1. /\ pc[p] = "start" /\ game[p] = <<>> /\ verdict[p] = {} /\ pending[p] = {}
      /\ banks[p] = {initial_banks(tc) : tc \in conf[p].clock} /\ conf \in Settings
  BY DEF Init
<1>2. /\ conf[p].terms.max_phases \in Nat \ {0}
      /\ conf[p].clock \subseteq TimeControl /\ One(conf[p].clock)
  BY <1>1, SettingsAssumption DEF One
<1>3. Len(<<>>) = 0 /\ DOMAIN <<>> = {}
  OBVIOUS
<1>4. Limits(p)
  BY <1>1, <1>2, <1>3 DEF Limits, Live, phase
<1>5. ASSUME NEW tc \in conf[p].clock, NEW b \in banks[p]
      PROVE  Booked(tc, b, verdict[p])
  <2>1. b = initial_banks(tc)
    BY <1>1, <1>2 DEF One
  <2>2. \A c \in Color : b[c] = tc.initial_bank
    BY <2>1 DEF initial_banks
  <2>3. QED
    BY <1>1, <2>2 DEF Booked
<1>6. Accounts(p)
  BY <1>1, <1>3, <1>5 DEF Accounts, FairGame
<1>7. QED
  BY <1>4, <1>6

\* The accounts of a peer are its own.
LEMMA AccountsRest ==
  ASSUME NEW p, Limits(p), Accounts(p), conf' = conf, pc'[p] = pc[p], game'[p] = game[p],
         banks'[p] = banks[p], pending'[p] = pending[p], verdict'[p] = verdict[p]
  PROVE  Limits(p)' /\ Accounts(p)'
<1>1. Limits(p)'
  BY DEF Limits, Live, phase
<1>2. Accounts(p)'
  BY DEF Accounts, Booked, FairGame, FairEntry
<1>3. QED
  BY <1>1, <1>2

\* The inductive invariant beside AInv.
Kept == Typed /\ \A p \in Peers : Limits(p) /\ Accounts(p)

\* The accounts are in order at the start.
LEMMA InitKept == Init => Kept
BY TypedStart, AccountsStart DEF Kept

\* Every step keeps them.
LEMMA NextKept ==
  ASSUME DecisionsAreTimed, OutcomesOfPhi, AInv, Kept, [Next]_vars
  PROVE  Kept'
<1> USE DEF AInv, Kept
<1>1. CASE sever
  <2>1. UNCHANGED <<conf, pc, game, banks, pending, verdict>>
    BY <1>1, CutEffect, BaseBoxes DEF Base
  <2>2. QED
    BY <1>1, <2>1, TypedCut, AccountsRest
<1>2. CASE \E p \in Peers : Acts(p)
  <2>1. PICK p \in Peers : Acts(p)
    BY <1>2
  <2>2. PICK q \in Peers : q = other(p) /\ q # p /\ \A r \in Peers : r = p \/ r = q
    BY OtherPeer
  <2>3. Rests(q)
    BY <2>1, <2>2, Local DEF Base
  <2>4. Limits(q)' /\ Accounts(q)'
    BY <2>2, <2>3, AccountsRest DEF Rests
  <2>5. Limits(p)' /\ Accounts(p)'
    BY <2>1, <2>3, LimitsStep, AccountsStep DEF Rests
  <2>6. Typed'
    BY <2>1, TypedStep
  <2>7. QED
    BY <2>2, <2>4, <2>5, <2>6
<1>3. CASE UNCHANGED vars
  <2>1. Typed'
    BY <1>3 DEF vars, Typed
  <2>2. \A p \in Peers : Limits(p)' /\ Accounts(p)'
    BY <1>3, AccountsRest DEF vars
  <2>3. QED
    BY <2>1, <2>2
<1>4. QED
  BY <1>1, <1>2, <1>3 DEF Next, Acts

\* Whatever is decided, lost or given up, every loop is well typed and stops at
\* the phase limit, and both copies of the clock are kept.
THEOREM SessionKeepsAccounts ==
  ASSUME DecisionsAreTimed, OneOutcome, OutcomesOfPhi
  PROVE  Spec => []Kept
<1>1. AInv /\ Kept /\ [Next]_vars => Kept'
  BY NextKept
<1>2. Spec => []AInv
  BY SessionAgrees
<1>3. QED
  BY InitKept, <1>1, <1>2, PTL DEF Spec

\* A peer's loop has the types its handlers expect: it has closed exactly when a
\* verdict is there, holds a choice and a slot whenever it reveals or acks,
\* something computed exactly while it waits for an ack, and no game runs past
\* the phase limit.
THEOREM SessionTyped ==
  ASSUME DecisionsAreTimed, OneOutcome, OutcomesOfPhi
  PROVE  Spec => []TypeOK
<1>1. ASSUME AInv, Kept, NEW p \in Peers
      PROVE  /\ verdict[p] \subseteq Errors \cup Results
             /\ pc[p] = "over" <=> verdict[p] # {}
             /\ phase(p) <= conf[p].terms.max_phases
             /\ pc[p] \in {"revealing", "acking"} => choice[p] # {} /\ slot[p] # {}
             /\ pc[p] = "acking" <=> pending[p] # {}
  <2>1. Loop(p) /\ Limits(p)
    BY <1>1 DEF AInv, Kept
  <2>2. QED
    BY <2>1 DEF Loop, Limits, Live, Revealed
<1>2. AInv /\ Kept => TypeOK
  BY <1>1 DEF Kept, Typed, Stages, TypeOK
<1>3. Spec => []AInv
  BY SessionAgrees
<1>4. Spec => []Kept
  BY SessionKeepsAccounts
<1>5. QED
  BY <1>2, <1>3, <1>4, PTL

\* C4 and C5, in every timed match: time is left to both while play goes on,
\* whoever loses on time has none left and a winner has some, and a phase pays a
\* bonus to the faster player alone and, but for the rule that pays it whole,
\* never more than the time it saved.
THEOREM SessionClock ==
  ASSUME DecisionsAreTimed, OneOutcome, OutcomesOfPhi
  PROVE  Spec => []TimeAccounts
<1>1. Kept => TimeAccounts
  BY DEF Kept, Accounts, Booked, FairGame, FairEntry, TimeAccounts
<1>2. Spec => []Kept
  BY SessionKeepsAccounts
<1>3. QED
  BY <1>1, <1>2, PTL

-----------------------------------------------------------------------------
(***************************************************************************)
(* Who may come to a result.                                               *)
(***************************************************************************)
\* The handshakes of the two agree, and tell their colours apart.
Matched(p, q) ==
  /\ disagreeing(to_message(conf[p]), to_message(conf[q])) = {}
  /\ negotiate_color(to_message(conf[p]), to_message(conf[q])) # {}

\* What a peer hears first is the other's handshake, even of one that has closed.
First(p) ==
  ~ Past(p) /\ inbox[p] # <<>> => Head(inbox[p]) = to_message(conf[other(p)])
\* Whoever is past the handshake, or was told a result, has a match.
Engaged(p) ==
  (Live(p) /\ Past(p)) \/ verdict[p] \cap Results # {} => Matched(p, other(p))
\* A timed peer waits for numbered pongs that the untimed one never sends, so it
\* sends no slot, without which the untimed one comes to no result either.
Apart(p, q) ==
  timed(p) /\ ~ timed(q) =>
    /\ pc[p] \in {"start", "greeting", "measuring", "over"}
    /\ pc[q] \in {"start", "greeting", "deciding", "over"}
    /\ slot[q] = {}
    /\ \A m \in Messages(inbox[p]) : m.type = "pong" => m.seq = {}
    /\ \A m \in Messages(inbox[q]) : m.type \notin Slots
    /\ verdict[p] \subseteq Errors /\ verdict[q] \subseteq Errors

\* A peer that closes says nothing more.
LEMMA LastWord ==
  ASSUME DecisionsAreTimed, Base, NEW p \in Peers, NEW q, q = other(p), Acts(p)
  PROVE  /\ Live(p)
         /\ ~ Live(p)' => inbox'[q] = inbox[q] /\ inbox'[p] = <<>>
         /\ Live(p)' => \E new : Deals(p, q, new)
         /\ Past(p)' \/ greet(p)
<1>1. q \in Peers /\ q # p
  BY OtherPeer
<1> USE DEF Base, Live, Past
<1>2. ASSUME NEW v, ends(p, v)
      PROVE  ~ Live(p)' /\ inbox'[q] = inbox[q] /\ inbox'[p] = <<>> /\ Past(p)'
  BY <1>1, <1>2, EndEffect
<1>3. CASE Chats(p)
  <2>1. /\ \E m : Deals(p, q, {m})
        /\ Live(p)
        /\ pc'[p] = pc[p] \/ pc'[p] \in {"greeting", "measuring", "deciding"}
        /\ greet(p) \/ take_handshake(p) \/ pc'[p] \notin {"start", "greeting"}
    BY <1>3, ChatEffect
  <2>2. take_handshake(p) => pc'[p] \in {"measuring", "deciding"}
    BY DEF take_handshake, Domains
  <2>3. QED
    BY <2>1, <2>2
<1>4. CASE decide(p) \/ take_slot(p) \/ reveal(p) \/ take_reveal(p)
  BY <1>4, DecideEffect, TakeSlotEffect, RevealEffect, TakeRevealEffect
<1>5. CASE take_ack(p)
  <2>1. pc[p] = "acking" /\ ((\E v : ends(p, v)) \/ (pc'[p] = "deciding" /\ Deals(p, q, {})))
    BY <1>5, TakeAckEffect
  <2>2. QED
    BY <1>2, <2>1
<1>6. CASE Stops(p)
  <2>1. Live(p) /\ \E v : ends(p, v)
    BY <1>6, StopEffect
  <2>2. QED
    BY <1>2, <2>1
<1>7. QED
  BY <1>3, <1>4, <1>5, <1>6, ActionCases

\* A greeting stays the first message until it is taken.
LEMMA FirstStep ==
  ASSUME DecisionsAreTimed, AInv, AInv', NEW p \in Peers, NEW q, q = other(p), Acts(p),
         First(p), First(q)
  PROVE  First(p)' /\ First(q)'
<1>1. q \in Peers /\ q # p /\ p = other(q)
  BY OtherPeer
<1>2. Base /\ Opened'
  BY DEF AInv
<1>3. Rests(q)
  BY <1>1, <1>2, Local DEF Base
<1>4. Bothlive(p, q)' => Greeted(p, q)' /\ Greeted(q, p)'
  BY <1>1, <1>2 DEF Opened, Bothlive
<1>5. /\ Live(p)
      /\ ~ Live(p)' => inbox'[q] = inbox[q] /\ inbox'[p] = <<>>
      /\ Past(p)' \/ greet(p)
  BY <1>2, LastWord
<1>6. First(p)'
  <2>1. SUFFICES ASSUME greet(p) PROVE First(p)'
    BY <1>5 DEF First
  <2>2. inbox'[p] = inbox[p] /\ ~ Past(p)
    BY <1>1, <1>2, <2>1 DEF greet, post, Past, Base, Domains
  <2>3. QED
    BY <1>3, <2>2 DEF First, Rests
<1>7. First(q)'
  <2>1. SUFFICES ASSUME ~ Past(q)' PROVE First(q)'
    BY DEF First
  <2>2. ~ Past(q) /\ Live(q)'
    BY <1>3, <2>1 DEF Past, Live, Rests
  <2>3. CASE Live(p)'
    BY <1>1, <1>4, <2>1, <2>2, <2>3 DEF Bothlive, Greeted, First
  <2>4. CASE ~ Live(p)'
    BY <1>1, <1>3, <1>5, <2>2, <2>4 DEF First, Rests
  <2>5. QED
    BY <2>3, <2>4
<1>8. QED
  BY <1>6, <1>7

\* A peer enters a match only past a greeting that fits.
LEMMA EngagedStep ==
  ASSUME DecisionsAreTimed, Base, NEW p \in Peers, NEW q, q = other(p), Acts(p), Loop(p),
         First(p), Engaged(p), conf' = conf
  PROVE  Engaged(p)'
<1>1. Live(p)
  BY LastWord
<1> USE DEF Base
<1>2. SUFFICES ASSUME (Live(p) /\ Past(p))' \/ verdict'[p] \cap Results # {}, ~ Past(p)
               PROVE  Matched(p, q)
  BY <1>1 DEF Engaged, Matched
<1>3. verdict[p] = {}
  BY <1>1 DEF Loop
<1>4. pc[p] \in {"start", "greeting"}
  BY <1>2 DEF Past
<1>5. take_handshake(p)
  <2>1. CASE greet(p)
    <3>1. ~ Past(p)' /\ verdict'[p] = {}
      BY <1>3, <2>1 DEF greet, settled, Past, Domains
    <3>2. QED
      BY <1>2, <3>1
  <2>2. CASE Chats(p) /\ ~ greet(p)
    BY <1>4, <2>2, ChatEffect
  <2>3. CASE Stops(p)
    <3>1. PICK e \in Errors : ends(p, e)
      BY <1>4, <2>3, StopEffect
    <3>2. verdict'[p] = {e} /\ ~ Live(p)'
      BY <3>1, OtherPeer, EndEffect DEF Live
    <3>3. QED
      BY <1>2, <3>2, ErrorsOrResults
  <2>4. CASE decide(p) \/ take_slot(p) \/ reveal(p) \/ take_reveal(p) \/ take_ack(p)
    BY <1>4, <2>4, DecideEffect, TakeSlotEffect, RevealEffect, TakeRevealEffect, TakeAckEffect
  <2>5. QED
    BY <2>1, <2>2, <2>3, <2>4, ActionCases
<1>6. /\ inbox[p] # <<>> /\ objections(p) = {} /\ message(p) = Head(inbox[p])
      /\ \E c : c \in negotiate_color(to_message(conf[p]), message(p))
  BY <1>5 DEF take_handshake, arrived, message
<1>7. message(p) = to_message(conf[q])
  BY <1>2, <1>6 DEF First
<1>8. disagreeing(to_message(conf[p]), to_message(conf[q])) = {}
  BY <1>6, <1>7, NoMismatch DEF objections
<1>9. QED
  BY <1>6, <1>7, <1>8 DEF Matched

\* The timed peer never gets past the measurement,
LEMMA ApartTimed ==
  ASSUME DecisionsAreTimed, Base, NEW p \in Peers, NEW q, q = other(p), Acts(p), Rests(q),
         timed(p), ~ timed(q), Apart(p, q)
  PROVE  Apart(p, q)'
<1>1. q \in Peers /\ q # p
  BY OtherPeer
<1> USE DEF Base
<1>2. /\ pc[p] \in {"start", "greeting", "measuring", "over"}
      /\ \A m \in Messages(inbox[p]) : m.type = "pong" => m.seq = {}
      /\ \A m \in Messages(inbox[q]) : m.type \notin Slots
      /\ verdict[p] \subseteq Errors
  BY DEF Apart
<1>3. SUFFICES /\ pc'[p] \in {"start", "greeting", "measuring", "over"}
               /\ \A m \in Messages(inbox'[p]) : m.type = "pong" => m.seq = {}
               /\ \A m \in Messages(inbox'[q]) : m.type \notin Slots
               /\ verdict'[p] \subseteq Errors
  BY DEF Apart, Rests
<1>4. CASE Chats(p)
  <2>1. /\ \E m : m.type \in Chat /\ Deals(p, q, {m})
        /\ verdict'[p] = verdict[p]
    BY <1>4, ChatEffect DEF Keeping
  <2>2. PICK m : m.type \in Chat /\ Deals(p, q, {m})
    BY <2>1
  <2>3. /\ Messages(inbox'[p]) \subseteq Messages(inbox[p])
        /\ Messages(inbox'[q]) \subseteq Messages(inbox[q]) \cup {m}
    BY <1>1, <2>2, AfterDeal, BaseBoxes
  <2>4. m.type \notin Slots
    BY <2>2 DEF Chat, Slots
  <2>5. pc'[p] \in {"start", "greeting", "measuring", "over"}
    <3>1. CASE greet(p) \/ take_handshake(p)
      BY <3>1 DEF greet, take_handshake, Domains
    <3>2. CASE measure(p)
      <4>1. arrived(p) /\ message(p) \in Messages(inbox[p])
        BY <3>2, TakenMessages, BaseBoxes DEF measure, arrived, message
      <4>2. ~ (message(p).type = "pong" /\ message(p).seq = {round[p]})
        BY <1>2, <4>1
      <4>3. QED
        BY <3>2, <4>2 DEF measure, Domains
    <3>3. CASE ping(p) \/ answer_ping(p) \/ skip_pong(p)
      BY <1>2, <3>3 DEF ping, answer_ping, skip_pong, Listening
    <3>4. QED
      BY <1>4, <3>1, <3>2, <3>3 DEF Chats
  <2>6. QED
    BY <1>2, <2>1, <2>3, <2>4, <2>5
<1>5. CASE Stops(p)
  <2>1. PICK e \in Errors : ends(p, e)
    BY <1>2, <1>5, StopEffect
  <2>2. pc'[p] = "over" /\ verdict'[p] = {e} /\ inbox'[p] = <<>> /\ inbox'[q] = inbox[q]
    BY <1>1, <2>1, EndEffect
  <2>3. QED
    BY <1>2, <2>2, EmptyMessages
<1>6. CASE decide(p) \/ take_slot(p) \/ reveal(p) \/ take_reveal(p) \/ take_ack(p)
  BY <1>2, <1>6, DecideEffect, TakeSlotEffect, RevealEffect, TakeRevealEffect, TakeAckEffect
<1>7. QED
  BY <1>4, <1>5, <1>6, ActionCases

\* for the untimed one answers no ping by its number.
LEMMA Unnumbered ==
  ASSUME Domains, NEW q \in Peers, NEW p, p = other(q), ~ timed(q), Chats(q), ~ measure(q)
  PROVE  \E m : m.type \in Chat /\ (m.type = "pong" => m.seq = {}) /\ Deals(q, p, {m})
<1> USE DEF Domains
<1>1. /\ to_message(conf[q]).type = "handshake"
      /\ keepalive("ping", {}).type = "ping"
      /\ keepalive("pong", {}).type = "pong" /\ keepalive("pong", {}).seq = {}
  BY DEF to_message, keepalive
<1>2. CASE greet(q)
  <2>1. Deals(q, p, {to_message(conf[q])})
    BY <1>2, Dealt DEF greet
  <2>2. QED
    BY <1>1, <2>1 DEF Chat
<1>3. CASE take_handshake(q) \/ skip_pong(q)
  <2>1. inbox[q] # <<>> /\ inbox' = taken(q)
    BY <1>3 DEF take_handshake, skip_pong, arrived
  <2>2. Deals(q, p, {keepalive("ping", {})})
    BY <2>1, Dealt
  <2>3. QED
    BY <1>1, <2>2 DEF Chat
<1>4. CASE ping(q)
  <2>1. Deals(q, p, {keepalive("ping", {})})
    BY <1>4, Dealt DEF ping
  <2>2. QED
    BY <1>1, <2>1 DEF Chat
<1>5. CASE answer_ping(q)
  <2>1. Deals(q, p, {keepalive("pong", {})})
    BY <1>5, Dealt DEF answer_ping, arrived
  <2>2. QED
    BY <1>1, <2>1 DEF Chat
<1>6. QED
  BY <1>2, <1>3, <1>4, <1>5 DEF Chats

\* A peer without a clock does not bring a timed one past the measurement.
LEMMA ApartUntimed ==
  ASSUME DecisionsAreTimed, Base, NEW q \in Peers, NEW p, p = other(q), Acts(q), Rests(p),
         Loop(q), timed(p), ~ timed(q), Apart(p, q)
  PROVE  Apart(p, q)'
<1>1. p \in Peers /\ p # q
  BY OtherPeer
<1> USE DEF Base
<1>2. /\ pc[q] \in {"start", "greeting", "deciding", "over"} /\ slot[q] = {}
      /\ \A m \in Messages(inbox[p]) : m.type = "pong" => m.seq = {}
      /\ \A m \in Messages(inbox[q]) : m.type \notin Slots
      /\ verdict[q] \subseteq Errors
  BY DEF Apart
<1>3. SUFFICES /\ pc'[q] \in {"start", "greeting", "deciding", "over"} /\ slot'[q] = {}
               /\ \A m \in Messages(inbox'[p]) : m.type = "pong" => m.seq = {}
               /\ \A m \in Messages(inbox'[q]) : m.type \notin Slots
               /\ verdict'[q] \subseteq Errors
  BY DEF Apart, Rests
<1>4. ASSUME NEW m, m.type = "pong" => m.seq = {}, Deals(q, p, {m})
      PROVE  /\ \A n \in Messages(inbox'[p]) : n.type = "pong" => n.seq = {}
             /\ \A n \in Messages(inbox'[q]) : n.type \notin Slots
  <2>1. /\ Messages(inbox'[q]) \subseteq Messages(inbox[q])
        /\ Messages(inbox'[p]) \subseteq Messages(inbox[p]) \cup {m}
    BY <1>1, <1>4, AfterDeal, BaseBoxes
  <2>2. QED
    BY <1>2, <1>4, <2>1
<1>5. CASE Chats(q)
  <2>1. ~ measure(q)
    BY <1>2 DEF measure
  <2>2. slot'[q] = slot[q] /\ verdict'[q] = verdict[q]
    BY <1>5, ChatEffect DEF Keeping
  <2>3. \E m : (m.type = "pong" => m.seq = {}) /\ Deals(q, p, {m})
    BY <1>5, <2>1, Unnumbered
  <2>4. pc'[q] \in {"start", "greeting", "deciding", "over"}
    <3>1. CASE greet(q) \/ take_handshake(q)
      BY <3>1 DEF greet, take_handshake, Domains
    <3>2. CASE ping(q) \/ answer_ping(q) \/ skip_pong(q)
      BY <1>2, <3>2 DEF ping, answer_ping, skip_pong, terms, settled, Domains
    <3>3. QED
      BY <1>5, <2>1, <3>1, <3>2 DEF Chats
  <2>5. QED
    BY <1>2, <1>4, <2>2, <2>3, <2>4
<1>6. CASE Stops(q)
  <2>1. PICK e \in Errors : ends(q, e)
    BY <1>2, <1>6, StopEffect
  <2>2. /\ pc'[q] = "over" /\ verdict'[q] = {e} /\ inbox'[q] = <<>> /\ inbox'[p] = inbox[p]
        /\ slot'[q] = {}
    BY <1>1, <2>1, EndEffect
  <2>3. QED
    BY <1>2, <2>2, EmptyMessages
<1>7. CASE decide(q)
  <2>1. /\ pc'[q] = "deciding" /\ slot'[q] = slot[q] /\ verdict'[q] = verdict[q]
        /\ \E d : Proper(d) /\ Deals(q, p, {slot_message(q, d)})
    BY <1>7, DecideEffect
  <2>2. PICK d : d.kind \in Slots /\ Deals(q, p, {slot_message(q, d)})
    BY <2>1 DEF Proper
  <2>3. slot_message(q, d).type # "pong"
    BY <2>2 DEF slot_message, Slots
  <2>4. QED
    BY <1>2, <1>4, <2>1, <2>2, <2>3
<1>8. CASE take_slot(q)
  BY <1>2, <1>8, TakeSlotEffect, TakenMessages, BaseBoxes
<1>9. CASE reveal(q) \/ take_reveal(q) \/ take_ack(q)
  BY <1>2, <1>9, RevealEffect, TakeRevealEffect, TakeAckEffect, ZenonT(30)
<1>10. QED
  BY <1>5, <1>6, <1>7, <1>8, <1>9, ActionCases

-----------------------------------------------------------------------------
\* The inductive invariant beside AInv.
Chosen == \A p \in Peers : First(p) /\ Engaged(p) /\ Apart(p, other(p))

\* Nobody is engaged at the start.
LEMMA InitChosen == Init => Chosen
BY OtherPeer, EmptyMessages DEF Init, Chosen, First, Engaged, Apart, Past

\* Where neither the loops nor the settings change, and of what was on its way a
\* part is left.
LEMMA ChosenRest ==
  ASSUME Chosen, UNCHANGED <<conf, pc, slot, verdict>>,
         \A r \in Peers : /\ Messages(inbox'[r]) \subseteq Messages(inbox[r])
                          /\ inbox'[r] # <<>> => inbox[r] # <<>> /\ Head(inbox'[r]) = Head(inbox[r])
  PROVE  Chosen'
<1>1. ASSUME NEW p \in Peers PROVE First(p)' /\ Engaged(p)' /\ Apart(p, other(p))'
  <2>1. First(p) /\ Engaged(p) /\ Apart(p, other(p)) /\ other(p) \in Peers
    BY OtherPeer DEF Chosen
  <2>2. First(p)'
    BY <2>1 DEF First, Past
  <2>3. Engaged(p)'
    BY <2>1 DEF Engaged, Matched, Live, Past
  <2>4. Apart(p, other(p))'
    BY <2>1 DEF Apart, timed
  <2>5. QED
    BY <2>2, <2>3, <2>4
<1>2. QED
  BY <1>1 DEF Chosen

\* Every step keeps peers that do not fit out of a match.
LEMMA NextChosen ==
  ASSUME DecisionsAreTimed, AInv, AInv', Chosen, [Next]_vars
  PROVE  Chosen'
<1>1. Base
  BY DEF AInv
<1>2. CASE sever
  BY <1>1, <1>2, CutEffect, BaseBoxes, ChosenRest DEF Base
<1>3. CASE UNCHANGED vars
  BY <1>3, ChosenRest DEF vars
<1>4. CASE \E p \in Peers : Acts(p)
  <2>1. PICK p \in Peers : Acts(p)
    BY <1>4
  <2>2. PICK q : q = other(p)
    OBVIOUS
  <2>3. q \in Peers /\ q # p /\ p = other(q) /\ \A r \in Peers : r = p \/ r = q
    BY <2>2, OtherPeer
  <2>4. Rests(q) /\ Loop(p)
    BY <1>1, <2>1, <2>3, Local DEF Base, AInv
  <2>5. First(p) /\ Engaged(p) /\ Apart(p, q) /\ First(q) /\ Engaged(q) /\ Apart(q, p)
    BY <2>2, <2>3 DEF Chosen
  <2>6. First(p)' /\ First(q)'
    BY <2>1, <2>2, <2>5, FirstStep
  <2>7. Engaged(p)'
    BY <1>1, <2>1, <2>2, <2>4, <2>5, EngagedStep DEF Rests
  <2>8. Engaged(q)'
    BY <2>4, <2>5 DEF Engaged, Rests, Live, Past, Matched
  <2>9. Apart(p, q)'
    <3>1. CASE timed(p) /\ ~ timed(q)
      BY <1>1, <2>1, <2>2, <2>4, <2>5, <3>1, ApartTimed
    <3>2. CASE ~ (timed(p) /\ ~ timed(q))
      BY <2>4, <3>2 DEF Apart, timed, Rests
    <3>3. QED
      BY <3>1, <3>2
  <2>10. Apart(q, p)'
    <3>1. CASE timed(q) /\ ~ timed(p)
      <4>1. q = other(p)
        BY <2>2
      <4>2. QED
        BY <1>1, <2>1, <4>1, <2>4, <2>5, <3>1, ApartUntimed
    <3>2. CASE ~ (timed(q) /\ ~ timed(p))
      BY <2>4, <3>2 DEF Apart, timed, Rests
    <3>3. QED
      BY <3>1, <3>2
  <2>11. \A r \in Peers : First(r)' /\ Engaged(r)' /\ Apart(r, other(r))'
    BY <2>2, <2>3, <2>6, <2>7, <2>8, <2>9, <2>10
  <2>12. QED
    BY <2>11 DEF Chosen
<1>5. QED
  BY <1>2, <1>3, <1>4 DEF Next, Acts

\* Peers of which the handshake compares something different, which cannot tell
\* their colours apart, or of which one alone is timed, never bring a match to a
\* result, whatever they send each other.
THEOREM SessionMatchesPeers ==
  ASSUME DecisionsAreTimed, OneOutcome
  PROVE  Spec => []OnlyCompatiblePlay
<1>1. ASSUME Chosen, NEW p \in Peers, verdict[p] \cap Results # {}
      PROVE  Playable
  <2>1. PICK q \in Peers : q = other(p) /\ q # p /\ p = other(q)
    BY OtherPeer
  <2>2. Matched(p, q) /\ Apart(p, q) /\ Apart(q, p)
    BY <1>1, <2>1 DEF Chosen, Engaged
  <2>3. timed(p) <=> timed(q)
    BY <1>1, <2>2, ErrorsOrResults DEF Apart
  <2>4. \A i \in DOMAIN Agreed : conf[p].terms[Agreed[i]] = conf[q].terms[Agreed[i]]
    BY <2>2 DEF Matched, disagreeing, to_message
  <2>5. conf[p].color # conf[q].color \/ conf[p].nonce # conf[q].nonce
    BY <2>2 DEF Matched, negotiate_color, to_message
  <2>6. QED
    BY <2>1, <2>3, <2>4, <2>5 DEF Playable
<1>2. Chosen => OnlyCompatiblePlay
  BY <1>1 DEF OnlyCompatiblePlay
<1>3. AInv /\ AInv' /\ Chosen /\ [Next]_vars => Chosen'
  BY NextChosen
<1>4. Spec => []AInv
  BY SessionAgrees
<1>5. QED
  BY InitChosen, <1>2, <1>3, <1>4, PTL DEF Spec

-----------------------------------------------------------------------------
(***************************************************************************)
(* A match that is left alone does not fail.  Alone says what holds of two *)
(* peers that were started alike while nothing interferes: how far they    *)
(* have come with their greetings (Stage); that what a peer waits for is on *)
(* its way (Supplied), arrives in its turn (SlotIsLast) and is what it      *)
(* expects (Expected); and that both keep the same clock (SameClock).       *)
(***************************************************************************)
\* A decider accepts an offer only when it stands, and phi has no errors.
DecisionsAreCandid == \A c, g : \A d \in Decides(c, g, FALSE) : d.kind # "accept_draw"
OutcomesAreResults == \A g : Terminal(g) \cap Errors = {}

Alike(p, q) ==
  /\ conf[p].terms = conf[q].terms /\ conf[p].clock = conf[q].clock
  /\ conf[p].color # conf[q].color \/ conf[p].nonce # conf[q].nonce

\* What a peer says before phase 0, in this order, and how many messages it is.
said(p, i) ==
  IF i = 1 THEN to_message(conf[p])
  ELSE keepalive(IF i % 2 = 0 THEN "ping" ELSE "pong", {(i - 2) \div 2})
Last(p) == IF timed(p) THEN 2 * Rounds + 1 ELSE 1
Segment(p, a, b) == [i \in 1..(b - a) |-> said(p, a + i)]
\* p has read a messages of the other, and answered each of them by the next.
Reads(p, a) ==
  \/ pc[p] \in {"start", "greeting"} /\ round[p] = 0 /\ a = 0
  \/ /\ pc[p] = "measuring" /\ timed(p) /\ round[p] \in 0..(Rounds - 1)
     /\ a \in {2 * round[p] + 1, 2 * round[p] + 2}
spoken(p, a) == IF pc[p] = "start" THEN 0 ELSE a + 1
BothOpen(p, q) ==
  \E a, b \in Nat :
    /\ Reads(p, a) /\ Reads(q, b)
    /\ a <= spoken(q, b) /\ b <= spoken(p, a)
    /\ inbox[p] = Segment(q, a, spoken(q, b))
    /\ inbox[q] = Segment(p, b, spoken(p, a))
\* p is through, and q has one message left to read of it.
Follows(q, p) ==
  /\ pc[p] = "deciding" /\ slot[p] = {} /\ inbox[p] = <<>>
  /\ IF timed(q) THEN pc[q] = "measuring" /\ round[q] = Rounds - 1 ELSE pc[q] = "greeting"
  /\ inbox[q] # <<>> /\ Head(inbox[q]) = said(p, Last(p))
  /\ ~ Holds(Tail(inbox[q]), {"handshake", "pong"} \cup Exchange)
BothThrough(p, q) ==
  \A r \in {p, q} : pc[r] \notin Opening /\ ~ Holds(inbox[r], {"handshake"})
Stage(p, q) == BothOpen(p, q) \/ Follows(q, p) \/ Follows(p, q) \/ BothThrough(p, q)

\* No ack behind a slot, and no message of any other kind.
SlotIsLast(box) ==
  \A i, j \in 1..Len(box) : i < j /\ box[i].type \in Slots => box[j].type # "ack"
Kind == Slots \cup Exchange \cup Chat
Known(box) == \A i \in 1..Len(box) : box[i].type \in Kind

\* What p waits for is on its way, or was sent by a peer whose match has ended.
Coming(p, q) ==
  /\ Even(p, q) /\ choice[q] # {} /\ slot[p] = {} /\ pc[p] \in Opening \cup {"deciding"}
       => Holds(inbox[p], Slots)
  /\ Even(p, q) /\ Revealed(q) /\ pc[p] \in {"deciding", "revealing"}
       => Holds(inbox[p], {"reveal"})
  /\ Even(p, q) /\ pc[q] = "acking" => Holds(inbox[p], {"ack"})
  /\ Trails(p, q) => Holds(inbox[p], {"ack"}) /\ (choice[q] # {} => Holds(inbox[p], Slots))
Left(p) ==
  /\ pc[p] \notin Opening
  /\ pc[p] = "deciding" /\ slot[p] = {} => Holds(inbox[p], Slots)
  /\ pc[p] = "revealing" => Holds(inbox[p], {"reveal"}) /\ ~ Holds(inbox[p], Slots)
  /\ pc[p] = "acking" => Holds(inbox[p], {"ack"}) /\ ~ Holds(inbox[p], {"reveal"})
Supplied(p, q) == IF Live(q) THEN Coming(p, q) ELSE Left(p)

\* What arrives at p is what it expects.
Expected(p) ==
  /\ pc[p] = "deciding" => \A m \in slot[p] \cup Messages(inbox[p]) : m.type \in Slots =>
       m.phase = phase(p) /\ (m.type = "accept_draw" => p \in offers[p])
  /\ pc[p] = "revealing" => \A m \in Messages(inbox[p]), d \in choice[p], s \in slot[p] :
       m.type = "reveal" => ~ spoiled(p, d, m, s)
  /\ pc[p] = "acking" => \A m \in Messages(inbox[p]), r \in pending[p] :
       m.type = "ack" => m = ack_message(p, r)

\* p accepts an offer only while it stands, reports its time, and has no error.
Candid(p) ==
  /\ \A d \in choice[p] :
       /\ d.kind = "accept_draw" /\ pc[p] = "deciding" => other(p) \in offers[p]
       /\ timed(p) => d.elapsed # {}
  /\ \A r \in pending[p] : r.verdict \cap Errors = {}
  /\ verdict[p] \cap Errors = {} /\ (~ Live(p) => verdict[p] # {})
SameClock(p, q) ==
  Bothlive(p, q) =>
    /\ Even(p, q) => banks[p] = banks[q]
    /\ Trails(p, q) => \A r \in pending[p] : banks[q] = {e.after : e \in r.ledger}

Smooth(p, q) ==
  /\ Candid(p) /\ Known(inbox[p]) /\ SlotIsLast(inbox[p])
  /\ Live(p) => Supplied(p, q) /\ Expected(p)
  /\ SameClock(p, q)
Alone(p, q) == Alike(p, q) /\ ~ cut /\ Stage(p, q) /\ Smooth(p, q) /\ Smooth(q, p)
\* The inductive invariant, beside AInv.
LeftAlone ==
  /\ faults \in Nat /\ DOMAIN round = Peers
  /\ faults = 0 => \A p \in Peers : Alike(p, other(p)) => Alone(p, other(p))

-----------------------------------------------------------------------------
(***************************************************************************)
(* Boxes, again.                                                           *)
(***************************************************************************)
\* The first message, and what is behind it.
LEMMA FirstMessage ==
  ASSUME NEW box, IsBox(box), box # <<>>
  PROVE  /\ IsBox(Tail(box)) /\ Head(box) \in Messages(box)
         /\ \A k : Holds(box, k) <=> Head(box).type \in k \/ Holds(Tail(box), k)
         /\ SlotIsLast(box) => SlotIsLast(Tail(box))
         /\ Known(box) => Known(Tail(box)) /\ Head(box).type \in Kind
         /\ SlotIsLast(box) /\ Head(box).type \in Slots => ~ Holds(box, {"ack"})
         /\ AckIsLast(box) /\ Head(box).type = "ack" => ~ Holds(box, {"reveal"})
<1>1. PICK S : box \in Seq(S)
  BY DEF IsBox
<1> DEFINE short == Tail(box)
<1>2. /\ short \in Seq(S)
      /\ Len(box) \in Nat /\ Len(box) > 0
      /\ Len(short) = Len(box) - 1
      /\ Head(box) = box[1]
      /\ \A i \in 1..Len(short) : short[i] = box[i + 1]
  BY <1>1
<1> HIDE DEF short
<1>3. /\ 1 \in 1..Len(box)
      /\ \A i \in 1..Len(short) : i + 1 \in 1..Len(box) /\ 1 < i + 1
      /\ \A i \in 1..Len(box) : i = 1 \/ (1 < i /\ i - 1 \in 1..Len(short) /\ (i - 1) + 1 = i)
      /\ \A i, j \in 1..Len(short) : i < j => i + 1 < j + 1
  BY <1>2
<1>4. IsBox(short) /\ Head(box) \in Messages(box)
  BY <1>2, <1>3 DEF IsBox, Messages
<1>5. ASSUME NEW k PROVE Holds(box, k) <=> Head(box).type \in k \/ Holds(short, k)
  <2>1. ASSUME Holds(box, k), Head(box).type \notin k PROVE Holds(short, k)
    <3>1. PICK i \in 1..Len(box) : box[i].type \in k
      BY <2>1 DEF Holds
    <3>2. i - 1 \in 1..Len(short) /\ short[i - 1] = box[i]
      BY <1>2, <1>3, <2>1, <3>1
    <3>3. QED
      BY <3>1, <3>2 DEF Holds
  <2>2. ASSUME Holds(short, k) PROVE Holds(box, k)
    BY <1>2, <1>3, <2>2 DEF Holds
  <2>3. ASSUME Head(box).type \in k PROVE Holds(box, k)
    BY <1>2, <1>3, <2>3 DEF Holds
  <2>4. QED
    BY <2>1, <2>2, <2>3
<1>6. SlotIsLast(box) => SlotIsLast(short)
  BY <1>2, <1>3 DEF SlotIsLast
<1>7. Known(box) => Known(short) /\ Head(box).type \in Kind
  BY <1>2, <1>3 DEF Known
<1>8. ASSUME SlotIsLast(box), Head(box).type \in Slots PROVE ~ Holds(box, {"ack"})
  <2>1. Head(box).type # "ack"
    BY <1>8 DEF Slots
  <2>2. QED
    BY <1>2, <1>3, <1>8, <2>1 DEF SlotIsLast, Holds
<1>9. ASSUME AckIsLast(box), Head(box).type = "ack" PROVE ~ Holds(box, {"reveal"})
  BY <1>2, <1>3, <1>9 DEF AckIsLast, Holds, Exchange
<1>10. QED
  BY <1>4, <1>5, <1>6, <1>7, <1>8, <1>9 DEF short

\* A box with one more message of a known kind.
LEMMA OneMore ==
  ASSUME NEW box, IsBox(box), NEW m, m.type \in Kind, Known(box), SlotIsLast(box),
         m.type = "ack" => ~ Holds(box, Slots)
  PROVE  Known(Append(box, m)) /\ SlotIsLast(Append(box, m))
<1>1. PICK S : box \in Seq(S)
  BY DEF IsBox
<1>2. box \in Seq(S \cup {m})
  BY <1>1
<1> DEFINE longer == Append(box, m)
<1>3. /\ Len(longer) = Len(box) + 1
      /\ Len(box) \in Nat
      /\ longer[Len(box) + 1] = m
      /\ \A i \in 1..Len(box) : longer[i] = box[i]
  BY <1>2
<1> HIDE DEF longer
<1>4. Known(longer)
  BY <1>3 DEF Known
<1>5. SlotIsLast(longer)
  <2>1. SUFFICES ASSUME NEW i \in 1..Len(longer), NEW j \in 1..Len(longer),
                        i < j, longer[i].type \in Slots
                 PROVE  longer[j].type # "ack"
    BY DEF SlotIsLast
  <2>2. i \in 1..Len(box) /\ longer[i] = box[i]
    BY <1>3, <2>1
  <2>3. CASE j = Len(longer)
    BY <1>3, <2>1, <2>2, <2>3 DEF Holds
  <2>4. CASE j # Len(longer)
    <3>1. j \in 1..Len(box) /\ longer[j] = box[j]
      BY <1>3, <2>1, <2>4
    <3>2. QED
      BY <2>1, <2>2, <3>1 DEF SlotIsLast
  <2>5. QED
    BY <2>3, <2>4
<1>6. QED
  BY <1>4, <1>5 DEF longer

\* What a step leaves in the boxes.
LEMMA DealtOrder ==
  ASSUME Base, NEW p \in Peers, NEW q, q = other(p), NEW m, Deals(p, q, {m}), m.type \in Kind,
         m.type = "ack" => ~ Holds(inbox[q], Slots),
         Known(inbox[p]), Known(inbox[q]), SlotIsLast(inbox[p]), SlotIsLast(inbox[q])
  PROVE  /\ Known(inbox'[p]) /\ Known(inbox'[q])
         /\ SlotIsLast(inbox'[p]) /\ SlotIsLast(inbox'[q])
         /\ \A k : Holds(inbox[q], k) => Holds(inbox'[q], k)
<1>1. q \in Peers /\ IsBox(inbox[p]) /\ IsBox(inbox[q])
  BY OtherPeer, BaseBoxes
<1>2. Known(inbox'[p]) /\ SlotIsLast(inbox'[p])
  BY <1>1, FirstMessage DEF Deals
<1>3. inbox'[q] = inbox[q] \/ inbox'[q] = Append(inbox[q], m)
  BY DEF Deals
<1>4. Known(inbox'[q]) /\ SlotIsLast(inbox'[q])
  BY <1>1, <1>3, OneMore
<1>5. \A k : Holds(inbox[q], k) => Holds(Append(inbox[q], m), k)
  BY <1>1, AppendedBox
<1>6. \A k : Holds(inbox[q], k) => Holds(inbox'[q], k)
  BY <1>3, <1>5
<1>7. QED
  BY <1>2, <1>4, <1>6

\* While the connection stands, what is sent to a peer that listens gets there.
LEMMA Posted ==
  ASSUME NEW p \in Peers, NEW q, q = other(p), DOMAIN inbox = Peers, ~ cut, Live(q), NEW m
  PROVE  /\ inbox' = post(inbox, p, m) => inbox'[q] = Append(inbox[q], m) /\ inbox'[p] = inbox[p]
         /\ inbox' = post(taken(p), p, m)
              => inbox'[q] = Append(inbox[q], m) /\ inbox'[p] = Tail(inbox[p])
<1>1. q \in Peers /\ q # p
  BY OtherPeer
<1>2. post(inbox, p, m) = [inbox EXCEPT ![q] = Append(inbox[q], m)]
  BY DEF post, Live
<1> DEFINE box == taken(p)
<1>3. DOMAIN box = Peers /\ box[p] = Tail(inbox[p]) /\ box[q] = inbox[q]
  BY <1>1 DEF taken
<1> HIDE DEF box
<1>4. post(box, p, m) = [box EXCEPT ![q] = Append(box[q], m)]
  BY DEF post, Live
<1>5. QED
  BY <1>1, <1>2, <1>3, <1>4 DEF box

\* It is taken in front and sent behind.
LEMMA PostedHolds ==
  ASSUME Base, NEW p \in Peers, NEW q, q = other(p), ~ cut, Live(q), NEW m, NEW k, m.type \in k,
         \/ inbox' = post(inbox, p, m)
         \/ inbox' = post(taken(p), p, m)
  PROVE  Holds(inbox'[q], k)
<1>1. q \in Peers /\ IsBox(inbox[q]) /\ DOMAIN inbox = Peers
  BY OtherPeer, BaseBoxes DEF Base, Domains
<1>2. inbox'[q] = Append(inbox[q], m)
  BY <1>1, Posted
<1>3. QED
  BY <1>1, <1>2, AppendedBox

-----------------------------------------------------------------------------
(***************************************************************************)
(* What arrives is what was expected, so nothing fails.                    *)
(***************************************************************************)
\* The handshakes are behind two peers of which one exchanges programs.
LEMMA Through ==
  ASSUME NEW p, NEW q, Stage(p, q), Revealed(p)
  PROVE  BothThrough(p, q)
<1>1. pc[p] \notin Opening /\ pc[p] # "deciding" /\ pc[p] # "greeting" /\ pc[p] # "measuring"
  BY DEF Revealed, Opening
<1>2. ~ BothOpen(p, q)
  BY <1>1 DEF BothOpen, Reads, Opening
<1>3. ~ Follows(q, p)
  BY <1>1 DEF Follows
<1>4. ~ Follows(p, q)
  BY <1>1 DEF Follows
<1>5. QED
  BY <1>2, <1>3, <1>4 DEF Stage

\* A result is no error.
LEMMA NoErrorKinds ==
  /\ \A r : result("draw", r) \notin Errors
  /\ \A c, r : result(wins(c), r) \notin Errors
<1>1. \A e \in Errors : e.outcome = "error"
  BY DEF Errors
<1>2. \A o, r : result(o, r).outcome = o
  BY DEF result
<1>3. \A c : wins(c) # "error"
  BY DEF wins
<1>4. QED
  BY <1>1, <1>2, <1>3

\* The first message of substance, while p waits for a reveal, is that reveal.
LEMMA RevealArrives ==
  ASSUME AInv, NEW p \in Peers, NEW q, q = other(p), Alone(p, q),
         pc[p] = "revealing", Substance(p)
  PROVE  /\ inbox[p] # <<>> /\ message(p) = Head(inbox[p]) /\ Head(inbox[p]).type = "reveal"
         /\ \A d \in choice[p], s \in slot[p] : ~ spoiled(p, d, Head(inbox[p]), s)
<1>1. q \in Peers /\ q # p /\ p = other(q) /\ Pair(p, q) /\ Pair(q, p)
  BY PairOf
<1> DEFINE m == Head(inbox[p])
<1>2. inbox[p] # <<>> /\ message(p) = m /\ m.type \notin {"ping", "pong"}
  BY DEF Substance, arrived, message
<1>3. IsBox(inbox[p]) /\ AckIsLast(inbox[p]) /\ Known(inbox[p]) /\ Live(p) /\ Revealed(p)
  BY DEF AInv, Base, SInv, Boxes, Alone, Smooth, Live, Revealed
<1>4. /\ m \in Messages(inbox[p]) /\ m.type \in Kind
      /\ m.type = "ack" => ~ Holds(inbox[p], {"reveal"})
      /\ \A k : m.type \in k => Holds(inbox[p], k)
  BY <1>2, <1>3, FirstMessage
<1> HIDE DEF m
<1>5. ~ Holds(inbox[p], {"handshake"})
  BY <1>3, Through DEF Alone, BothThrough
<1>6. Supplied(p, q) /\ Expected(p)
  BY <1>3 DEF Alone, Smooth
<1>7. CASE Live(q)
  <2>1. ~ Holds(inbox[p], Slots)
    <3>1. Keeps(q, p)
      BY <1>1 DEF AInv, Base, SInv
    <3>2. QED
      BY <1>7, <3>1 DEF Keeps, Ahead, Live
  <2>2. m.type # "ack"
    <3>1. SUFFICES ASSUME m.type = "ack" PROVE FALSE
      OBVIOUS
    <3>2. ~ Trails(p, q)
      BY <1>3 DEF Trails
    <3>3. Even(p, q) /\ Revealed(q)
      <4>1. Fits(p, q)
        BY <1>1, <1>3, <1>7 DEF Pair, Meet, Bothlive
      <4>2. QED
        BY <1>4, <3>1, <3>2, <4>1 DEF Fits, AcksFit, Revealed
    <3>4. Holds(inbox[p], {"reveal"})
      BY <1>6, <1>7, <3>3 DEF Supplied, Coming
    <3>5. QED
      BY <1>4, <3>1, <3>4
  <2>3. m.type \notin Slots /\ m.type \notin {"handshake"}
    BY <1>4, <1>5, <2>1
  <2>4. m.type = "reveal"
    BY <1>2, <1>4, <2>2, <2>3 DEF Kind, Exchange, Chat
  <2>5. QED
    BY <1>2, <1>4, <1>6, <2>4 DEF Expected, m
<1>8. CASE ~ Live(q)
  <2>1. ~ Holds(inbox[p], Slots) /\ Holds(inbox[p], {"reveal"})
    BY <1>6, <1>8 DEF Supplied, Left
  <2>2. m.type \notin Slots /\ m.type \notin {"handshake"} /\ m.type # "ack"
    BY <1>4, <1>5, <2>1
  <2>3. m.type = "reveal"
    BY <1>2, <1>4, <2>2 DEF Kind, Exchange, Chat
  <2>4. QED
    BY <1>2, <1>4, <1>6, <2>3 DEF Expected, m
<1>9. QED
  BY <1>7, <1>8

\* The first message of substance, while p waits for an ack, confirms its result.
LEMMA AckArrives ==
  ASSUME AInv, NEW p \in Peers, NEW q, q = other(p), Alone(p, q),
         pc[p] = "acking", Substance(p)
  PROVE  /\ inbox[p] # <<>> /\ message(p) = Head(inbox[p]) /\ Head(inbox[p]).type = "ack"
         /\ \A r \in pending[p] : Head(inbox[p]) = ack_message(p, r)
<1>1. q \in Peers /\ q # p /\ p = other(q) /\ Pair(p, q) /\ Pair(q, p)
  BY PairOf
<1> DEFINE m == Head(inbox[p])
<1>2. inbox[p] # <<>> /\ message(p) = m /\ m.type \notin {"ping", "pong"}
  BY DEF Substance, arrived, message
<1>3. IsBox(inbox[p]) /\ SlotIsLast(inbox[p]) /\ Known(inbox[p]) /\ Live(p) /\ Revealed(p)
  BY DEF AInv, Base, SInv, Boxes, Alone, Smooth, Live, Revealed
<1>4. /\ m \in Messages(inbox[p]) /\ m.type \in Kind
      /\ m.type \in Slots => ~ Holds(inbox[p], {"ack"})
      /\ \A k : m.type \in k => Holds(inbox[p], k)
  BY <1>2, <1>3, FirstMessage
<1> HIDE DEF m
<1>5. ~ Holds(inbox[p], {"handshake"})
  BY <1>3, Through DEF Alone, BothThrough
<1>6. Supplied(p, q) /\ Expected(p)
  BY <1>3 DEF Alone, Smooth
<1>7. ~ Holds(inbox[p], {"reveal"}) /\ m.type \notin Slots
  <2>1. CASE Live(q)
    <3>1. ~ Holds(inbox[p], {"reveal"})
      BY <1>1, <1>3, <2>1 DEF Pair, Meet, Bothlive, Fits, RevealsFit
    <3>2. m.type \notin Slots
      <4>1. SUFFICES ASSUME m.type \in Slots PROVE FALSE
        OBVIOUS
      <4>2. slot[p] # {} /\ Holds(inbox[p], Slots)
        BY <1>1, <1>3, <1>4, <4>1 DEF Pair, Loop
      <4>3. ~ Even(p, q)
        BY <1>1, <4>2 DEF Pair, Meet, Orderly
      <4>4. ~ Trails(q, p)
        BY DEF Trails
      <4>5. Trails(p, q)
        BY <1>1, <4>3, <4>4 DEF Pair, Meet, Abreast
      <4>6. QED
        BY <1>4, <1>6, <2>1, <4>1, <4>5 DEF Supplied, Coming
    <3>3. QED
      BY <3>1, <3>2
  <2>2. CASE ~ Live(q)
    BY <1>4, <1>6, <2>2 DEF Supplied, Left
  <2>3. QED
    BY <2>1, <2>2
<1>8. m.type \notin {"handshake"} /\ m.type \notin {"reveal"}
  BY <1>4, <1>5, <1>7
<1>9. m.type = "ack"
  BY <1>2, <1>4, <1>7, <1>8 DEF Kind, Exchange, Chat
<1>10. QED
  BY <1>2, <1>4, <1>6, <1>9 DEF Expected, m

\* A peer in the handshake is live, and so is the other; what it hears first is
\* the other's handshake, and nothing is wrong with that.
LEMMA GreetingArrives ==
  ASSUME AInv, NEW p \in Peers, NEW q, q = other(p), Alone(p, q), pc[p] \in Opening
  PROVE  /\ Live(p) /\ Live(q)
         /\ pc[p] = "greeting" /\ arrived(p) => objections(p) = {}
<1>1. q \in Peers /\ q # p
  BY OtherPeer
<1>2. Live(p) /\ Live(q)
  <2>1. CASE BothOpen(p, q)
    BY <2>1 DEF BothOpen, Reads, Live
  <2>2. CASE Follows(q, p)
    BY <2>2 DEF Follows, Opening
  <2>3. CASE Follows(p, q)
    BY <2>3 DEF Follows, Live, Opening
  <2>4. CASE BothThrough(p, q)
    BY <2>4 DEF BothThrough
  <2>5. QED
    BY <2>1, <2>2, <2>3, <2>4 DEF Alone, Stage
<1>3. ASSUME pc[p] = "greeting", arrived(p) PROVE objections(p) = {}
  <2>1. message(p) = to_message(conf[q])
    BY <1>2, <1>3 DEF AInv, Opened, Bothlive, Greeted, Past, message, arrived
  <2> DEFINE a == to_message(conf[p])
             b == to_message(conf[q])
  <2>2. /\ a.terms = b.terms
        /\ a.proposed_color # b.proposed_color \/ a.nonce # b.nonce
    BY DEF to_message, Alone, Alike
  <2> HIDE DEF a, b
  <2>3. disagreeing(a, b) = {}
    BY <2>2 DEF disagreeing
  <2>4. mismatches(a, b) = {}
    BY <2>3 DEF mismatches
  <2>5. negotiate_color(a, b) # {}
    BY <2>2 DEF negotiate_color
  <2>6. QED
    BY <2>1, <2>4, <2>5 DEF objections, a, b
<1>4. QED
  BY <1>2, <1>3

\* The slots of a peer that accepts, resigns or aborts give a result.
LEMMA SlotsGiveResult ==
  ASSUME AInv, NEW p \in Peers, NEW q, q = other(p), Alone(p, q), pc[p] = "deciding",
         NEW d \in choice[p], NEW m \in slot[p], NEW v \in slots_verdict(p, d, m)
  PROVE  v \notin Errors
<1>1. q \in Peers /\ q # p /\ Loop(p)
  BY PairOf DEF Pair
<1>2. m.type \in Slots /\ Live(p) /\ Candid(p) /\ Expected(p)
  BY <1>1 DEF Loop, Live, Alone, Smooth
<1>3. /\ m.phase = phase(p)
      /\ m.type = "accept_draw" => p \in offers[p]
      /\ d.kind = "accept_draw" => other(p) \in offers[p]
  BY <1>2 DEF Expected, Candid
<1>4. v \in resolve_slots(d.kind, m.type, color[p], p \in offers[p], other(p) \in offers[p])
  BY <1>3 DEF slots_verdict
<1> DEFINE a == d.kind
           b == m.type
<1>5. CASE "abort" \in {a, b}
  BY <1>4, <1>5, NoErrorKinds DEF resolve_slots
<1>6. CASE "abort" \notin {a, b} /\ "resign" \in {a, b}
  <2>1. v \in {result("draw", "resignation"), result(wins(opponent(color[p])), "resignation"),
               result(wins(color[p]), "resignation")}
    BY <1>4, <1>6 DEF resolve_slots
  <2>2. QED
    BY <2>1, NoErrorKinds
<1>7. CASE "abort" \notin {a, b} /\ "resign" \notin {a, b} /\ "accept_draw" \in {a, b}
  <2>1. v = result("draw", "draw_agreement")
    BY <1>3, <1>4, <1>7 DEF resolve_slots
  <2>2. QED
    BY <2>1, NoErrorKinds
<1>8. CASE {"abort", "resign", "accept_draw"} \cap {a, b} = {}
  BY <1>4, <1>8 DEF resolve_slots
<1>9. QED
  BY <1>5, <1>6, <1>7, <1>8

\* What two programs come to is a result.
LEMMA ProgramsGiveResult ==
  ASSUME OutcomesAreResults, NEW p, NEW d, NEW m
  PROVE  /\ adjudicate_legality(p, d, m) \cap Errors = {}
         /\ computed(p, d, m).verdict \cap Errors = {}
<1>1. \A v \in adjudicate_legality(p, d, m) :
        \E c : v = result("draw", "illegal_program") \/ v = result(wins(c), "illegal_program")
  BY DEF adjudicate_legality
<1>2. \A v \in computed(p, d, m).verdict :
        \/ \E c : v = result("draw", "timeout") \/ v = result(wins(c), "timeout")
        \/ \E g : v \in Terminal(g)
        \/ v = result("draw", "phase_limit")
  BY DEF computed, limit
<1>3. QED
  BY <1>1, <1>2, NoErrorKinds DEF OutcomesAreResults

\* A step that no interference takes.
Runs(p) == Works(p) \/ decide(p) \/ ping(p)

\* No step of a peer that is left alone with the other ends in an error.
LEMMA Unfailing ==
  ASSUME OutcomesAreResults, AInv, NEW p \in Peers, NEW q, q = other(p), Alone(p, q), Runs(p),
         NEW v, ends(p, v)
  PROVE  v \notin Errors
<1>1. q \in Peers /\ q # p /\ Loop(p) /\ Domains
  BY PairOf DEF Pair, AInv, Base
<1>2. /\ verdict'[p] = {v} /\ pc'[p] = "over"
      /\ \A w : ends(p, w) => w = v
  BY <1>1, EndEffect
<1>3. Live(p) => Supplied(p, q) /\ Candid(p)
  BY DEF Alone, Smooth
<1>4. CASE Chats(p)
  BY <1>1, <1>2, <1>4, ChatEffect DEF Keeping, Loop
<1>5. CASE decide(p) \/ take_slot(p) \/ reveal(p) \/ take_reveal(p)
  BY <1>1, <1>2, <1>5 DEF decide, take_slot, reveal, take_reveal, Domains
<1>6. CASE reject_handshake(p)
  BY <1>6, GreetingArrives DEF reject_handshake, Opening
<1>7. CASE close_match(p)
  BY <1>2, <1>7, SlotsGiveResult DEF close_match
<1>8. CASE forfeit(p)
  <2>1. /\ message(p) = Head(inbox[p])
        /\ \A d \in choice[p], s \in slot[p] : ~ spoiled(p, d, Head(inbox[p]), s)
    BY <1>8, RevealArrives DEF forfeit
  <2>2. \E d \in choice[p] : \E w \in adjudicate_legality(p, d, Head(inbox[p])) : ends(p, w)
    BY <1>8, <2>1 DEF forfeit
  <2>3. QED
    BY <1>2, <2>2, ProgramsGiveResult
<1>9. CASE take_ack(p)
  <2>1. \A r \in pending[p] : confirms(p, r, message(p))
    BY <1>9, AckArrives DEF take_ack, confirms
  <2>2. pc[p] = "acking"
    BY <1>9 DEF take_ack
  <2>3. PICK r \in pending[p] : (\E w \in r.verdict : ends(p, w)) \/ pc' = [pc EXCEPT ![p] = "deciding"]
    BY <1>9, <2>1 DEF take_ack
  <2>4. r.verdict \cap Errors = {}
    BY <1>3, <2>2 DEF Candid, Live
  <2>5. QED
    BY <1>1, <1>2, <2>3, <2>4 DEF Domains
<1>10. CASE hear_end(p)
  <2>1. Receiving(p) /\ inbox[p] = <<>> /\ ~ Live(q)
    BY <1>10 DEF hear_end, arrived, Live, Alone
  <2>2. pc[p] \notin Opening
    BY <2>1, GreetingArrives
  <2>3. Live(p)
    BY <2>1 DEF Receiving, Listening, Live
  <2>4. Left(p) /\ \A k : ~ Holds(inbox[p], k)
    BY <1>3, <2>1, <2>3, EmptyBox DEF Supplied
  <2>5. QED
    BY <2>1, <2>2, <2>4 DEF Left, Receiving, Listening, Opening
<1>11. QED
  BY <1>4, <1>5, <1>6, <1>7, <1>8, <1>9, <1>10 DEF Runs, Works, Chats

-----------------------------------------------------------------------------
(***************************************************************************)
(* The greetings and the measurement of the delay.                         *)
(***************************************************************************)
\* Behind the first message others are appended.
LEMMA BehindFirst ==
  ASSUME NEW box, IsBox(box), box # <<>>, NEW m
  PROVE  /\ Append(box, m) # <<>> /\ Head(Append(box, m)) = Head(box)
         /\ Tail(Append(box, m)) = Append(Tail(box), m)
         /\ IsBox(Tail(box))
<1>1. PICK S : box \in Seq(S)
  BY DEF IsBox
<1>2. box \in Seq(S \cup {m}) /\ m \in S \cup {m} /\ Len(box) \in Nat /\ Len(box) > 0
  BY <1>1
<1>3. Tail(box) \in Seq(S \cup {m})
  BY <1>2
<1> DEFINE n == Len(box)
           a == Tail(Append(box, m))
           b == Append(Tail(box), m)
<1>4. /\ a \in Seq(S \cup {m}) /\ b \in Seq(S \cup {m}) /\ Len(a) = n /\ Len(b) = n
      /\ \A i \in 1..n : a[i] = b[i]
  BY <1>2, <1>3
<1> HIDE DEF a, b, n
<1>5. a = b
  BY <1>4
<1>6. Append(box, m) # <<>> /\ Head(Append(box, m)) = Head(box)
  BY <1>2
<1>7. QED
  BY <1>3, <1>5, <1>6 DEF IsBox, a, b

\* A part of what a peer says, without its first message or with one more.
LEMMA Segments ==
  ASSUME NEW p, NEW a \in Nat, NEW b \in Nat, a <= b
  PROVE  /\ IsBox(Segment(p, a, b))
         /\ Segment(p, a, b) = <<>> <=> a = b
         /\ a < b => /\ Head(Segment(p, a, b)) = said(p, a + 1)
                     /\ Tail(Segment(p, a, b)) = Segment(p, a + 1, b)
         /\ Append(Segment(p, a, b), said(p, b + 1)) = Segment(p, a, b + 1)
<1> DEFINE n == b - a
           S == {said(p, i) : i \in Nat}
           box == Segment(p, a, b)
<1>1. n \in Nat /\ \A i \in 1..n : a + i \in Nat
  OBVIOUS
<1>2. box = [i \in 1..n |-> said(p, a + i)]
  BY DEF Segment
<1>3. box \in [1..n -> S]
  BY <1>1, <1>2
<1>4. box \in Seq(S) /\ Len(box) = n
  BY <1>1, <1>3
<1>5. IsBox(box)
  BY <1>4 DEF IsBox
<1>6. box = <<>> <=> a = b
  BY <1>1, <1>4
<1>7. ASSUME a < b
      PROVE  Head(box) = said(p, a + 1) /\ Tail(box) = Segment(p, a + 1, b)
  <2>1. Head(box) = box[1] /\ 1 \in 1..n
    BY <1>4, <1>7
  <2>2. Head(box) = said(p, a + 1)
    BY <1>2, <2>1
  <2> DEFINE c == Segment(p, a + 1, b)
  <2>3. c = [i \in 1..(n - 1) |-> said(p, a + 1 + i)]
    BY DEF Segment
  <2>4. c \in [1..(n - 1) -> S]
    <3>1. \A i \in 1..(n - 1) : a + 1 + i \in Nat
      OBVIOUS
    <3>2. QED
      BY <2>3, <3>1
  <2>5. c \in Seq(S) /\ Len(c) = n - 1
    BY <1>1, <1>7, <2>4
  <2>6. Tail(box) \in Seq(S) /\ Len(Tail(box)) = n - 1
        /\ \A i \in 1..(n - 1) : Tail(box)[i] = box[i + 1]
    BY <1>4, <1>7
  <2>7. \A i \in 1..(n - 1) : box[i + 1] = c[i]
    <3>1. \A i \in 1..(n - 1) : i + 1 \in 1..n /\ a + (i + 1) = a + 1 + i
      OBVIOUS
    <3>2. QED
      BY <1>2, <2>3, <3>1
  <2> HIDE DEF c, box, n
  <2>8. Tail(box) = c
    BY <2>5, <2>6, <2>7
  <2>9. QED
    BY <2>2, <2>8 DEF c
<1>8. Append(box, said(p, b + 1)) = Segment(p, a, b + 1)
  <2> DEFINE c == Segment(p, a, b + 1)
             x == said(p, b + 1)
  <2>1. c = [i \in 1..(n + 1) |-> said(p, a + i)]
    BY DEF Segment
  <2>2. c \in [1..(n + 1) -> S]
    BY <2>1
  <2>3. c \in Seq(S) /\ Len(c) = n + 1
    BY <1>1, <2>2
  <2>4. x \in S
    OBVIOUS
  <2>5. /\ Append(box, x) \in Seq(S) /\ Len(Append(box, x)) = n + 1
        /\ \A i \in 1..n : Append(box, x)[i] = box[i]
        /\ Append(box, x)[n + 1] = x
    BY <1>1, <1>4, <2>4
  <2>6. \A i \in 1..(n + 1) : Append(box, x)[i] = c[i]
    <3>1. \A i \in 1..n : box[i] = c[i]
      BY <1>2, <2>1
    <3>2. c[n + 1] = x
      BY <1>1, <2>1
    <3>3. \A i \in 1..(n + 1) : i \in 1..n \/ i = n + 1
      BY <1>1
    <3> HIDE DEF c, box, x, n
    <3>4. QED
      BY <2>5, <3>1, <3>2, <3>3
  <2> HIDE DEF c, box, x, n
  <2>7. Append(box, x) = c
    BY <2>3, <2>5, <2>6
  <2>8. QED
    BY <2>7 DEF c, x
<1>9. QED
  BY <1>5, <1>6, <1>7, <1>8

\* When both ends meet, nothing is left of it.
LEMMA EmptySegment ==
  ASSUME NEW p, NEW a \in Nat
  PROVE  Segment(p, a, a) = <<>>
<1>1. PICK b \in Nat : b = a /\ a <= b
  OBVIOUS
<1>2. Segment(p, a, b) = <<>> <=> a = b
  BY <1>1, Segments
<1>3. QED
  BY <1>1, <1>2

\* The same, with c for the number of the first of them,
LEMMA FirstSaid ==
  ASSUME NEW p, NEW a \in Nat, NEW b \in Nat, a < b, NEW c, c = a + 1
  PROVE  /\ Head(Segment(p, a, b)) = said(p, c)
         /\ Tail(Segment(p, a, b)) = Segment(p, c, b)
<1>1. a <= b
  OBVIOUS
<1>2. /\ Head(Segment(p, a, b)) = said(p, a + 1)
      /\ Tail(Segment(p, a, b)) = Segment(p, a + 1, b)
  BY <1>1, Segments
<1>3. QED
  BY <1>2, Zenon

\* or d for that of the next.
LEMMA NextSaid ==
  ASSUME NEW p, NEW a \in Nat, NEW b \in Nat, a <= b, NEW d, d = b + 1
  PROVE  Append(Segment(p, a, b), said(p, d)) = Segment(p, a, d)
<1>1. Append(Segment(p, a, b), said(p, b + 1)) = Segment(p, a, b + 1)
  BY Segments
<1>2. QED
  BY <1>1, Zenon

\* One message alone.
LEMMA OneSaid ==
  ASSUME NEW p, NEW n \in Nat, NEW m, m = n + 1
  PROVE  /\ Segment(p, n, m) # <<>> /\ Head(Segment(p, n, m)) = said(p, m)
         /\ Tail(Segment(p, n, m)) = <<>>
<1>1. m \in Nat /\ n < m /\ n <= m /\ m <= m /\ n # m
  OBVIOUS
<1>2. Segment(p, m, m) = <<>>
  BY <1>1, Segments
<1>3. Segment(p, n, m) # <<>>
  BY <1>1, Segments
<1>4. Head(Segment(p, n, m)) = said(p, m) /\ Tail(Segment(p, n, m)) = Segment(p, m, m)
  BY <1>1, FirstSaid
<1>5. QED
  BY <1>2, <1>3, <1>4

\* The messages of the measurement by their numbers.
LEMMA Numbers ==
  ASSUME NEW p, NEW k \in Nat
  PROVE  /\ said(p, 1) = to_message(conf[p])
         /\ said(p, 2 * k + 2) = keepalive("ping", {k})
         /\ said(p, 2 * k + 3) = keepalive("pong", {k})
<1>1. /\ 2 * k + 2 # 1 /\ (2 * k + 2) % 2 = 0 /\ ((2 * k + 2) - 2) \div 2 = k
      /\ 2 * k + 3 # 1 /\ (2 * k + 3) % 2 # 0 /\ ((2 * k + 3) - 2) \div 2 = k
  OBVIOUS
<1>2. QED
  BY <1>1 DEF said

\* The first of them.
LEMMA FirstNumbers ==
  ASSUME NEW p
  PROVE  said(p, 1) = to_message(conf[p]) /\ said(p, 2) = keepalive("ping", {0})
<1>1. 2 * 0 + 2 = 2 /\ 0 \in Nat
  OBVIOUS
<1>2. said(p, 2 * 0 + 2) = keepalive("ping", {0})
  BY Numbers
<1>3. QED
  BY <1>1, <1>2 DEF said

\* Nothing that is said depends on more than the settings.
LEMMA SaidKept ==
  ASSUME conf' = conf
  PROVE  /\ \A r : (timed(r)' <=> timed(r)) /\ Last(r)' = Last(r)
         /\ \A r, a, b : Segment(r, a, b)' = Segment(r, a, b)
         /\ \A r, i : said(r, i)' = said(r, i)
BY DEF timed, Last, Segment, said, to_message, keepalive

\* What p may do before it is through.
LEMMA OpeningActs ==
  ASSUME AInv, NEW p \in Peers, NEW q, q = other(p), Alone(p, q), Runs(p), pc[p] \in Opening
  PROVE  greet(p) \/ take_handshake(p) \/ measure(p)
<1>1. pc[p] \notin {"deciding", "revealing", "acking"}
  BY DEF Opening
<1>2. ~ reject_handshake(p)
  BY GreetingArrives DEF reject_handshake
<1>3. ~ hear_end(p)
  BY GreetingArrives DEF hear_end, Live, Alone
<1>4. ~ answer_ping(p) /\ ~ skip_pong(p)
  BY <1>1 DEF answer_ping, skip_pong, Listening
<1>5. ~ take_slot(p) /\ ~ close_match(p) /\ ~ reveal(p) /\ ~ forfeit(p) /\ ~ take_reveal(p)
      /\ ~ take_ack(p) /\ ~ decide(p) /\ ~ ping(p)
  BY <1>1 DEF take_slot, close_match, reveal, forfeit, take_reveal, take_ack, decide, ping
<1>6. QED
  BY <1>2, <1>3, <1>4, <1>5 DEF Runs, Works

\* Two that are opening go on opening when p has read c messages,
LEMMA OpenAgain ==
  ASSUME NEW p, NEW q, NEW b \in Nat, NEW c \in Nat, conf' = conf,
         pc'[q] = pc[q], round'[q] = round[q], Reads(q, b), Reads(p, c)',
         b <= spoken(p, c)', c <= spoken(q, b),
         inbox'[p] = Segment(q, c, spoken(q, b)),
         inbox'[q] = Segment(p, b, spoken(p, c)')
  PROVE  BothOpen(p, q)'
<1>1. /\ \A r : timed(r)' <=> timed(r)
      /\ \A r, x, y : Segment(r, x, y)' = Segment(r, x, y)
  BY SaidKept
<1>2. spoken(q, b)' = spoken(q, b)
  BY DEF spoken
<1>3. Reads(q, b)'
  BY <1>1 DEF Reads
<1>4. inbox'[p] = Segment(q, c, spoken(q, b))' /\ inbox'[q] = Segment(p, b, spoken(p, c))'
  <2>1. Segment(q, c, spoken(q, b))' = [i \in 1..(spoken(q, b)' - c) |-> said(q, c + i)']
    BY DEF Segment
  <2>2. Segment(p, b, spoken(p, c))' = [i \in 1..(spoken(p, c)' - b) |-> said(p, b + i)']
    BY DEF Segment
  <2>3. \A r, i : said(r, i)' = said(r, i)
    BY SaidKept
  <2>4. QED
    BY <1>2, <2>1, <2>2, <2>3 DEF Segment
<1>5. QED
  BY <1>2, <1>3, <1>4 DEF BothOpen

\* by greeting,
LEMMA GreetOpens ==
  ASSUME AInv, NEW p \in Peers, NEW q, q = other(p), Alone(p, q), Rests(q), Live(q),
         round'[q] = round[q], BothOpen(p, q), greet(p)
  PROVE  BothOpen(p, q)'
<1>1. q \in Peers /\ q # p /\ DOMAIN inbox = Peers /\ DOMAIN pc = Peers
  BY OtherPeer DEF AInv, Base, Domains
<1>2. PICK a \in Nat, b \in Nat :
        /\ Reads(p, a) /\ Reads(q, b) /\ a <= spoken(q, b) /\ b <= spoken(p, a)
        /\ inbox[p] = Segment(q, a, spoken(q, b)) /\ inbox[q] = Segment(p, b, spoken(p, a))
  BY DEF BothOpen
<1>3. pc[p] = "start" /\ pc'[p] = "greeting" /\ round'[p] = round[p]
  BY <1>1 DEF greet, terms
<1>4. a = 0 /\ spoken(p, a) = 0 /\ b = 0 /\ round[p] = 0
  BY <1>2, <1>3 DEF Reads, spoken
<1>5. inbox'[q] = Append(inbox[q], said(p, 1)) /\ inbox'[p] = inbox[p]
  <2>1. inbox' = post(inbox, p, said(p, 1))
    BY DEF greet, said
  <2>2. QED
    BY <1>1, <2>1, Posted DEF Alone
<1>6. inbox'[q] = Segment(p, 0, 1)
  <2>1. inbox[q] = Segment(p, 0, 0)
    BY <1>2, <1>4
  <2>2. 0 \in Nat /\ 0 <= 0 /\ 1 = 0 + 1
    OBVIOUS
  <2>3. QED
    BY <1>5, <2>1, <2>2, NextSaid
<1>7. Reads(p, 0)' /\ spoken(p, 0)' = 1
  BY <1>3, <1>4 DEF Reads, spoken
<1>8. QED
  BY <1>2, <1>4, <1>5, <1>6, <1>7, OpenAgain DEF Rests

\* by taking the greeting,
LEMMA HandshakeOpens ==
  ASSUME AInv, NEW p \in Peers, NEW q, q = other(p), Alone(p, q), Rests(q), Live(q),
         round'[q] = round[q], BothOpen(p, q), take_handshake(p)
  PROVE  BothOpen(p, q)' \/ Follows(q, p)'
<1>1. q \in Peers /\ q # p /\ DOMAIN inbox = Peers /\ DOMAIN pc = Peers
  BY OtherPeer DEF AInv, Base, Domains
<1>2. PICK a \in Nat, b \in Nat :
        /\ Reads(p, a) /\ Reads(q, b) /\ a <= spoken(q, b) /\ b <= spoken(p, a)
        /\ inbox[p] = Segment(q, a, spoken(q, b)) /\ inbox[q] = Segment(p, b, spoken(p, a))
  BY DEF BothOpen
<1>3. /\ pc[p] = "greeting" /\ round'[p] = round[p] /\ inbox[p] # <<>> /\ slot'[p] = slot[p]
      /\ pc'[p] = IF timed(p) THEN "measuring" ELSE "deciding"
  BY <1>1 DEF take_handshake, settled, arrived
<1>4. a = 0 /\ spoken(p, a) = 1 /\ round[p] = 0 /\ slot[p] = {}
  BY <1>2, <1>3, Early DEF Reads, spoken, AInv, Base
<1>5. spoken(q, b) \in Nat
  BY DEF spoken
<1>6. 0 < spoken(q, b) /\ Tail(inbox[p]) = Segment(q, 1, spoken(q, b))
  <2>1. PICK n \in Nat : n = spoken(q, b)
    BY <1>5
  <2>2. inbox[p] = Segment(q, 0, n) /\ 0 \in Nat /\ 0 <= n /\ 1 = 0 + 1
    BY <1>2, <1>4, <2>1
  <2>3. 0 < n
    <3>1. Segment(q, 0, n) = <<>> <=> 0 = n
      BY <2>2, Segments
    <3>2. QED
      BY <1>3, <2>2, <3>1
  <2>4. Tail(Segment(q, 0, n)) = Segment(q, 1, n)
    BY <2>2, <2>3, FirstSaid
  <2>5. QED
    BY <2>1, <2>2, <2>3, <2>4
<1>7. Rounds \in Nat \ {0}
  BY BoundsAssumption
<1>8. CASE timed(p)
  <2>1. /\ inbox'[q] = Append(inbox[q], said(p, 2))
        /\ inbox'[p] = Tail(inbox[p])
    <3>1. said(p, 2) = keepalive("ping", {0})
      BY FirstNumbers
    <3>2. inbox' = post(taken(p), p, said(p, 2))
      BY <1>8, <3>1 DEF take_handshake
    <3>3. QED
      BY <1>1, <3>2, Posted DEF Alone
  <2>2. inbox'[q] = Segment(p, b, 2)
    <3>1. inbox[q] = Segment(p, b, 1) /\ 1 \in Nat /\ b <= 1 /\ 2 = 1 + 1
      BY <1>2, <1>4
    <3>2. Append(Segment(p, b, 1), said(p, 2)) = Segment(p, b, 2)
      BY <3>1, NextSaid
    <3>3. QED
      BY <2>1, <3>1, <3>2
  <2>3. timed(p)'
    BY <1>8 DEF Rests, timed
  <2>4. Reads(p, 1)' /\ spoken(p, 1)' = 2
    BY <1>3, <1>4, <1>7, <1>8, <2>3 DEF Reads, spoken
  <2>5. b <= 2 /\ 1 <= spoken(q, b) /\ 1 \in Nat
    BY <1>2, <1>4, <1>5, <1>6
  <2>6. QED
    BY <1>2, <1>6, <2>1, <2>2, <2>4, <2>5, OpenAgain DEF Rests
<1>9. CASE ~ timed(p)
  <2>1. inbox'[q] = inbox[q] /\ inbox'[p] = Tail(inbox[p]) /\ pc'[p] = "deciding"
    BY <1>1, <1>3, <1>9 DEF take_handshake, taken
  <2>2. ~ timed(q) /\ ~ timed(q)' /\ ~ timed(p)'
    BY <1>9 DEF Alone, Alike, timed, Rests
  <2>3. pc[q] = "greeting" /\ b = 0 /\ spoken(q, b) = 1
    BY <1>2, <1>6, <2>2 DEF Reads, spoken
  <2>4. inbox'[p] = <<>>
    <3>1. inbox'[p] = Segment(q, 1, 1) /\ 1 \in Nat /\ 1 <= 1
      BY <1>6, <2>1, <2>3
    <3>2. QED
      BY <3>1, Segments
  <2>5. inbox'[q] # <<>> /\ Head(inbox'[q]) = said(p, 1) /\ Tail(inbox'[q]) = <<>>
    <3>1. inbox'[q] = Segment(p, 0, 1)
      BY <1>2, <1>4, <2>1, <2>3
    <3>2. 0 \in Nat /\ 1 = 0 + 1
      OBVIOUS
    <3>3. /\ Segment(p, 0, 1) # <<>> /\ Head(Segment(p, 0, 1)) = said(p, 1)
          /\ Tail(Segment(p, 0, 1)) = <<>>
      BY <3>2, OneSaid
    <3>4. QED
      BY <3>1, <3>3
  <2>6. said(p, Last(p))' = said(p, 1)
    <3>1. Last(p)' = 1
      BY <2>2 DEF Last
    <3>2. said(p, 1)' = said(p, 1)
      BY SaidKept DEF Rests
    <3>3. QED
      BY <3>1, <3>2 DEF said
  <2>7. Follows(q, p)'
    BY <1>3, <1>4, <2>1, <2>2, <2>3, <2>4, <2>5, <2>6, EmptyBox DEF Follows, Rests
  <2>8. QED
    BY <2>7
<1>10. QED
  BY <1>8, <1>9

\* The messages by their numbers, again.
LEMMA NumberOf ==
  ASSUME NEW p, NEW k \in Nat, NEW n
  PROVE  /\ n = 2 * k + 2 => said(p, n) = keepalive("ping", {k})
         /\ n = 2 * k + 3 => said(p, n) = keepalive("pong", {k})
<1>1. /\ said(p, 2 * k + 2) = keepalive("ping", {k})
      /\ said(p, 2 * k + 3) = keepalive("pong", {k})
  BY Numbers
<1>2. QED
  BY <1>1, Zenon

\* What a step of the measurement does,
LEMMA MeasureEffect ==
  ASSUME AInv, NEW p \in Peers, NEW q, q = other(p), ~ cut, Live(q), measure(p),
         DOMAIN round = Peers
  PROVE  /\ pc[p] = "measuring" /\ inbox[p] # <<>> /\ inbox'[p] = Tail(inbox[p])
         /\ slot'[p] = slot[p]
         /\ LET m    == Head(inbox[p])
                mine == m.type = "pong" /\ m.seq = {round[p]}
                next == round[p] + 1
            IN  /\ round'[p] = IF mine THEN next ELSE round[p]
                /\ pc'[p] = IF mine /\ next = Rounds THEN "deciding" ELSE pc[p]
                /\ inbox'[q] = IF m.type = "ping" /\ m.seq # {}
                               THEN Append(inbox[q], keepalive("pong", m.seq))
                               ELSE IF mine /\ next < Rounds
                               THEN Append(inbox[q], keepalive("ping", {next}))
                               ELSE inbox[q]
<1>1. q \in Peers /\ q # p /\ DOMAIN inbox = Peers /\ DOMAIN pc = Peers
  BY OtherPeer DEF AInv, Base, Domains
<1> DEFINE m == message(p)
           next == round[p] + 1
           mine == m.type = "pong" /\ m.seq = {round[p]}
           pong == keepalive("pong", m.seq)
           more == keepalive("ping", {next})
<1>2. /\ pc[p] = "measuring" /\ inbox[p] # <<>> /\ slot'[p] = slot[p]
      /\ round' = [round EXCEPT ![p] = IF mine THEN next ELSE @]
      /\ pc' = [pc EXCEPT ![p] = IF mine /\ next = Rounds THEN "deciding" ELSE @]
      /\ inbox' = IF m.type = "ping" /\ m.seq # {} THEN post(taken(p), p, pong)
                  ELSE IF mine /\ next < Rounds THEN post(taken(p), p, more)
                  ELSE taken(p)
  BY DEF measure, arrived, settled
<1>3. /\ round'[p] = IF mine THEN next ELSE round[p]
      /\ pc'[p] = IF mine /\ next = Rounds THEN "deciding" ELSE pc[p]
  BY <1>1, <1>2
<1>4. inbox' = taken(p) => inbox'[q] = inbox[q] /\ inbox'[p] = Tail(inbox[p])
  BY <1>1 DEF taken
<1>5. inbox' = post(taken(p), p, pong)
        => inbox'[q] = Append(inbox[q], pong) /\ inbox'[p] = Tail(inbox[p])
  BY <1>1, Posted
<1>6. inbox' = post(taken(p), p, more)
        => inbox'[q] = Append(inbox[q], more) /\ inbox'[p] = Tail(inbox[p])
  BY <1>1, Posted
<1> HIDE DEF mine, next, pong, more
<1>7. /\ inbox'[p] = Tail(inbox[p])
      /\ inbox'[q] = IF m.type = "ping" /\ m.seq # {} THEN Append(inbox[q], pong)
                     ELSE IF mine /\ next < Rounds THEN Append(inbox[q], more)
                     ELSE inbox[q]
  BY <1>2, <1>4, <1>5, <1>6
<1>8. QED
  BY <1>2, <1>3, <1>7 DEF mine, next, pong, more, message

\* with a ping,
LEMMA PingEffect ==
  ASSUME AInv, NEW p \in Peers, NEW q, q = other(p), ~ cut, Live(q), measure(p),
         DOMAIN round = Peers, Head(inbox[p]).type = "ping", Head(inbox[p]).seq # {}
  PROVE  /\ inbox'[p] = Tail(inbox[p])
         /\ inbox'[q] = Append(inbox[q], keepalive("pong", Head(inbox[p]).seq))
         /\ round'[p] = round[p] /\ pc'[p] = pc[p]
BY MeasureEffect

\* and with the answer it waits for.
LEMMA PongEffect ==
  ASSUME AInv, NEW p \in Peers, NEW q, q = other(p), ~ cut, Live(q), measure(p),
         DOMAIN round = Peers, Head(inbox[p]).type = "pong", Head(inbox[p]).seq = {round[p]}
  PROVE  /\ inbox'[p] = Tail(inbox[p]) /\ round'[p] = round[p] + 1
         /\ IF round[p] + 1 = Rounds THEN pc'[p] = "deciding" ELSE pc'[p] = pc[p]
         /\ IF round[p] + 1 < Rounds
            THEN inbox'[q] = Append(inbox[q], keepalive("ping", {round[p] + 1}))
            ELSE inbox'[q] = inbox[q]
BY MeasureEffect

\* by the measurement, until p is through.
LEMMA MeasureOpens ==
  ASSUME AInv, NEW p \in Peers, NEW q, q = other(p), Alone(p, q), Rests(q), Live(q),
         DOMAIN round = Peers, round'[q] = round[q], BothOpen(p, q), measure(p)
  PROVE  BothOpen(p, q)' \/ Follows(q, p)'
<1>1. q \in Peers /\ q # p /\ Rounds \in Nat \ {0}
  BY OtherPeer, BoundsAssumption
<1>2. PICK a \in Nat, b \in Nat :
        /\ Reads(p, a) /\ Reads(q, b) /\ a <= spoken(q, b) /\ b <= spoken(p, a)
        /\ inbox[p] = Segment(q, a, spoken(q, b)) /\ inbox[q] = Segment(p, b, spoken(p, a))
  BY DEF BothOpen
<1>3. pc[p] = "measuring" /\ inbox[p] # <<>> /\ slot[p] = {} /\ slot'[p] = slot[p] /\ ~ cut
  BY Early DEF measure, arrived, settled, AInv, Base, Alone
<1>4. PICK r \in Nat : r = round[p]
  BY <1>2, <1>3 DEF Reads
<1>5. /\ r <= Rounds - 1 /\ timed(p) /\ timed(q) /\ spoken(p, a) = a + 1
      /\ a = 2 * r + 1 \/ a = 2 * r + 2
  <2>1. timed(p) /\ r \in 0..(Rounds - 1) /\ a \in {2 * r + 1, 2 * r + 2}
    BY <1>2, <1>3, <1>4 DEF Reads
  <2>2. timed(q)
    BY <2>1 DEF Alone, Alike, timed
  <2>3. spoken(p, a) = a + 1
    BY <1>3 DEF spoken
  <2>4. r <= Rounds - 1
    BY <1>1, <2>1
  <2>5. QED
    BY <2>1, <2>2, <2>3, <2>4
<1>6. PICK n \in Nat : n = spoken(q, b)
  BY DEF spoken
<1>7. a < n
  <2>1. a <= n
    BY <1>2, <1>6
  <2>2. Segment(q, a, n) = <<>> <=> a = n
    BY <2>1, Segments
  <2>3. QED
    BY <1>2, <1>3, <1>6, <2>1, <2>2
<1>8. PICK c \in Nat : c = a + 1
  OBVIOUS
<1>9. Head(inbox[p]) = said(q, c) /\ Tail(inbox[p]) = Segment(q, c, n) /\ c <= n
  <2>1. Head(Segment(q, a, n)) = said(q, c) /\ Tail(Segment(q, a, n)) = Segment(q, c, n)
    BY <1>7, <1>8, FirstSaid
  <2>2. QED
    BY <1>2, <1>6, <1>7, <1>8, <2>1
<1>10. PICK e \in Nat : e = c + 1
  OBVIOUS
<1>11. Append(inbox[q], said(p, e)) = Segment(p, b, e) /\ b <= c /\ b <= e
  <2>1. b <= c /\ inbox[q] = Segment(p, b, c)
    BY <1>2, <1>5, <1>8
  <2>2. Append(Segment(p, b, c), said(p, e)) = Segment(p, b, e)
    BY <1>10, <2>1, NextSaid
  <2>3. QED
    BY <1>10, <2>1, <2>2
<1>12. timed(p)' /\ timed(q)'
  BY <1>5 DEF Rests, timed
<1>13. ASSUME inbox'[p] = Tail(inbox[p]), inbox'[q] = Append(inbox[q], said(p, e)),
              pc'[p] = pc[p], Reads(p, c)'
       PROVE  BothOpen(p, q)'
  <2>1. spoken(p, c)' = e
    BY <1>3, <1>10, <1>13 DEF spoken
  <2>2. QED
    BY <1>2, <1>6, <1>9, <1>11, <1>13, <2>1, OpenAgain DEF Rests
<1>14. CASE a = 2 * r + 1
  <2>1. said(q, c) = keepalive("ping", {r}) /\ said(p, e) = keepalive("pong", {r})
    <3>1. c = 2 * r + 2 /\ e = 2 * r + 3
      BY <1>8, <1>10, <1>14
    <3>2. said(q, c) = keepalive("ping", {r})
      BY <3>1, NumberOf
    <3>3. said(p, e) = keepalive("pong", {r})
      BY <3>1, NumberOf
    <3>4. QED
      BY <3>2, <3>3
  <2>2. /\ inbox'[p] = Tail(inbox[p]) /\ inbox'[q] = Append(inbox[q], said(p, e))
        /\ pc'[p] = pc[p] /\ round'[p] = round[p]
    <3>1. /\ Head(inbox[p]).type = "ping" /\ Head(inbox[p]).seq = {r} /\ {r} # {}
      BY <1>9, <2>1 DEF keepalive
    <3>2. Head(inbox[p]).seq # {}
      BY <3>1
    <3>3. QED
      BY <1>3, <2>1, <3>1, <3>2, PingEffect
  <2>3. Reads(p, c)'
    BY <1>1, <1>3, <1>4, <1>5, <1>8, <1>12, <1>14, <2>2 DEF Reads
  <2>4. QED
    BY <1>13, <2>2, <2>3
<1>15. CASE a = 2 * r + 2
  <2>1. said(q, c) = keepalive("pong", {r})
    <3>1. c = 2 * r + 3
      BY <1>8, <1>15
    <3>2. QED
      BY <3>1, NumberOf
  <2>2. /\ inbox'[p] = Tail(inbox[p]) /\ round'[p] = r + 1
        /\ IF r + 1 = Rounds THEN pc'[p] = "deciding" ELSE pc'[p] = pc[p]
        /\ IF r + 1 < Rounds
           THEN inbox'[q] = Append(inbox[q], keepalive("ping", {r + 1}))
           ELSE inbox'[q] = inbox[q]
    <3>1. Head(inbox[p]).type = "pong" /\ Head(inbox[p]).seq = {round[p]}
      BY <1>4, <1>9, <2>1 DEF keepalive
    <3>2. QED
      BY <1>3, <1>4, <3>1, PongEffect
  <2>3. CASE r + 1 # Rounds
    <3>1. r + 1 < Rounds /\ r + 1 \in Nat /\ e = 2 * (r + 1) + 2 /\ c = 2 * (r + 1) + 1
      BY <1>1, <1>5, <1>8, <1>10, <1>15, <2>3
    <3>2. said(p, e) = keepalive("ping", {r + 1})
      BY <3>1, NumberOf
    <3>3. Reads(p, c)'
      BY <1>1, <1>3, <1>12, <2>2, <2>3, <3>1 DEF Reads
    <3>4. QED
      BY <1>13, <2>2, <2>3, <3>1, <3>2, <3>3
  <2>4. CASE r + 1 = Rounds
    <3>1. /\ pc[q] = "measuring" /\ round[q] = Rounds - 1 /\ n = c /\ c = 2 * Rounds + 1
          /\ b = a
      BY <1>1, <1>2, <1>5, <1>6, <1>7, <1>8, <1>15, <2>4 DEF Reads, spoken
    <3>2. inbox'[p] = <<>>
      <4>1. Segment(q, c, c) = <<>>
        BY EmptySegment
      <4>2. QED
        BY <1>9, <2>2, <3>1, <4>1
    <3>3. inbox'[q] # <<>> /\ Head(inbox'[q]) = said(p, c) /\ Tail(inbox'[q]) = <<>>
      <4>1. inbox'[q] = Segment(p, a, c)
        BY <1>1, <1>2, <1>5, <1>8, <2>2, <2>4, <3>1
      <4>2. Segment(p, a, c) # <<>> /\ Head(Segment(p, a, c)) = said(p, c)
            /\ Tail(Segment(p, a, c)) = <<>>
        BY <1>8, OneSaid
      <4>3. QED
        BY <4>1, <4>2
    <3>4. said(p, Last(p))' = said(p, c)
      <4>1. Last(p)' = c
        BY <1>12, <3>1 DEF Last
      <4>2. said(p, c)' = said(p, c)
        BY SaidKept DEF Rests
      <4>3. QED
        BY <4>1, <4>2 DEF said
    <3>5. pc'[p] = "deciding" /\ pc'[q] = "measuring" /\ round'[q] = Rounds - 1
      BY <2>2, <2>4, <3>1 DEF Rests
    <3>6. Follows(q, p)'
      BY <1>3, <1>12, <3>2, <3>3, <3>4, <3>5, EmptyBox DEF Follows
    <3>7. QED
      BY <3>6
  <2>5. QED
    BY <2>3, <2>4
<1>16. QED
  BY <1>5, <1>14, <1>15

\* A peer that is through moves on, and says nothing that belongs to the opening.
LEMMA ThroughEffect ==
  ASSUME DecisionsAreTimed, AInv, NEW p \in Peers, NEW q, q = other(p), Runs(p),
         pc[p] \notin Opening
  PROVE  \/ \E v : ends(p, v)
         \/ /\ pc'[p] \in {"deciding", "revealing", "acking"}
            /\ \E m : /\ m.type \in Kind /\ Deals(p, q, {m})
                      /\ m.type = "ack" => take_reveal(p)
<1>1. Domains
  BY DEF AInv, Base
<1>2. CASE decide(p)
  <2>1. PICK d : Proper(d) /\ Deals(p, q, {slot_message(p, d)})
    BY <1>1, <1>2, DecideEffect
  <2>2. slot_message(p, d).type \in Kind \ {"ack"}
    BY <2>1 DEF slot_message, Proper, Kind, Slots
  <2>3. pc'[p] = "deciding"
    BY <1>1, <1>2, DecideEffect
  <2>4. QED
    BY <2>1, <2>2, <2>3
<1>3. CASE Chats(p)
  <2>1. \E m : m.type \in Chat /\ Deals(p, q, {m})
    BY <1>1, <1>3, ChatEffect
  <2>2. pc'[p] = pc[p] /\ pc[p] \in {"deciding", "revealing", "acking"}
    <3>1. ~ greet(p) /\ ~ take_handshake(p) /\ ~ measure(p)
      BY DEF greet, take_handshake, measure, Opening
    <3>2. pc[p] \in {"deciding", "revealing", "acking"}
      BY <1>3, <3>1 DEF Chats, ping, answer_ping, skip_pong, Listening
    <3>3. QED
      BY <1>1, <1>3, <3>2, ChatEffect DEF Opening
  <2>3. QED
    BY <2>1, <2>2 DEF Kind, Chat
<1>4. CASE take_slot(p)
  <2>1. pc'[p] = "deciding" /\ Deals(p, q, {})
    BY <1>1, <1>4, TakeSlotEffect
  <2>2. PICK m : m.type \in Kind \ {"ack"}
    <3>1. keepalive("ping", {}).type \in Kind \ {"ack"}
      BY DEF keepalive, Kind, Chat
    <3>2. QED
      BY <3>1
  <2>3. Deals(p, q, {m})
    BY <2>1 DEF Deals
  <2>4. QED
    BY <2>1, <2>2, <2>3
<1>5. CASE reveal(p)
  <2>1. pc'[p] = "revealing" /\ \E d : Deals(p, q, {reveal_message(p, d)})
    BY <1>1, <1>5, RevealEffect
  <2>2. \A d : reveal_message(p, d).type \in Kind \ {"ack"}
    BY DEF reveal_message, Kind, Exchange
  <2>3. QED
    BY <2>1, <2>2
<1>6. CASE take_reveal(p)
  <2>1. pc'[p] = "acking" /\ \E r : Deals(p, q, {ack_message(p, r)})
    BY <1>1, <1>6, TakeRevealEffect
  <2>2. \A r : ack_message(p, r).type \in Kind
    BY DEF ack_message, Kind, Exchange
  <2>3. QED
    BY <1>6, <2>1, <2>2
<1>7. CASE take_ack(p) /\ ~ \E v : ends(p, v)
  <2>1. pc'[p] = "deciding" /\ Deals(p, q, {})
    BY <1>1, <1>7, TakeAckEffect
  <2>2. PICK m : m.type \in Kind \ {"ack"}
    <3>1. keepalive("ping", {}).type \in Kind \ {"ack"}
      BY DEF keepalive, Kind, Chat
    <3>2. QED
      BY <3>1
  <2>3. Deals(p, q, {m})
    BY <2>1 DEF Deals
  <2>4. QED
    BY <2>1, <2>2, <2>3
<1>8. CASE Stops(p)
  BY <1>1, <1>8, StopEffect
<1>9. QED
  BY <1>2, <1>3, <1>4, <1>5, <1>6, <1>7, <1>8 DEF Runs, Works, Chats, Stops

\* p is through first, and goes on talking.
LEMMA LeaderTalks ==
  ASSUME DecisionsAreTimed, AInv, NEW p \in Peers, NEW q, q = other(p), Alone(p, q), Runs(p),
         Rests(q), round'[q] = round[q], Follows(q, p)
  PROVE  Follows(q, p)'
<1>1. q \in Peers /\ q # p /\ DOMAIN inbox = Peers /\ Domains /\ ~ cut
  BY OtherPeer DEF AInv, Base, Domains, Alone
<1>2. pc[p] = "deciding" /\ slot[p] = {} /\ inbox[p] = <<>> /\ Live(q)
  BY DEF Follows, Live
<1>3. decide(p) \/ ping(p)
  <2>1. ~ arrived(p)
    BY <1>2 DEF arrived
  <2>2. ~ answer_ping(p) /\ ~ skip_pong(p) /\ ~ take_slot(p) /\ ~ hear_end(p)
    BY <1>1, <1>2, <2>1 DEF answer_ping, skip_pong, take_slot, hear_end, Substance, Live
  <2>3. ~ greet(p) /\ ~ reject_handshake(p) /\ ~ take_handshake(p) /\ ~ measure(p)
        /\ ~ forfeit(p) /\ ~ take_reveal(p) /\ ~ take_ack(p)
    BY <1>2 DEF greet, reject_handshake, take_handshake, measure, forfeit, take_reveal, take_ack
  <2>4. ~ close_match(p) /\ ~ reveal(p)
    BY <1>2 DEF close_match, reveal
  <2>5. QED
    BY <2>2, <2>3, <2>4 DEF Runs, Works
<1>4. \E m : m.type \in Slots \cup {"ping"} /\ inbox' = post(inbox, p, m)
  <2>1. CASE ping(p)
    <3>1. keepalive("ping", {}).type \in Slots \cup {"ping"}
      BY DEF keepalive
    <3>2. QED
      BY <2>1, <3>1 DEF ping
  <2>2. CASE decide(p)
    <3>1. PICK d \in Decides(color[p], game[p], other(p) \in offers[p]), t \in think(p) :
            inbox' = post(inbox, p, slot_message(p, [d EXCEPT !.elapsed = t]))
      BY <2>2 DEF decide
    <3>2. "kind" \in DOMAIN d /\ d.kind \in Slots
      BY DEF DecisionsAreTimed
    <3>3. slot_message(p, [d EXCEPT !.elapsed = t]).type \in Slots
      BY <3>2 DEF slot_message, Slots
    <3>4. QED
      BY <3>1, <3>3
  <2>3. QED
    BY <1>3, <2>1, <2>2
<1>5. PICK m : m.type \in Slots \cup {"ping"} /\ inbox' = post(inbox, p, m)
  BY <1>4
<1>6. inbox'[q] = Append(inbox[q], m) /\ inbox'[p] = <<>>
  BY <1>1, <1>2, <1>5, Posted
<1>7. pc'[p] = "deciding" /\ slot'[p] = {}
  BY <1>2, <1>3 DEF decide, ping, settled
<1>8. IsBox(inbox[q]) /\ inbox[q] # <<>>
  BY <1>1, BaseBoxes DEF AInv, Follows
<1>9. /\ inbox'[q] # <<>> /\ Head(inbox'[q]) = Head(inbox[q])
      /\ Tail(inbox'[q]) = Append(Tail(inbox[q]), m) /\ IsBox(Tail(inbox[q]))
  BY <1>6, <1>8, BehindFirst
<1>10. ~ Holds(Tail(inbox'[q]), {"handshake", "pong"} \cup Exchange)
  <2> DEFINE k == {"handshake", "pong"} \cup Exchange
  <2>1. m.type \notin k
    BY <1>5 DEF Slots, Exchange
  <2>2. ~ Holds(Tail(inbox[q]), k)
    BY DEF Follows
  <2> HIDE DEF k
  <2>3. ~ Holds(Append(Tail(inbox[q]), m), k)
    BY <1>9, <2>1, <2>2, AppendedBox
  <2>4. QED
    BY <1>9, <2>3 DEF k
<1>11. (timed(q)' <=> timed(q)) /\ said(p, Last(p))' = said(p, Last(p))
  <2>1. Last(p)' = Last(p)
    BY SaidKept DEF Rests
  <2>2. QED
    BY <2>1, SaidKept DEF Rests, said
<1>12. QED
  BY <1>6, <1>7, <1>9, <1>10, <1>11 DEF Follows, Rests

\* The last message of the opening is taken.
LEMMA LastTaken ==
  ASSUME AInv, NEW p \in Peers, NEW q, q = other(p), Alone(p, q), Runs(p), DOMAIN round = Peers,
         Rests(q), Follows(p, q)
  PROVE  BothThrough(p, q)'
<1>1. q \in Peers /\ q # p /\ DOMAIN inbox = Peers /\ DOMAIN pc = Peers /\ ~ cut
  BY OtherPeer DEF AInv, Base, Domains, Alone
<1>2. Live(q) /\ pc[q] = "deciding" /\ inbox[q] = <<>> /\ Rounds \in Nat \ {0}
  BY BoundsAssumption DEF Follows, Live
<1>3. pc'[p] = "deciding" /\ inbox'[p] = Tail(inbox[p]) /\ inbox'[q] = <<>>
  <2>1. CASE ~ timed(p)
    <3>1. pc[p] = "greeting"
      BY <2>1 DEF Follows
    <3>2. take_handshake(p)
      BY <3>1, OpeningActs DEF Opening, greet, measure
    <3>3. QED
      BY <1>1, <1>2, <2>1, <3>2 DEF take_handshake, taken
  <2>2. CASE timed(p)
    <3>1. pc[p] = "measuring" /\ round[p] = Rounds - 1
      BY <2>2 DEF Follows
    <3>2. measure(p)
      BY <3>1, OpeningActs DEF Opening, greet, take_handshake
    <3>3. Last(q) = 2 * Rounds + 1
      BY <2>2 DEF Last, Alone, Alike, timed
    <3>4. Head(inbox[p]) = keepalive("pong", {Rounds - 1})
      <4>1. Rounds - 1 \in Nat /\ 2 * Rounds + 1 = 2 * (Rounds - 1) + 3
        BY <1>2
      <4>2. said(q, 2 * Rounds + 1) = keepalive("pong", {Rounds - 1})
        BY <4>1, NumberOf
      <4>3. QED
        BY <3>3, <4>2 DEF Follows
    <3>5. Head(inbox[p]).type = "pong" /\ Head(inbox[p]).seq = {round[p]}
      BY <3>1, <3>4 DEF keepalive
    <3>6. round[p] + 1 = Rounds
      BY <1>2, <3>1
    <3>7. /\ inbox'[p] = Tail(inbox[p])
          /\ IF round[p] + 1 = Rounds THEN pc'[p] = "deciding" ELSE pc'[p] = pc[p]
          /\ IF round[p] + 1 < Rounds
             THEN inbox'[q] = Append(inbox[q], keepalive("ping", {round[p] + 1}))
             ELSE inbox'[q] = inbox[q]
      BY <1>1, <1>2, <3>2, <3>5, PongEffect
    <3>8. QED
      BY <1>2, <3>6, <3>7
  <2>3. QED
    BY <2>1, <2>2
<1>4. ~ Holds(inbox'[p], {"handshake"})
  BY <1>3 DEF Follows, Holds
<1>5. QED
  BY <1>2, <1>3, <1>4, EmptyBox DEF BothThrough, Rests, Opening

\* Both are through, and stay so.
LEMMA StayThrough ==
  ASSUME DecisionsAreTimed, AInv, NEW p \in Peers, NEW q, q = other(p), Runs(p), Rests(q),
         BothThrough(p, q)
  PROVE  BothThrough(p, q)'
<1>1. q \in Peers /\ q # p /\ Domains /\ Base
  BY OtherPeer DEF AInv, Base
<1>2. /\ pc[p] \notin Opening /\ pc'[q] = pc[q] /\ pc[q] \notin Opening
      /\ ~ Holds(inbox[p], {"handshake"}) /\ ~ Holds(inbox[q], {"handshake"})
  BY DEF BothThrough, Rests
<1>3. CASE \E v : ends(p, v)
  BY <1>1, <1>2, <1>3, EndEffect, EmptyBox DEF BothThrough, Opening
<1>4. CASE ~ \E v : ends(p, v)
  <2>1. pc'[p] \notin Opening
    BY <1>2, <1>4, ThroughEffect DEF Opening
  <2>2. \E m : m.type # "handshake" /\ Deals(p, q, {m})
    <3>1. CASE Chats(p)
      <4>1. ~ greet(p) /\ ~ take_handshake(p) /\ ~ measure(p)
        BY <1>2 DEF greet, take_handshake, measure, Opening
      <4>2. PICK x, y : x = keepalive("ping", {}) /\ y = keepalive("pong", {})
        OBVIOUS
      <4>3. CASE ping(p)
        BY <1>1, <4>2, <4>3, Dealt DEF Domains, ping, keepalive
      <4>4. CASE answer_ping(p)
        <5>1. inbox' = post(taken(p), p, y) /\ inbox[p] # <<>>
          BY <4>2, <4>4 DEF answer_ping, arrived
        <5>2. QED
          BY <1>1, <4>2, <5>1, Dealt DEF Domains, keepalive
      <4>5. CASE skip_pong(p)
        <5>1. inbox' = taken(p) /\ inbox[p] # <<>>
          BY <4>5 DEF skip_pong, arrived
        <5>2. Deals(p, q, {y})
          BY <1>1, <5>1, Dealt DEF Domains
        <5>3. QED
          BY <4>2, <5>2 DEF keepalive
      <4>6. QED
        BY <3>1, <4>1, <4>3, <4>4, <4>5 DEF Chats
    <3>2. CASE ~ Chats(p)
      <4>1. CASE decide(p)
        <5>1. PICK d : Proper(d) /\ Deals(p, q, {slot_message(p, d)})
          BY <1>1, <4>1, DecideEffect
        <5>2. slot_message(p, d).type # "handshake"
          BY <5>1 DEF slot_message, Proper, Slots
        <5>3. QED
          BY <5>1, <5>2
      <4>2. CASE reveal(p)
        BY <1>1, <4>2, RevealEffect DEF reveal_message
      <4>3. CASE take_reveal(p)
        BY <1>1, <4>3, TakeRevealEffect DEF ack_message
      <4>4. CASE take_slot(p) \/ take_ack(p)
        <5>1. Deals(p, q, {})
          BY <1>1, <1>4, <4>4, TakeSlotEffect, TakeAckEffect
        <5>2. Deals(p, q, {keepalive("ping", {})})
          BY <5>1 DEF Deals
        <5>3. QED
          BY <5>2 DEF keepalive
      <4>5. ~ Stops(p)
        BY <1>1, <1>4, StopEffect
      <4>6. QED
        BY <3>2, <4>1, <4>2, <4>3, <4>4, <4>5 DEF Runs, Works, Chats, Stops
    <3>3. QED
      BY <3>1, <3>2
  <2>3. PICK m : m.type # "handshake" /\ Deals(p, q, {m})
    BY <2>2
  <2>4. ~ Holds(inbox'[p], {"handshake"}) /\ ~ Holds(inbox'[q], {"handshake"})
    BY <1>1, <1>2, <2>3, AfterSend
  <2>5. QED
    BY <1>2, <2>1, <2>4 DEF BothThrough, Opening
<1>5. QED
  BY <1>3, <1>4

\* Every step of p keeps the two in one of the stages.
LEMMA StageStep ==
  ASSUME DecisionsAreTimed, AInv, NEW p \in Peers, NEW q, q = other(p), Alone(p, q), Runs(p),
         DOMAIN round = Peers, Rests(q), round'[q] = round[q]
  PROVE  Stage(p, q)' /\ Stage(q, p)'
<1>1. Stage(p, q)'
  <2>1. CASE BothOpen(p, q)
    <3>1. pc[p] \in Opening
      BY <2>1 DEF BothOpen, Reads, Opening
    <3>2. Live(q)
      BY <3>1, GreetingArrives
    <3>3. QED
      BY <2>1, <3>1, <3>2, OpeningActs, GreetOpens, HandshakeOpens, MeasureOpens DEF Stage
  <2>2. CASE Follows(q, p)
    BY <2>2, LeaderTalks DEF Stage
  <2>3. CASE Follows(p, q)
    BY <2>3, LastTaken DEF Stage
  <2>4. CASE BothThrough(p, q)
    BY <2>4, StayThrough DEF Stage
  <2>5. QED
    BY <2>1, <2>2, <2>3, <2>4 DEF Alone, Stage
<1>2. Stage(p, q)' => Stage(q, p)'
  BY DEF Stage, BothOpen, BothThrough
<1>3. QED
  BY <1>1, <1>2

-----------------------------------------------------------------------------
(***************************************************************************)
(* The order and the kinds of messages.                                    *)
(***************************************************************************)
\* Without a fault it is a peer that moves.
LEMMA Undisturbed ==
  ASSUME faults \in Nat, DOMAIN round = Peers, Next
  PROVE  /\ faults' \in Nat /\ DOMAIN round' = Peers
         /\ faults' = 0 => faults = 0 /\ \E p \in Peers : Runs(p)
<1>1. ASSUME NEW p \in Peers, Runs(p) PROVE faults' = faults /\ DOMAIN round' = Peers
  <2>1. CASE measure(p)
    BY <2>1 DEF measure
  <2>2. CASE greet(p) \/ reject_handshake(p) \/ take_handshake(p)
    BY <2>2 DEF greet, reject_handshake, take_handshake, terms
  <2>3. CASE answer_ping(p) \/ skip_pong(p) \/ take_slot(p) \/ ping(p) \/ decide(p)
    BY <2>3 DEF answer_ping, skip_pong, take_slot, ping, decide, terms
  <2>4. CASE close_match(p) \/ reveal(p) \/ forfeit(p) \/ take_reveal(p) \/ take_ack(p) \/ hear_end(p)
    BY <2>4 DEF close_match, reveal, forfeit, take_reveal, take_ack, hear_end, terms
  <2>5. QED
    BY <1>1, <2>1, <2>2, <2>3, <2>4 DEF Runs, Works
<1>2. ASSUME NEW p \in Peers, give_up(p) \/ reject_time(p) PROVE faults' = faults + 1 /\ round' = round
  BY <1>2 DEF give_up, reject_time
<1>3. ASSUME sever PROVE faults' = faults + 1 /\ round' = round
  BY <1>3 DEF sever
<1>4. CASE \E p \in Peers : Runs(p)
  BY <1>1, <1>4
<1>5. CASE ~ \E p \in Peers : Runs(p)
  <2>1. faults' = faults + 1 /\ round' = round
    BY <1>2, <1>3, <1>5 DEF Next, Runs
  <2>2. QED
    BY <2>1
<1>6. QED
  BY <1>4, <1>5

\* The other measures nothing in the meantime.
LEMMA OtherRound ==
  ASSUME NEW p \in Peers, NEW q \in Peers, q # p, Runs(p)
  PROVE  round'[q] = round[q]
<1>1. CASE measure(p)
  BY <1>1 DEF measure
<1>2. CASE greet(p) \/ reject_handshake(p) \/ take_handshake(p)
  BY <1>2 DEF greet, reject_handshake, take_handshake, terms
<1>3. CASE answer_ping(p) \/ skip_pong(p) \/ take_slot(p) \/ ping(p) \/ decide(p)
  BY <1>3 DEF answer_ping, skip_pong, take_slot, ping, decide, terms
<1>4. CASE close_match(p) \/ reveal(p) \/ forfeit(p) \/ take_reveal(p) \/ take_ack(p) \/ hear_end(p)
  BY <1>4 DEF close_match, reveal, forfeit, take_reveal, take_ack, hear_end, terms
<1>5. QED
  BY <1>1, <1>2, <1>3, <1>4 DEF Runs, Works

\* An ack is sent when no slot is on its way any more.
LEMMA AckedAfterSlots ==
  ASSUME AInv, NEW p \in Peers, NEW q, q = other(p), take_reveal(p)
  PROVE  /\ Holds(inbox[p], {"reveal"}) /\ Head(inbox[p]) \in Messages(inbox[p])
         /\ Head(inbox[p]).type = "reveal"
         /\ ~ Holds(inbox[q], Slots)
         /\ Live(q) => Even(p, q) /\ Even(q, p) /\ Revealed(q)
<1>1. q \in Peers /\ q # p /\ p = other(q) /\ Pair(p, q) /\ Pair(q, p) /\ Domains
  BY PairOf DEF AInv, Base
<1>2. /\ pc[p] = "revealing" /\ inbox[p] # <<>>
      /\ \E d \in choice[p], s \in slot[p] : acceptable(p, d, Head(inbox[p]), s)
  BY <1>1, TakeRevealEffect
<1>3. Head(inbox[p]).type = "reveal"
  BY <1>2 DEF acceptable, spoiled
<1>4. Head(inbox[p]) \in Messages(inbox[p]) /\ Holds(inbox[p], {"reveal"})
  <2>1. IsBox(inbox[p])
    BY BaseBoxes DEF AInv
  <2>2. QED
    BY <1>2, <1>3, <2>1, TakenBox, TakenMessages
<1>5. ASSUME Live(q) PROVE Even(p, q) /\ Even(q, p) /\ Revealed(q) /\ ~ Holds(inbox[q], Slots)
  <2>1. Live(p)
    BY <1>2 DEF Live
  <2>2. Even(p, q) /\ Revealed(q)
    BY <1>1, <1>3, <1>4, <1>5, <2>1 DEF Pair, Meet, Bothlive, Fits, RevealsFit
  <2>3. Even(q, p) /\ slot[q] # {}
    BY <1>1, <2>2 DEF Even, Pair, Loop
  <2>4. QED
    BY <1>1, <2>2, <2>3 DEF Pair, Meet, Orderly
<1>6. ~ Live(q) => ~ Holds(inbox[q], Slots)
  BY <1>1, EmptyBox DEF AInv, Base, SInv, Boxes, Live
<1>7. QED
  BY <1>3, <1>4, <1>5, <1>6

\* Messages stay of known kinds, and no ack gets behind a slot.
LEMMA OrderStep ==
  ASSUME DecisionsAreTimed, AInv, NEW p \in Peers, NEW q, q = other(p), Alone(p, q), Runs(p)
  PROVE  /\ Known(inbox'[p]) /\ Known(inbox'[q])
         /\ SlotIsLast(inbox'[p]) /\ SlotIsLast(inbox'[q])
         /\ (\A v : ~ ends(p, v)) => \A k : Holds(inbox[q], k) => Holds(inbox'[q], k)
<1>1. q \in Peers /\ q # p /\ Domains /\ Base
  BY OtherPeer DEF AInv, Base
<1>2. Known(inbox[p]) /\ Known(inbox[q]) /\ SlotIsLast(inbox[p]) /\ SlotIsLast(inbox[q])
  BY DEF Alone, Smooth
<1>3. CASE \E v : ends(p, v)
  <2>1. inbox'[p] = <<>> /\ inbox'[q] = inbox[q]
    BY <1>1, <1>3, EndEffect
  <2>2. Known(<<>>) /\ SlotIsLast(<<>>)
    BY DEF Known, SlotIsLast
  <2>3. QED
    BY <1>2, <1>3, <2>1, <2>2
<1>4. CASE ~ \E v : ends(p, v)
  <2>1. \E m : m.type \in Kind /\ Deals(p, q, {m}) /\ (m.type = "ack" => take_reveal(p))
    <3>1. CASE pc[p] \in Opening
      <4>1. Chats(p)
        BY <3>1, OpeningActs DEF Chats
      <4>2. \E m : m.type \in Chat /\ Deals(p, q, {m})
        BY <1>1, <4>1, ChatEffect
      <4>3. QED
        BY <4>2 DEF Kind, Chat
    <3>2. CASE pc[p] \notin Opening
      <4>1. \/ \E v : ends(p, v)
            \/ /\ pc'[p] \in {"deciding", "revealing", "acking"}
               /\ \E m : /\ m.type \in Kind /\ Deals(p, q, {m})
                         /\ m.type = "ack" => take_reveal(p)
        BY <3>2, ThroughEffect
      <4>2. QED
        BY <1>4, <4>1
    <3>3. QED
      BY <3>1, <3>2
  <2>2. PICK m : m.type \in Kind /\ Deals(p, q, {m}) /\ (m.type = "ack" => take_reveal(p))
    BY <2>1
  <2>3. m.type = "ack" => ~ Holds(inbox[q], Slots)
    BY <2>2, AckedAfterSlots
  <2>4. QED
    BY <1>1, <1>2, <2>2, <2>3, DealtOrder
<1>5. QED
  BY <1>3, <1>4

-----------------------------------------------------------------------------
(***************************************************************************)
(* Decisions, results and clocks.                                          *)
(***************************************************************************)
\* What a peer decides is timed when the match is, and accepts no offer but one
\* that stands.
LEMMA CandidDecision ==
  ASSUME DecisionsAreTimed, DecisionsAreCandid, NEW p,
         NEW d \in Decides(color[p], game[p], other(p) \in offers[p]), NEW t \in think(p),
         NEW e, e = [d EXCEPT !.elapsed = t]
  PROVE  /\ e.kind = "accept_draw" => other(p) \in offers[p]
         /\ timed(p) => e.elapsed # {}
<1>1. "kind" \in DOMAIN d /\ "elapsed" \in DOMAIN d
  BY DEF DecisionsAreTimed
<1>2. e.kind = d.kind /\ e.elapsed = t
  BY <1>1
<1>3. timed(p) => t # {}
  BY DEF think
<1>4. ASSUME other(p) \notin offers[p] PROVE d.kind # "accept_draw"
  <2>1. (other(p) \in offers[p]) = FALSE
    BY <1>4
  <2>2. d \in Decides(color[p], game[p], FALSE)
    BY <2>1
  <2>3. QED
    BY <2>2 DEF DecisionsAreCandid
<1>5. QED
  BY <1>2, <1>3, <1>4

\* A peer stays candid while it rests,
LEMMA CandidRests ==
  ASSUME NEW q, Rests(q), Candid(q)
  PROVE  Candid(q)'
<1>1. timed(q)' <=> timed(q)
  BY DEF Rests, timed
<1>2. Errors' = Errors
  BY DEF Errors
<1>3. QED
  BY <1>1, <1>2 DEF Rests, Candid, Live

\* and by what it does.
LEMMA CandidStep ==
  ASSUME DecisionsAreTimed, DecisionsAreCandid, OutcomesAreResults, AInv, NEW p \in Peers,
         NEW q, q = other(p), Alone(p, q), Runs(p), conf' = conf
  PROVE  Candid(p)'
<1>1. q \in Peers /\ q # p /\ Domains /\ Loop(p) /\ Candid(p)
  BY OtherPeer DEF AInv, Base, Alone, Smooth
<1>2. (timed(p)' <=> timed(p)) /\ Errors' = Errors
  BY DEF timed, Errors
<1>3. CASE \E v : ends(p, v)
  <2>1. PICK v : ends(p, v)
    BY <1>3
  <2>2. v \notin Errors
    BY <2>1, Unfailing
  <2>3. verdict'[p] = {v} /\ choice'[p] = {} /\ pending'[p] = {}
    BY <1>1, <2>1, EndEffect
  <2>4. QED
    BY <1>2, <2>2, <2>3 DEF Candid
<1>4. CASE Chats(p)
  <2>1. /\ offers'[p] = offers[p] /\ choice'[p] = choice[p] /\ pending'[p] = pending[p]
        /\ verdict'[p] = verdict[p] /\ Live(p)
        /\ pc'[p] = pc[p] \/ (pc[p] \in Opening /\ pc'[p] \in {"greeting", "measuring", "deciding"})
    BY <1>1, <1>4, ChatEffect DEF Keeping
  <2>2. pc[p] \in Opening => choice[p] = {}
    BY <1>1 DEF Loop, Opening
  <2>3. Live(p)'
    BY <2>1 DEF Live
  <2>4. QED
    BY <1>1, <1>2, <2>1, <2>2, <2>3 DEF Candid
<1>5. CASE decide(p)
  <2>1. /\ pc[p] = "deciding" /\ pc'[p] = "deciding" /\ offers'[p] = offers[p]
        /\ pending'[p] = pending[p] /\ verdict'[p] = verdict[p]
    BY <1>1, <1>5, DecideEffect
  <2>2. PICK d \in Decides(color[p], game[p], other(p) \in offers[p]), t \in think(p) :
          choice' = [choice EXCEPT ![p] = {[d EXCEPT !.elapsed = t]}]
    BY <1>5 DEF decide
  <2>3. PICK e : e = [d EXCEPT !.elapsed = t]
    OBVIOUS
  <2>4. choice'[p] = {e}
    BY <1>1, <2>2, <2>3 DEF Domains
  <2>5. /\ e.kind = "accept_draw" => other(p) \in offers[p]
        /\ timed(p) => e.elapsed # {}
    BY <2>3, CandidDecision
  <2>6. QED
    BY <1>1, <1>2, <2>1, <2>4, <2>5 DEF Candid, Live
<1>6. CASE take_slot(p)
  <2>1. /\ pc[p] = "deciding" /\ pc'[p] = "deciding" /\ offers'[p] = offers[p]
        /\ choice'[p] = choice[p] /\ pending'[p] = pending[p] /\ verdict'[p] = verdict[p]
    BY <1>1, <1>6, TakeSlotEffect
  <2>2. QED
    BY <1>1, <1>2, <2>1 DEF Candid, Live
<1>7. CASE reveal(p)
  <2>1. /\ pc[p] = "deciding" /\ pc'[p] = "revealing"
        /\ choice'[p] = choice[p] /\ pending'[p] = pending[p] /\ verdict'[p] = verdict[p]
    BY <1>1, <1>7, RevealEffect
  <2>2. QED
    BY <1>1, <1>2, <2>1 DEF Candid, Live
<1>8. CASE take_reveal(p)
  <2>1. /\ pc[p] = "revealing" /\ pc'[p] = "acking"
        /\ choice'[p] = choice[p] /\ verdict'[p] = verdict[p]
        /\ \E d, m : pending'[p] = {computed(p, d, m)}
    BY <1>1, <1>8, TakeRevealEffect
  <2>2. \A r \in pending'[p] : r.verdict \cap Errors = {}
    BY <2>1, ProgramsGiveResult
  <2>3. QED
    BY <1>1, <1>2, <2>1, <2>2 DEF Candid, Live
<1>9. CASE take_ack(p) /\ ~ \E v : ends(p, v)
  <2>1. /\ pc[p] = "acking" /\ pc'[p] = "deciding"
        /\ choice'[p] = {} /\ pending'[p] = {} /\ verdict'[p] = verdict[p]
    BY <1>1, <1>9, TakeAckEffect
  <2>2. QED
    BY <1>1, <1>2, <2>1 DEF Candid, Live
<1>10. CASE Stops(p)
  BY <1>1, <1>3, <1>10, StopEffect
<1>11. QED
  BY <1>3, <1>4, <1>5, <1>6, <1>7, <1>8, <1>9, <1>10 DEF Runs, Works, Chats, Stops

-----------------------------------------------------------------------------
(***************************************************************************)
(* What a peer waits for is on its way.                                    *)
(***************************************************************************)
\* Before p is through it hears nothing but what opens a match.
LEMMA OpeningHead ==
  ASSUME NEW p, NEW q, Stage(p, q), pc[p] \in Opening, inbox[p] # <<>>
  PROVE  Head(inbox[p]).type \in Chat
<1>1. \A i : said(q, i).type \in Chat
  BY DEF said, to_message, keepalive, Chat
<1>2. CASE BothOpen(p, q)
  <2>1. PICK a \in Nat, b \in Nat :
          a <= spoken(q, b) /\ inbox[p] = Segment(q, a, spoken(q, b))
    BY <1>2 DEF BothOpen
  <2>2. PICK n \in Nat : n = spoken(q, b)
    BY DEF spoken
  <2>3. a <= n /\ inbox[p] = Segment(q, a, n)
    BY <2>1, <2>2
  <2>4. Segment(q, a, n) = <<>> <=> a = n
    BY <2>3, Segments
  <2>5. a < n
    BY <2>3, <2>4
  <2>6. Head(Segment(q, a, n)) = said(q, a + 1)
    BY <2>5, FirstSaid
  <2>7. QED
    BY <1>1, <2>3, <2>6
<1>3. CASE Follows(p, q)
  BY <1>1, <1>3 DEF Follows
<1>4. ~ Follows(q, p) /\ ~ BothThrough(p, q)
  BY DEF Follows, BothThrough, Opening
<1>5. QED
  BY <1>2, <1>3, <1>4 DEF Stage

\* While neither game changes, a peer that trails has trailed before.
LEMMA TrailsBack ==
  ASSUME NEW p, NEW q, Pair(p, q), game'[p] = game[p], game'[q] = game[q]
  PROVE  /\ Even(p, q)' <=> Even(p, q)
         /\ Even(q, p)' <=> Even(p, q)
         /\ Trails(p, q)' => Trails(p, q)
         /\ Trails(q, p)' => Trails(q, p)
<1>1. IsBox(game[p]) /\ IsBox(game[q])
  BY DEF Pair, Loop
<1>2. Abreast(p, q)
  BY DEF Pair, Meet
<1>3. ASSUME Trails(p, q)' PROVE Trails(p, q)
  <2>1. Extended(game[p], game[q])
    BY <1>3 DEF Trails
  <2>2. game[p] # game[q]
    BY <1>1, <2>1, Lengths
  <2>3. ASSUME Trails(q, p) PROVE FALSE
    <3>1. Extended(game[q], game[p])
      BY <2>3 DEF Trails
    <3>2. QED
      BY <1>1, <2>1, <3>1, LongerGame DEF Extended
  <2>4. QED
    BY <1>2, <2>2, <2>3 DEF Abreast, Even
<1>4. ASSUME Trails(q, p)' PROVE Trails(q, p)
  <2>1. Extended(game[q], game[p])
    BY <1>4 DEF Trails
  <2>2. game[p] # game[q]
    BY <1>1, <2>1, Lengths
  <2>3. ASSUME Trails(p, q) PROVE FALSE
    <3>1. Extended(game[p], game[q])
      BY <2>3 DEF Trails
    <3>2. QED
      BY <1>1, <2>1, <3>1, LongerGame DEF Extended
  <2>4. QED
    BY <1>2, <2>2, <2>3 DEF Abreast, Even
<1>5. QED
  BY <1>3, <1>4 DEF Even

\* What the other waits for, when p is in the same phase or ahead.
LEMMA Owed ==
  ASSUME NEW p, NEW q, Alone(p, q), Bothlive(p, q)
  PROVE  Coming(p, q) /\ Coming(q, p)
BY DEF Alone, Smooth, Supplied, Bothlive

\* No peer reveals to one that is not through.
LEMMA NoneRevealed ==
  ASSUME NEW p, NEW q, Pair(p, q), Bothlive(p, q), pc[p] \in Opening, Even(p, q)
  PROVE  ~ Revealed(q)
<1>1. choice[p] = {} /\ Even(q, p)
  BY DEF Pair, Loop, Opening, Even
<1>2. HeldFits(q, p)
  BY DEF Pair, Meet, Fits, Bothlive
<1>3. slot[q] = {}
  BY <1>1, <1>2 DEF HeldFits
<1>4. QED
  BY <1>3 DEF Pair, Loop

\* Keepalive and greetings take none of it away,
LEMMA ChatComing ==
  ASSUME AInv, NEW p \in Peers, NEW q, q = other(p), Alone(p, q), Chats(p), Bothlive(p, q)
  PROVE  Coming(p, q)' /\ Coming(q, p)'
<1>1. q \in Peers /\ q # p /\ p = other(q) /\ Pair(p, q) /\ Pair(q, p) /\ Domains
  BY PairOf DEF AInv, Base
<1>2. Rests(q) /\ Base
  BY <1>1, Local DEF Acts, Works, Chats, AInv
<1>3. /\ \E m : Deals(p, q, {m}) /\ m.type \in Chat
      /\ game'[p] = game[p] /\ choice'[p] = choice[p] /\ slot'[p] = slot[p] /\ Live(p)
      /\ pc'[p] = pc[p] \/ (pc[p] \in Opening /\ pc'[p] \in {"greeting", "measuring", "deciding"})
  BY <1>1, ChatEffect DEF Keeping
<1>4. PICK m : Deals(p, q, {m}) /\ m.type \in Chat
  BY <1>3
<1>5. Chat \cap Slots = {} /\ Chat \cap {"reveal"} = {} /\ Chat \cap {"ack"} = {}
  BY Kinds
<1>6. inbox'[p] = inbox[p] \/ (inbox[p] # <<>> /\ inbox'[p] = Tail(inbox[p])
                                  /\ Head(inbox[p]).type \in Chat)
  <2>1. CASE inbox'[p] = inbox[p]
    BY <2>1
  <2>2. CASE inbox'[p] # inbox[p]
    <3>1. inbox[p] # <<>> /\ inbox'[p] = Tail(inbox[p])
      BY <1>4, <2>2 DEF Deals
    <3>2. CASE pc[p] \in Opening
      BY <3>1, <3>2, OpeningHead DEF Alone
    <3>3. CASE pc[p] \notin Opening
      <4>1. ~ greet(p) /\ ~ take_handshake(p) /\ ~ measure(p)
        BY <3>3 DEF greet, take_handshake, measure, Opening
      <4>2. ~ ping(p)
        <5>1. SUFFICES ASSUME ping(p) PROVE FALSE
          OBVIOUS
        <5>2. inbox' = post(inbox, p, keepalive("ping", {}))
          BY <5>1 DEF ping
        <5>3. inbox'[p] = inbox[p]
          BY <1>1, <5>2, Posted DEF Alone, Bothlive, Domains
        <5>4. QED
          BY <2>2, <5>3
      <4>3. answer_ping(p) \/ skip_pong(p)
        BY <4>1, <4>2 DEF Chats
      <4>4. QED
        BY <3>1, <4>3 DEF answer_ping, skip_pong, message, Chat
    <3>4. QED
      BY <3>2, <3>3
  <2>3. QED
    BY <2>1, <2>2
<1>7. IsBox(inbox[p]) /\ IsBox(inbox[q])
  BY <1>1, <1>2, BaseBoxes
<1>8. \A k \in {Slots, {"reveal"}, {"ack"}} : Holds(inbox[p], k) => Holds(inbox'[p], k)
  <2>1. SUFFICES ASSUME NEW k \in {Slots, {"reveal"}, {"ack"}}, Holds(inbox[p], k)
                 PROVE  Holds(inbox'[p], k)
    OBVIOUS
  <2>2. CASE inbox'[p] = inbox[p]
    BY <2>1, <2>2
  <2>3. CASE inbox[p] # <<>> /\ inbox'[p] = Tail(inbox[p]) /\ Head(inbox[p]).type \in Chat
    <3>1. Head(inbox[p]).type \notin k
      BY <1>5, <2>3
    <3>2. Known(inbox[p]) /\ SlotIsLast(inbox[p])
      BY DEF Alone, Smooth
    <3>3. QED
      BY <1>7, <2>1, <2>3, <3>1, FirstMessage
  <2>4. QED
    BY <1>6, <2>2, <2>3
<1>9. \A k : Holds(inbox[q], k) => Holds(inbox'[q], k)
  <2>1. inbox'[q] = inbox[q] \/ inbox'[q] = Append(inbox[q], m)
    BY <1>4 DEF Deals
  <2>2. \A k : Holds(inbox[q], k) => Holds(Append(inbox[q], m), k)
    BY <1>7, AppendedBox
  <2>3. QED
    BY <2>1, <2>2
<1>10. /\ Even(p, q)' <=> Even(p, q)
       /\ Even(q, p)' <=> Even(q, p)
       /\ Trails(p, q)' => Trails(p, q)
       /\ Trails(q, p)' => Trails(q, p)
  BY <1>1, <1>2, <1>3, TrailsBack DEF Rests, Even
<1>11. Coming(p, q) /\ Coming(q, p)
  BY Owed
<1>12. /\ choice'[q] = choice[q] /\ slot'[q] = slot[q] /\ pc'[q] = pc[q]
       /\ Revealed(q)' = Revealed(q)
  BY <1>2 DEF Rests, Revealed
<1>13. pc[p] \in Opening /\ Even(p, q) => ~ Revealed(q)
  BY <1>1, NoneRevealed
<1>14. Coming(p, q)'
  <2>1. pc'[p] \in Opening \cup {"deciding"} => pc[p] \in Opening \cup {"deciding"}
    BY <1>3
  <2>2. pc'[p] \in {"deciding", "revealing"} => pc[p] \in {"deciding", "revealing"} \cup Opening
    BY <1>3
  <2>3. QED
    BY <1>3, <1>8, <1>10, <1>11, <1>12, <1>13, <2>1, <2>2 DEF Coming
<1>15. Coming(q, p)'
  <2>1. /\ Revealed(p)' => Revealed(p)
        /\ pc'[p] = "acking" => pc[p] = "acking"
    BY <1>3 DEF Revealed
  <2>2. QED
    BY <1>3, <1>9, <1>10, <1>11, <1>12, <2>1 DEF Coming
<1>16. QED
  BY <1>14, <1>15

\* A decision sends a slot.
LEMMA DecideSends ==
  ASSUME DecisionsAreTimed, AInv, NEW p \in Peers, decide(p)
  PROVE  /\ \E m : m.type \in Slots /\ inbox' = post(inbox, p, m)
         /\ choice'[p] # {}
<1>1. PICK d \in Decides(color[p], game[p], other(p) \in offers[p]), t \in think(p) :
        /\ inbox' = post(inbox, p, slot_message(p, [d EXCEPT !.elapsed = t]))
        /\ choice' = [choice EXCEPT ![p] = {[d EXCEPT !.elapsed = t]}]
  BY DEF decide
<1>2. "kind" \in DOMAIN d /\ d.kind \in Slots
  BY DEF DecisionsAreTimed
<1>3. slot_message(p, [d EXCEPT !.elapsed = t]).type \in Slots
  BY <1>2 DEF slot_message, Slots
<1>4. p \in DOMAIN choice
  BY DEF AInv, Base, Domains
<1>5. QED
  BY <1>1, <1>3, <1>4

\* a decision sends what the other waits for,
LEMMA DecideComing ==
  ASSUME DecisionsAreTimed, AInv, NEW p \in Peers, NEW q, q = other(p), Alone(p, q),
         decide(p), Bothlive(p, q)
  PROVE  Coming(p, q)' /\ Coming(q, p)'
<1>1. q \in Peers /\ q # p /\ p = other(q) /\ Pair(p, q) /\ Pair(q, p) /\ Domains /\ Base
  BY PairOf DEF AInv, Base
<1>2. Rests(q)
  BY <1>1, Local DEF Acts
<1>3. /\ pc[p] = "deciding" /\ pc'[p] = "deciding"
      /\ game'[p] = game[p] /\ slot'[p] = slot[p]
  BY <1>1, DecideEffect
<1>4. PICK m : m.type \in Slots /\ inbox' = post(inbox, p, m)
  BY DecideSends
<1>5. inbox'[p] = inbox[p] /\ inbox'[q] = Append(inbox[q], m)
  BY <1>1, <1>4, Posted DEF Alone, Bothlive, Domains
<1>6. Holds(inbox'[q], Slots) /\ \A k : Holds(inbox[q], k) => Holds(inbox'[q], k)
  <2>1. IsBox(inbox[q])
    BY <1>1, BaseBoxes
  <2>2. QED
    BY <1>4, <1>5, <2>1, AppendedBox
<1>7. /\ Even(p, q)' <=> Even(p, q)
      /\ Even(q, p)' <=> Even(p, q)
      /\ Trails(p, q)' => Trails(p, q)
      /\ Trails(q, p)' => Trails(q, p)
  BY <1>1, <1>2, <1>3, TrailsBack DEF Rests
<1>8. Coming(p, q) /\ Coming(q, p)
  BY Owed
<1>9. /\ choice'[q] = choice[q] /\ slot'[q] = slot[q] /\ pc'[q] = pc[q]
      /\ Revealed(q)' = Revealed(q)
  BY <1>2 DEF Rests, Revealed
<1>10. Coming(p, q)'
  BY <1>3, <1>5, <1>7, <1>8, <1>9 DEF Coming
<1>11. ~ Revealed(p)'
  BY <1>3 DEF Revealed
<1>12. Coming(q, p)'
  BY <1>3, <1>6, <1>7, <1>8, <1>11 DEF Coming
<1>13. QED
  BY <1>10, <1>12

\* a slot that is taken was all that was waited for,
LEMMA TakeSlotComing ==
  ASSUME AInv, NEW p \in Peers, NEW q, q = other(p), Alone(p, q), take_slot(p), Bothlive(p, q)
  PROVE  Coming(p, q)' /\ Coming(q, p)'
<1>1. q \in Peers /\ q # p /\ p = other(q) /\ Pair(p, q) /\ Pair(q, p) /\ Domains /\ Base
  BY PairOf DEF AInv, Base
<1>2. Rests(q)
  BY <1>1, Local DEF Acts, Works
<1>3. /\ pc[p] = "deciding" /\ pc'[p] = "deciding"
      /\ game'[p] = game[p] /\ slot'[p] # {} /\ choice'[p] = choice[p]
      /\ inbox[p] # <<>> /\ Head(inbox[p]).type \in Slots /\ inbox' = taken(p)
  BY <1>1, TakeSlotEffect
<1>4. inbox'[p] = Tail(inbox[p]) /\ inbox'[q] = inbox[q]
  BY <1>1, <1>3 DEF taken, Domains
<1>5. \A k \in {{"reveal"}, {"ack"}} : Holds(inbox[p], k) => Holds(inbox'[p], k)
  <2>1. IsBox(inbox[p])
    BY <1>1, BaseBoxes
  <2>2. \A k \in {{"reveal"}, {"ack"}} : Head(inbox[p]).type \notin k
    BY <1>3, Kinds
  <2>3. \A k : Holds(inbox[p], k) => Head(inbox[p]).type \in k \/ Holds(Tail(inbox[p]), k)
    BY <1>3, <2>1, FirstMessage
  <2>4. QED
    BY <1>4, <2>2, <2>3
<1>6. /\ Even(p, q)' <=> Even(p, q)
      /\ Even(q, p)' <=> Even(p, q)
      /\ Trails(p, q)' => Trails(p, q)
      /\ Trails(q, p)' => Trails(q, p)
  BY <1>1, <1>2, <1>3, TrailsBack DEF Rests
<1>7. Coming(p, q) /\ Coming(q, p)
  BY Owed
<1>8. /\ choice'[q] = choice[q] /\ slot'[q] = slot[q] /\ pc'[q] = pc[q]
      /\ Revealed(q)' = Revealed(q)
  BY <1>2 DEF Rests, Revealed
<1>9. ~ Trails(p, q)
  BY <1>3 DEF Trails, Bothlive
<1>10. Coming(p, q)'
  BY <1>3, <1>5, <1>6, <1>7, <1>8, <1>9 DEF Coming
<1>11. ~ Revealed(p)'
  BY <1>3 DEF Revealed
<1>12. Coming(q, p)'
  BY <1>3, <1>4, <1>6, <1>7, <1>8, <1>11 DEF Coming, Even
<1>13. QED
  BY <1>10, <1>12

\* a reveal sends what the other waits for next,
LEMMA RevealComing ==
  ASSUME AInv, NEW p \in Peers, NEW q, q = other(p), Alone(p, q), reveal(p), Bothlive(p, q)
  PROVE  Coming(p, q)' /\ Coming(q, p)'
<1>1. q \in Peers /\ q # p /\ p = other(q) /\ Pair(p, q) /\ Pair(q, p) /\ Domains /\ Base
  BY PairOf DEF AInv, Base
<1>2. Rests(q)
  BY <1>1, Local DEF Acts, Works
<1>3. /\ pc[p] = "deciding" /\ pc'[p] = "revealing"
      /\ game'[p] = game[p] /\ slot'[p] = slot[p] /\ choice'[p] = choice[p]
  BY <1>1, RevealEffect
<1>4. PICK m : m.type = "reveal" /\ inbox' = post(inbox, p, m)
  BY DEF reveal, reveal_message
<1>5. inbox'[p] = inbox[p] /\ inbox'[q] = Append(inbox[q], m)
  BY <1>1, <1>4, Posted DEF Alone, Bothlive, Domains
<1>6. Holds(inbox'[q], {"reveal"}) /\ \A k : Holds(inbox[q], k) => Holds(inbox'[q], k)
  <2>1. IsBox(inbox[q])
    BY <1>1, BaseBoxes
  <2>2. QED
    BY <1>4, <1>5, <2>1, AppendedBox
<1>7. /\ Even(p, q)' <=> Even(p, q)
      /\ Even(q, p)' <=> Even(p, q)
      /\ Trails(p, q)' => Trails(p, q)
  BY <1>1, <1>2, <1>3, TrailsBack DEF Rests
<1>8. Coming(p, q) /\ Coming(q, p)
  BY Owed
<1>9. /\ choice'[q] = choice[q] /\ slot'[q] = slot[q] /\ pc'[q] = pc[q]
      /\ Revealed(q)' = Revealed(q)
  BY <1>2 DEF Rests, Revealed
<1>10. Coming(p, q)'
  BY <1>3, <1>5, <1>7, <1>8, <1>9 DEF Coming, Opening
<1>11. ~ Trails(q, p)'
  BY <1>3 DEF Trails
<1>12. Coming(q, p)'
  BY <1>3, <1>6, <1>7, <1>8, <1>9, <1>11 DEF Coming, Even
<1>13. QED
  BY <1>10, <1>12

\* and so does an ack.
LEMMA TakeRevealComing ==
  ASSUME AInv, NEW p \in Peers, NEW q, q = other(p), Alone(p, q), take_reveal(p), Bothlive(p, q)
  PROVE  Coming(p, q)' /\ Coming(q, p)'
<1>1. q \in Peers /\ q # p /\ p = other(q) /\ Pair(p, q) /\ Pair(q, p) /\ Domains /\ Base
  BY PairOf DEF AInv, Base
<1>2. Rests(q)
  BY <1>1, Local DEF Acts, Works
<1>3. /\ pc[p] = "revealing" /\ pc'[p] = "acking" /\ inbox[p] # <<>>
      /\ game'[p] = game[p] /\ slot'[p] = slot[p] /\ choice'[p] = choice[p]
  BY <1>1, TakeRevealEffect
<1>4. PICK m : m.type = "ack" /\ inbox' = post(taken(p), p, m)
  BY DEF take_reveal, ack_message
<1>5. inbox'[p] = Tail(inbox[p]) /\ inbox'[q] = Append(inbox[q], m)
  BY <1>1, <1>4, Posted DEF Alone, Bothlive, Domains
<1>6. Holds(inbox'[q], {"ack"}) /\ \A k : Holds(inbox[q], k) => Holds(inbox'[q], k)
  <2>1. IsBox(inbox[q])
    BY <1>1, BaseBoxes
  <2>2. QED
    BY <1>4, <1>5, <2>1, AppendedBox
<1>7. Holds(inbox[p], {"ack"}) => Holds(inbox'[p], {"ack"})
  <2>1. IsBox(inbox[p])
    BY <1>1, BaseBoxes
  <2>2. Head(inbox[p]).type \notin {"ack"}
    BY AckedAfterSlots
  <2>3. Holds(inbox[p], {"ack"}) => Head(inbox[p]).type \in {"ack"} \/ Holds(Tail(inbox[p]), {"ack"})
    BY <1>3, <2>1, FirstMessage
  <2>4. QED
    BY <1>5, <2>2, <2>3
<1>8. /\ Even(p, q)' <=> Even(p, q)
      /\ Even(q, p)' <=> Even(p, q)
      /\ Trails(p, q)' => Trails(p, q)
  BY <1>1, <1>2, <1>3, TrailsBack DEF Rests
<1>9. Coming(p, q) /\ Coming(q, p)
  BY Owed
<1>10. /\ choice'[q] = choice[q] /\ slot'[q] = slot[q] /\ pc'[q] = pc[q]
       /\ Revealed(q)' = Revealed(q)
  BY <1>2 DEF Rests, Revealed
<1>11. ~ Trails(p, q)'
  BY <1>3, <1>8 DEF Trails, Bothlive
<1>12. Coming(p, q)'
  BY <1>3, <1>7, <1>8, <1>9, <1>10, <1>11 DEF Coming, Opening
<1>13. ~ Trails(q, p)' /\ Revealed(p)
  BY <1>3 DEF Trails, Revealed
<1>14. Coming(q, p)'
  BY <1>3, <1>6, <1>8, <1>9, <1>10, <1>13 DEF Coming, Even
<1>15. QED
  BY <1>12, <1>14

\* An ack that confirms a result opens the next phase, for both or, while the other
\* still waits for its own ack, for the first of them.
LEMMA TakeAckComing ==
  ASSUME AInv, NEW p \in Peers, NEW q, q = other(p), Alone(p, q), take_ack(p), Bothlive(p, q),
         \A v : ~ ends(p, v)
  PROVE  /\ Coming(p, q)' /\ Coming(q, p)'
         /\ \E r \in pending[p] :
              /\ game'[p] = r.game /\ banks'[p] = {e.after : e \in r.ledger}
              /\ Extended(game[p], r.game) /\ pending[p] = {r}
              /\ Even(p, q) => Trails(q, p)' /\ r \in pending[q] /\ pc[q] = "acking" /\ ~ Even(p, q)'
         /\ Trails(p, q) => Even(p, q)'
         /\ Even(p, q) \/ Trails(p, q)
         /\ pc'[p] = "deciding" /\ inbox'[q] = inbox[q]
<1>1. q \in Peers /\ q # p /\ p = other(q) /\ Pair(p, q) /\ Pair(q, p) /\ Domains /\ Base /\ Opened
  BY PairOf DEF AInv, Base
<1>2. Rests(q)
  BY <1>1, Local DEF Acts, Works
<1>3. pc[p] = "acking" /\ inbox[p] # <<>> /\ offers'[p] = offers[p]
  BY <1>1, TakeAckEffect
<1>4. PICK r \in pending[p] :
        /\ Head(inbox[p]) = ack_message(p, r) /\ game'[p] = r.game
        /\ banks'[p] = {e.after : e \in r.ledger}
        /\ r.verdict = {} /\ pc'[p] = "deciding" /\ inbox' = taken(p)
        /\ choice'[p] = {} /\ slot'[p] = {} /\ pending'[p] = {}
  BY <1>1, TakeAckEffect
<1>5. inbox'[p] = Tail(inbox[p]) /\ inbox'[q] = inbox[q]
  BY <1>1, <1>4 DEF taken, Domains
<1>6. pending[p] = {r} /\ Extended(game[p], r.game) /\ slot[p] # {} /\ Revealed(p)
  BY <1>1, <1>3, <1>4 DEF Pair, Loop, One, Outcome, Revealed
<1>7. /\ game'[q] = game[q] /\ pc'[q] = pc[q] /\ choice'[q] = choice[q] /\ slot'[q] = slot[q]
      /\ Revealed(q)' = Revealed(q)
  BY <1>2 DEF Rests, Revealed
<1>8. Coming(p, q) /\ Coming(q, p)
  BY Owed
<1>9. Even(p, q) \/ Trails(p, q)
  BY <1>1, <1>3 DEF Pair, Meet, Abreast, Trails, Bothlive
<1>10. ~ Revealed(p)' /\ Live(p)'
  BY <1>4 DEF Revealed, Live
<1>11. /\ IsBox(inbox[p])
       /\ \A k : Holds(inbox'[p], k) => Holds(inbox[p], k)
       /\ Holds(inbox[p], Slots) => Holds(inbox'[p], Slots)
  <2>1. IsBox(inbox[p])
    BY <1>1, BaseBoxes
  <2>2. Head(inbox[p]).type = "ack"
    BY <1>4 DEF ack_message
  <2>3. Head(inbox[p]).type \notin Slots
    BY <2>2, Kinds
  <2>4. \A k : Holds(inbox[p], k) <=> Head(inbox[p]).type \in k \/ Holds(Tail(inbox[p]), k)
    BY <1>3, <2>1, FirstMessage
  <2>5. QED
    BY <1>5, <2>1, <2>3, <2>4
<1>12. CASE Even(p, q)
  <2>1. ~ Holds(inbox'[p], Slots)
    BY <1>1, <1>6, <1>11, <1>12 DEF Pair, Meet, Orderly
  <2>2. /\ Even(p, q) /\ Extended(game[p], r.game) => Trails(q, p)'
        /\ Even(p, q) /\ Live(q) => pc[q] = "acking" /\ r \in pending[q]
    BY <1>1, <1>2, <1>3, <1>4, <1>5, <2>1, Confirmed
  <2>3. Trails(q, p)' /\ pc[q] = "acking" /\ r \in pending[q]
    BY <1>6, <1>12, <2>2 DEF Bothlive
  <2>4. IsBox(game[q]) /\ Even(q, p)
    BY <1>1, <1>12 DEF Pair, Loop, Even
  <2>5. ~ Even(p, q)' /\ ~ Even(q, p)'
    <3>1. Extended(game[q], game'[p])
      BY <1>7, <2>3 DEF Trails
    <3>2. game'[p] # game[q]
      BY <2>4, <3>1, Lengths
    <3>3. QED
      BY <1>7, <3>2 DEF Even
  <2>6. ~ Trails(p, q)'
    BY <1>4, <1>10 DEF Trails
  <2>7. Coming(p, q)'
    BY <2>5, <2>6 DEF Coming
  <2>8. Holds(inbox'[q], {"ack"})
    BY <1>3, <1>5, <1>8, <2>4 DEF Coming
  <2>9. Coming(q, p)'
    BY <1>4, <2>5, <2>8 DEF Coming
  <2>10. ~ Trails(p, q)
    BY <1>1, <1>12, Lengths DEF Pair, Loop
  <2>11. QED
    BY <1>4, <1>5, <1>6, <1>12, <2>3, <2>5, <2>7, <2>9, <2>10
<1>13. CASE Trails(p, q)
  <2>1. Even(p, q)' /\ Even(q, p)'
    BY <1>4, <1>7, <1>13 DEF Trails, Even, Bothlive
  <2>2. IsBox(game[p]) /\ IsBox(game[q]) /\ ~ Even(p, q)
    BY <1>1, <1>13, Lengths DEF Pair, Loop
  <2>3. pc[q] = "deciding" /\ ~ Revealed(q)'
    BY <1>7, <1>13 DEF Trails, Bothlive, Live, Revealed
  <2>4. Holds(inbox[p], {"ack"}) /\ (choice[q] # {} => Holds(inbox[p], Slots))
    BY <1>8, <1>13 DEF Coming
  <2>5. ~ Trails(p, q)' /\ ~ Trails(q, p)'
    BY <1>4, <1>7, <2>3, <1>10 DEF Trails, Live
  <2>6. Coming(p, q)'
    BY <1>4, <1>7, <1>11, <2>3, <2>4, <2>5 DEF Coming
  <2>7. Coming(q, p)'
    BY <1>4, <1>10, <2>5 DEF Coming
  <2>8. QED
    BY <1>4, <1>5, <1>6, <1>13, <2>1, <2>2, <2>6, <2>7
<1>14. QED
  BY <1>9, <1>12, <1>13

\* Together: while both play on, what each waits for is on its way.
LEMMA ComingStep ==
  ASSUME DecisionsAreTimed, AInv, NEW p \in Peers, NEW q, q = other(p), Alone(p, q), Runs(p),
         Bothlive(p, q), \A v : ~ ends(p, v)
  PROVE  Coming(p, q)' /\ Coming(q, p)'
<1>1. Domains
  BY DEF AInv, Base
<1>2. ~ Stops(p)
  BY <1>1, StopEffect
<1>3. CASE Chats(p)
  BY <1>3, ChatComing
<1>4. CASE decide(p)
  BY <1>4, DecideComing
<1>5. CASE take_slot(p)
  BY <1>5, TakeSlotComing
<1>6. CASE reveal(p)
  BY <1>6, RevealComing
<1>7. CASE take_reveal(p)
  BY <1>7, TakeRevealComing
<1>8. CASE take_ack(p)
  BY <1>8, TakeAckComing
<1>9. QED
  BY <1>2, <1>3, <1>4, <1>5, <1>6, <1>7, <1>8 DEF Runs, Works, Chats, Stops

-----------------------------------------------------------------------------
(***************************************************************************)
(* What arrives is what is expected.                                       *)
(***************************************************************************)
\* From the same clock and the same two decisions both compute the same.
LEMMA ComputedAlike ==
  ASSUME NEW p, NEW q, Facing(p, q), Even(p, q), banks[p] = banks[q],
         conf[p].clock = conf[q].clock, NEW d, NEW e
  PROVE  computed(p, d, e) = computed(q, e, d)
<1>1. times(p, d, e) = times(q, e, d)
  BY ByColor DEF times
<1>2. control(p) = control(q) /\ phase(p) = phase(q) /\ game[p] = game[q]
  BY DEF control, phase, Even
<1>3. fallen(p, d, e) = fallen(q, e, d)
  BY <1>1 DEF fallen
<1>4. ledger(p, d, e) = ledger(q, e, d)
  BY <1>1, <1>2 DEF ledger
<1>5. \A n : limit(p, n) = limit(q, n)
  BY DEF limit, Facing
<1>6. by_color(p, d.program, e.program) = by_color(q, e.program, d.program)
  BY ByColor
<1>7. QED
  BY <1>2, <1>3, <1>4, <1>5, <1>6 DEF computed

\* A slot is of this phase and accepts an offer only when it stands,
LEMMA SlotExpected ==
  ASSUME AInv, NEW p \in Peers, NEW q, q = other(p), Bothlive(p, q), Candid(q),
         pc[p] = "deciding", NEW m \in slot[p] \cup Messages(inbox[p]), m.type \in Slots
  PROVE  m.phase = phase(p) /\ (m.type = "accept_draw" => p \in offers[p])
<1>1. q \in Peers /\ q # p /\ p = other(q) /\ Pair(p, q) /\ Pair(q, p)
  BY PairOf
<1>2. Even(p, q)
  <2>1. slot[p] # {} \/ Holds(inbox[p], Slots)
    BY HoldsMessages
  <2>2. QED
    BY <1>1, <2>1, SamePhase DEF Bothlive
<1>3. Fits(p, q)
  BY <1>1 DEF Pair, Meet
<1>4. PICK d \in choice[q] : m = slot_message(q, d)
  BY <1>2, <1>3 DEF Fits, SlotsFit, HeldFits
<1>5. m.phase = phase(q) /\ m.type = d.kind
  BY <1>4 DEF slot_message
<1>6. phase(p) = phase(q)
  BY <1>2 DEF Even, phase
<1>7. ASSUME m.type = "accept_draw" PROVE p \in offers[p]
  <2>1. pc[q] \in {"deciding", "revealing", "acking"}
    BY <1>1, <1>4 DEF Pair, Loop
  <2>2. ~ Revealed(q)
    BY <1>1, <1>4, <1>5, <1>7 DEF Pair, Loop
  <2>3. pc[q] = "deciding"
    BY <2>1, <2>2 DEF Revealed
  <2>4. p \in offers[q]
    BY <1>1, <1>4, <1>5, <1>7, <2>3 DEF Candid
  <2>5. ~ Revealed(p)
    BY DEF Revealed
  <2>6. QED
    BY <1>2, <1>3, <2>2, <2>4, <2>5 DEF Fits, OffersFit
<1>8. QED
  BY <1>5, <1>6, <1>7

\* a reveal is what was committed to, with a time if the match is timed,
LEMMA RevealExpected ==
  ASSUME AInv, NEW p \in Peers, NEW q, q = other(p), Bothlive(p, q), Alike(p, q),
         Candid(p), Candid(q), pc[p] = "revealing",
         NEW m \in Messages(inbox[p]), m.type = "reveal", NEW d \in choice[p], NEW s \in slot[p]
  PROVE  ~ spoiled(p, d, m, s)
<1>1. q \in Peers /\ q # p /\ p = other(q) /\ Pair(p, q) /\ Pair(q, p)
  BY PairOf
<1>2. Fits(p, q)
  BY <1>1 DEF Pair, Meet
<1>3. Even(p, q) /\ Revealed(q)
  BY <1>2 DEF Fits, RevealsFit
<1>4. PICK e \in choice[q] : m = reveal_message(q, e)
  BY <1>2 DEF Fits, RevealsFit
<1>5. PICK f \in choice[q] : s = slot_message(q, f)
  BY <1>2, <1>3 DEF Fits, HeldFits
<1>6. f = e /\ e.kind = "commit"
  BY <1>1, <1>3, <1>4, <1>5 DEF Pair, Loop, One
<1>7. s.hash = commitment(e) /\ commitment(m) = commitment(e)
  BY <1>4, <1>5, <1>6 DEF slot_message, reveal_message, commitment
<1>8. m.phase = phase(p) /\ m.elapsed = e.elapsed
  BY <1>3, <1>4 DEF reveal_message, phase, Even
<1>9. timed(p) => d.elapsed # {} /\ e.elapsed # {}
  BY <1>4 DEF Candid, Alike, timed
<1>10. QED
  BY <1>7, <1>8, <1>9 DEF spoiled

\* and an ack confirms what p has computed, when both clocks say the same.
LEMMA AckExpected ==
  ASSUME AInv, NEW p \in Peers, NEW q, q = other(p), Bothlive(p, q), Alike(p, q),
         SameClock(p, q), Even(p, q), pc[p] = "acking",
         NEW m \in Messages(inbox[p]), m.type = "ack", NEW r \in pending[p]
  PROVE  m = ack_message(p, r)
<1>1. q \in Peers /\ q # p /\ p = other(q) /\ Pair(p, q) /\ Pair(q, p) /\ Base /\ Opened
  BY PairOf DEF AInv
<1>2. Fits(p, q) /\ Fits(q, p) /\ Even(q, p)
  BY <1>1 DEF Pair, Meet, Bothlive, Even
<1>3. ~ Trails(p, q)
  BY <1>1, Lengths DEF Pair, Loop
<1>4. pc[q] = "acking"
  BY <1>2, <1>3 DEF Fits, AcksFit
<1>5. PICK s \in pending[q] : m = ack_message(q, s)
  BY <1>2, <1>3 DEF Fits, AcksFit
<1>6. PICK d \in choice[p], e \in choice[q] : TRUE
  BY <1>1, <1>4 DEF Pair, Loop, Revealed
<1>7. r = computed(p, d, e)
  BY <1>2, <1>6 DEF Fits, ResultFits
<1>8. s = computed(q, e, d)
  BY <1>2, <1>4, <1>5, <1>6 DEF Fits, ResultFits
<1>9. Facing(p, q)
  BY <1>1, <1>4, Faced DEF Past
<1>10. banks[p] = banks[q] /\ conf[p].clock = conf[q].clock
  BY DEF SameClock, Alike
<1>11. r = s
  BY <1>7, <1>8, <1>9, <1>10, ComputedAlike
<1>12. ack_message(p, r) = ack_message(q, s)
  BY <1>11 DEF ack_message, phase, Even
<1>13. QED
  BY <1>5, <1>12

\* The same of every pair of peers, as a statement about a state.
Fitting ==
  \A p \in Peers, q \in Peers :
    q = other(p) /\ AInv /\ Bothlive(p, q) /\ Alike(p, q) /\ Candid(p) /\ Candid(q) /\ SameClock(p, q)
      => /\ pc[p] = "acking" /\ Even(p, q) => Expected(p)
         /\ pc[p] # "acking" => Expected(p)

\* It holds of any state,
LEMMA FittingHolds == Fitting
<1>1. SUFFICES ASSUME NEW p \in Peers, NEW q \in Peers, q = other(p), AInv, Bothlive(p, q),
                      Alike(p, q), Candid(p), Candid(q), SameClock(p, q)
               PROVE  /\ pc[p] = "acking" /\ Even(p, q) => Expected(p)
                      /\ pc[p] # "acking" => Expected(p)
  BY DEF Fitting
<1>2. pc[p] = "acking" /\ Even(p, q) => Expected(p)
  BY <1>1, AckExpected DEF Expected
<1>3. pc[p] # "acking" => Expected(p)
  BY <1>1, SlotExpected, RevealExpected DEF Expected
<1>4. QED
  BY <1>2, <1>3

\* and so of the state after a step.
LEMMA FittingAfter == Fitting'
BY FittingHolds, PTL

\* What was expected still is, when nothing has come to be read.
LEMMA ExpectedKept ==
  ASSUME NEW p, Expected(p), conf' = conf, pc'[p] = pc[p], game'[p] = game[p],
         offers'[p] = offers[p], choice'[p] = choice[p], pending'[p] = pending[p],
         pc[p] = "deciding" => slot'[p] \cup Messages(inbox'[p]) \subseteq slot[p] \cup Messages(inbox[p]),
         pc[p] = "revealing" => /\ slot'[p] = slot[p]
                                /\ \A m \in Messages(inbox'[p]) :
                                     m \in Messages(inbox[p]) \/ m.type # "reveal",
         pc[p] = "acking" => \A m \in Messages(inbox'[p]) :
                               m \in Messages(inbox[p]) \/ m.type # "ack"
  PROVE  Expected(p)'
<1>1. /\ phase(p)' = phase(p) /\ (timed(p)' <=> timed(p))
      /\ \A r : ack_message(p, r)' = ack_message(p, r)
  BY DEF phase, timed, ack_message
<1>2. \A d, m, s : spoiled(p, d, m, s)' <=> spoiled(p, d, m, s)
  BY <1>1 DEF spoiled
<1>3. ASSUME pc'[p] = "deciding", NEW m \in slot'[p] \cup Messages(inbox'[p]), m.type \in Slots
      PROVE  m.phase = phase(p)' /\ (m.type = "accept_draw" => p \in offers'[p])
  BY <1>1, <1>3 DEF Expected
<1>4. ASSUME pc'[p] = "revealing", NEW m \in Messages(inbox'[p]), NEW d \in choice'[p],
             NEW s \in slot'[p], m.type = "reveal"
      PROVE  ~ spoiled(p, d, m, s)'
  BY <1>2, <1>4 DEF Expected
<1>5. ASSUME pc'[p] = "acking", NEW m \in Messages(inbox'[p]), NEW r \in pending'[p], m.type = "ack"
      PROVE  m = ack_message(p, r)'
  BY <1>1, <1>5 DEF Expected
<1>6. QED
  BY <1>3, <1>4, <1>5 DEF Expected

\* A peer that chats takes nothing but chat.
LEMMA ChatTakes ==
  ASSUME AInv, NEW p \in Peers, NEW q, q = other(p), Stage(p, q), Chats(p)
  PROVE  \/ inbox'[p] = inbox[p]
         \/ inbox[p] # <<>> /\ inbox'[p] = Tail(inbox[p]) /\ Head(inbox[p]).type \in Chat
<1>1. q \in Peers /\ q # p /\ Domains
  BY OtherPeer DEF AInv, Base
<1>2. PICK m : Deals(p, q, {m})
  BY <1>1, ChatEffect
<1>3. CASE inbox'[p] = inbox[p]
  BY <1>3
<1>4. CASE inbox'[p] # inbox[p]
  <2>1. inbox[p] # <<>> /\ inbox'[p] = Tail(inbox[p])
    BY <1>2, <1>4 DEF Deals
  <2>2. CASE pc[p] \in Opening
    BY <2>1, <2>2, OpeningHead
  <2>3. CASE pc[p] \notin Opening
    <3>1. ~ greet(p) /\ ~ take_handshake(p) /\ ~ measure(p)
      BY <2>3 DEF greet, take_handshake, measure, Opening
    <3>2. ~ ping(p)
      <4>1. SUFFICES ASSUME ping(p) PROVE FALSE
        OBVIOUS
      <4>2. inbox' = post(inbox, p, keepalive("ping", {}))
        BY <4>1 DEF ping
      <4>3. inbox'[p] = inbox[p]
        BY <1>1, <4>2 DEF post, Domains
      <4>4. QED
        BY <1>4, <4>3
    <3>3. answer_ping(p) \/ skip_pong(p)
      BY <3>1, <3>2 DEF Chats
    <3>4. QED
      BY <2>1, <3>3 DEF answer_ping, skip_pong, message, Chat
  <2>4. QED
    BY <2>2, <2>3
<1>5. QED
  BY <1>3, <1>4

\* When the other's match has ended, p goes on only to wait for what ends its own.
LEMMA LastSteps ==
  ASSUME DecisionsAreTimed, AInv, NEW p \in Peers, NEW q, q = other(p), Alone(p, q), Runs(p),
         Live(p), ~ Live(q), \A v : ~ ends(p, v)
  PROVE  pc[p] \notin Opening /\ (Chats(p) \/ take_slot(p))
<1>1. q \in Peers /\ q # p /\ p = other(q) /\ Pair(p, q) /\ Pair(q, p) /\ Domains /\ Loop(p)
  BY PairOf DEF AInv, Base, Pair
<1>2. pc[p] \notin Opening
  BY <1>1, GreetingArrives
<1>3. PICK v \in verdict[q] : v \notin Errors
  BY DEF Alone, Smooth, Candid
<1>4. \/ /\ pc[p] = "deciding" /\ choice[p] # {}
         /\ \A d \in choice[p] : \A m \in slot[p] \cup Messages(inbox[p]) :
              m.type \in Slots => slots_verdict(p, d, m) # {}
      \/ /\ pc[p] = "revealing"
         /\ \A d \in choice[p], m \in Messages(inbox[p]) :
              m.type = "reveal" => adjudicate_legality(p, d, m) = {v}
      \/ /\ pc[p] = "acking" /\ \A r \in pending[p] : r.verdict = {v}
  <2>1. Told(q, p)
    BY <1>1 DEF Pair, Meet
  <2>2. QED
    BY <1>3, <2>1 DEF Told
<1>5. ~ decide(p)
  BY <1>4 DEF decide
<1>6. ~ reveal(p)
  <2>1. \A m \in slot[p] : m.type \in Slots
    BY <1>1 DEF Loop
  <2>2. QED
    BY <1>4, <2>1 DEF reveal
<1>7. ~ take_reveal(p)
  <2>1. SUFFICES ASSUME take_reveal(p) PROVE FALSE
    OBVIOUS
  <2>2. Head(inbox[p]) \in Messages(inbox[p]) /\ Head(inbox[p]).type = "reveal"
    BY <2>1, AckedAfterSlots
  <2>3. PICK d \in choice[p], s \in slot[p] : acceptable(p, d, Head(inbox[p]), s)
    BY <1>1, <2>1, TakeRevealEffect
  <2>4. adjudicate_legality(p, d, Head(inbox[p])) = {} /\ pc[p] = "revealing"
    BY <2>1, <2>3 DEF acceptable, take_reveal
  <2>5. QED
    BY <1>4, <2>2, <2>4
<1>8. ~ take_ack(p)
  <2>1. SUFFICES ASSUME take_ack(p) PROVE FALSE
    OBVIOUS
  <2>2. pc[p] = "acking" /\ \E r \in pending[p] : r.verdict = {}
    BY <1>1, <2>1, TakeAckEffect
  <2>3. QED
    BY <1>4, <2>2
<1>9. ~ Stops(p)
  BY <1>1, StopEffect
<1>10. QED
  BY <1>2, <1>5, <1>6, <1>7, <1>8, <1>9 DEF Runs, Works, Chats, Stops

\* What it waits for stays on its way.
LEMMA LeftStep ==
  ASSUME DecisionsAreTimed, AInv, NEW p \in Peers, NEW q, q = other(p), Alone(p, q), Runs(p),
         Live(p), ~ Live(q), \A v : ~ ends(p, v)
  PROVE  Left(p)' /\ Expected(p)'
<1>1. q \in Peers /\ q # p /\ Domains /\ Base /\ Rests(q)
  BY OtherPeer, Local DEF AInv, Base, Runs, Acts
<1>2. Left(p) /\ Expected(p)
  BY DEF Alone, Smooth, Supplied
<1>3. pc[p] \notin Opening /\ (Chats(p) \/ take_slot(p))
  BY LastSteps
<1>4. IsBox(inbox[p])
  BY <1>1, BaseBoxes
<1>5. CASE Chats(p)
  <2>1. /\ game'[p] = game[p] /\ offers'[p] = offers[p] /\ choice'[p] = choice[p]
        /\ slot'[p] = slot[p] /\ pending'[p] = pending[p] /\ pc'[p] = pc[p]
    BY <1>1, <1>3, <1>5, ChatEffect DEF Keeping
  <2>2. \/ inbox'[p] = inbox[p]
        \/ inbox[p] # <<>> /\ inbox'[p] = Tail(inbox[p]) /\ Head(inbox[p]).type \in Chat
    BY <1>5, ChatTakes DEF Alone
  <2>3. \A k \in {Slots, {"reveal"}, {"ack"}} : Holds(inbox'[p], k) <=> Holds(inbox[p], k)
    <3>1. CASE inbox'[p] = inbox[p]
      BY <3>1
    <3>2. CASE inbox[p] # <<>> /\ inbox'[p] = Tail(inbox[p]) /\ Head(inbox[p]).type \in Chat
      <4>1. \A k : Holds(inbox[p], k) <=> Head(inbox[p]).type \in k \/ Holds(Tail(inbox[p]), k)
        BY <1>4, <3>2, FirstMessage
      <4>2. \A k \in {Slots, {"reveal"}, {"ack"}} : Head(inbox[p]).type \notin k
        BY <3>2, Kinds
      <4>3. QED
        BY <3>2, <4>1, <4>2
    <3>3. QED
      BY <2>2, <3>1, <3>2
  <2>4. Left(p)'
    BY <1>2, <2>1, <2>3 DEF Left
  <2>5. Messages(inbox'[p]) \subseteq Messages(inbox[p])
    BY <1>4, <2>2, TakenMessages
  <2>6. Expected(p)'
    BY <1>1, <1>2, <2>1, <2>5, ExpectedKept DEF Rests
  <2>7. QED
    BY <2>4, <2>6
<1>6. CASE take_slot(p)
  <2>1. /\ pc[p] = "deciding" /\ pc'[p] = "deciding"
        /\ inbox[p] # <<>> /\ slot'[p] = {Head(inbox[p])} /\ inbox' = taken(p)
        /\ game'[p] = game[p] /\ offers'[p] = offers[p] /\ choice'[p] = choice[p]
        /\ pending'[p] = pending[p]
    BY <1>1, <1>6, TakeSlotEffect
  <2>2. inbox'[p] = Tail(inbox[p])
    BY <1>1, <2>1 DEF taken, Domains
  <2>3. slot'[p] \cup Messages(inbox'[p]) \subseteq slot[p] \cup Messages(inbox[p])
    BY <1>4, <2>1, <2>2, TakenMessages
  <2>4. Expected(p)'
    BY <1>1, <1>2, <2>1, <2>3, ExpectedKept DEF Rests
  <2>5. Left(p)'
    BY <2>1 DEF Left, Opening
  <2>6. QED
    BY <2>4, <2>5
<1>7. QED
  BY <1>3, <1>5, <1>6

\* When a match ends for p, what ends it for the other is on its way already.
LEMMA LeaveStep ==
  ASSUME DecisionsAreTimed, OutcomesAreResults, AInv, NEW p \in Peers, NEW q, q = other(p),
         Alone(p, q), Runs(p), Live(q), NEW v, ends(p, v)
  PROVE  Left(q)' /\ Expected(q)'
<1>1. q \in Peers /\ q # p /\ p = other(q) /\ Pair(p, q) /\ Pair(q, p) /\ Domains /\ Base /\ Opened
  BY PairOf DEF AInv, Base
<1>2. Rests(q) /\ inbox'[q] = inbox[q] /\ v \notin Errors
  BY <1>1, Local, EndEffect, Unfailing DEF Runs, Acts
<1>3. \A w : ends(p, w) => w = v
  <2>1. \A w : ends(p, w) => verdict'[p] = {w}
    BY <1>1 DEF ends, Domains
  <2>2. QED
    BY <2>1
<1>4. Expected(q)'
  <2>1. Expected(q)
    BY DEF Alone, Smooth
  <2>2. QED
    BY <1>2, <2>1, ExpectedKept DEF Rests
<1>5. /\ pc'[q] = pc[q] /\ slot'[q] = slot[q]
      /\ \A k : Holds(inbox'[q], k) <=> Holds(inbox[q], k)
  BY <1>2 DEF Rests
<1>6. Live(p) => Coming(q, p) /\ Bothlive(p, q)
  BY Owed DEF Bothlive
<1>7. CASE /\ pc[p] = "deciding"
           /\ \E d \in choice[p], m \in slot[p] : \E w \in slots_verdict(p, d, m) : ends(p, w)
  <2>1. PICK d \in choice[p], m \in slot[p] : v \in slots_verdict(p, d, m)
    BY <1>3, <1>7
  <2>2. Live(p)
    BY <1>7 DEF Live
  <2>3. pc[q] = "deciding" /\ Even(p, q)
    BY <1>1, <1>2, <1>6, <1>7, <2>1, <2>2, CloseTells
  <2>4. slot[q] = {} => Holds(inbox[q], Slots)
    BY <1>6, <2>1, <2>2, <2>3 DEF Coming, Even
  <2>5. QED
    BY <1>4, <1>5, <2>3, <2>4 DEF Left, Opening
<1>8. CASE /\ pc[p] = "revealing" /\ inbox[p] # <<>>
           /\ \E d \in choice[p], s \in slot[p] :
                /\ ~ spoiled(p, d, Head(inbox[p]), s)
                /\ \E w \in adjudicate_legality(p, d, Head(inbox[p])) : ends(p, w)
  <2>1. PICK d \in choice[p] : Head(inbox[p]).type = "reveal"
                                 /\ v \in adjudicate_legality(p, d, Head(inbox[p]))
    BY <1>3, <1>8 DEF spoiled
  <2>2. Live(p) /\ Revealed(p)
    BY <1>8 DEF Live, Revealed
  <2>3. Head(inbox[p]) \in Messages(inbox[p])
    BY <1>1, <1>8, BaseBoxes, TakenMessages
  <2>4. pc[q] = "revealing" /\ Even(p, q)
    BY <1>1, <1>6, <1>8, <2>1, <2>2, <2>3, ForfeitTells
  <2>5. Holds(inbox[q], {"reveal"})
    BY <1>6, <2>2, <2>4 DEF Coming, Even
  <2>6. ~ Holds(inbox[q], Slots)
    <3>1. Keeps(p, q)
      BY <1>1 DEF Base, SInv
    <3>2. QED
      BY <2>2, <2>4, <3>1 DEF Keeps, Ahead, Live
  <2>7. QED
    BY <1>4, <1>5, <2>4, <2>5, <2>6 DEF Left, Opening
<1>9. CASE take_ack(p)
  <2>1. pc[p] = "acking" /\ inbox[p] # <<>> /\ Live(p)
    BY <1>1, <1>9, TakeAckEffect DEF Live
  <2>2. PICK r \in pending[p] :
          \/ ends(p, error("ProtocolError"))
          \/ /\ Head(inbox[p]) = ack_message(p, r)
             /\ (\E w \in r.verdict : ends(p, w)) \/ pc'[p] = "deciding"
    BY <1>1, <1>9, TakeAckEffect
  <2>3. ~ ends(p, error("ProtocolError")) /\ pc'[p] = "over"
    <3>1. error("ProtocolError") \in Errors
      BY ErrorKinds
    <3>2. QED
      BY <1>1, <1>2, <1>3, <3>1, EndEffect
  <2>4. Head(inbox[p]) = ack_message(p, r) /\ v \in r.verdict
    BY <1>3, <2>2, <2>3
  <2>5. Even(p, q)
    BY <1>1, <1>6, <2>1, <2>4 DEF Pair, Meet, Abreast, Trails
  <2>6. Head(inbox[p]) \in Messages(inbox[p])
    BY <1>1, <2>1, BaseBoxes, TakenMessages
  <2>7. pc[q] = "acking"
    BY <1>1, <1>6, <2>1, <2>4, <2>5, <2>6, SameResult
  <2>8. Holds(inbox[q], {"ack"})
    BY <1>6, <2>1, <2>5 DEF Coming, Even
  <2>9. ~ Holds(inbox[q], {"reveal"})
    BY <1>1, <1>6, <2>1, <2>7 DEF Pair, Meet, Fits, RevealsFit, Bothlive
  <2>10. QED
    BY <1>4, <1>5, <2>7, <2>8, <2>9 DEF Left, Opening
<1>10. ~ \E e \in Errors : ends(p, e)
  BY <1>2, <1>3
<1>11. CASE Stops(p)
  BY <1>1, <1>7, <1>8, <1>10, <1>11, StopEffect
<1>12. CASE Chats(p) \/ decide(p) \/ take_slot(p) \/ reveal(p) \/ take_reveal(p)
  <2>1. pc'[p] = "over"
    BY <1>1, EndEffect
  <2>2. pc'[p] # "over"
    <3>1. CASE Chats(p)
      BY <1>1, <3>1, ChatEffect DEF Live
    <3>2. CASE decide(p)
      BY <1>1, <3>2, DecideEffect
    <3>3. CASE take_slot(p) \/ reveal(p) \/ take_reveal(p)
      BY <1>1, <3>3, TakeSlotEffect, RevealEffect, TakeRevealEffect
    <3>4. QED
      BY <1>12, <3>1, <3>2, <3>3
  <2>3. QED
    BY <2>1, <2>2
<1>13. QED
  BY <1>9, <1>11, <1>12 DEF Runs, Works, Chats, Stops

-----------------------------------------------------------------------------
(***************************************************************************)
(* Two peers that are left alone stay so.                                  *)
(***************************************************************************)
\* Whoever moves is live.
LEMMA RunsLive ==
  ASSUME NEW p, Runs(p)
  PROVE  Live(p)
<1>1. CASE greet(p) \/ reject_handshake(p) \/ take_handshake(p) \/ measure(p)
  BY <1>1 DEF greet, reject_handshake, take_handshake, measure, Live
<1>2. CASE answer_ping(p) \/ skip_pong(p) \/ take_slot(p) \/ ping(p) \/ decide(p)
  BY <1>2 DEF answer_ping, skip_pong, take_slot, ping, decide, Listening, Live
<1>3. CASE close_match(p) \/ reveal(p) \/ forfeit(p) \/ take_reveal(p) \/ take_ack(p) \/ hear_end(p)
  BY <1>3 DEF close_match, reveal, forfeit, take_reveal, take_ack, hear_end, Receiving, Listening, Live
<1>4. QED
  BY <1>1, <1>2, <1>3 DEF Runs, Works

\* Between two acks neither the game nor the clock changes.
LEMMA BetweenAcks ==
  ASSUME DecisionsAreTimed, AInv, NEW p \in Peers, NEW q, q = other(p), Runs(p),
         \A v : ~ ends(p, v), ~ take_ack(p)
  PROVE  /\ game'[p] = game[p] /\ banks'[p] = banks[p]
         /\ pc[p] = "acking" => Chats(p)
<1>1. Domains /\ ~ Stops(p)
  BY StopEffect DEF AInv, Base
<1>2. CASE Chats(p)
  BY <1>1, <1>2, ChatEffect DEF Keeping
<1>3. CASE decide(p)
  BY <1>1, <1>3, DecideEffect
<1>4. CASE take_slot(p) \/ reveal(p) \/ take_reveal(p)
  BY <1>1, <1>4, TakeSlotEffect, RevealEffect, TakeRevealEffect
<1>5. QED
  BY <1>1, <1>2, <1>3, <1>4 DEF Runs, Works, Chats, Stops

\* A chat changes nothing but messages.
LEMMA ChatExpected ==
  ASSUME AInv, NEW p \in Peers, NEW q, q = other(p), Alone(p, q), Chats(p), pc[p] = "acking"
  PROVE  Expected(p)'
<1>1. q \in Peers /\ q # p /\ Domains /\ Rests(q) /\ Base
  BY OtherPeer, Local DEF AInv, Base, Acts, Works, Chats
<1>2. /\ game'[p] = game[p] /\ offers'[p] = offers[p] /\ choice'[p] = choice[p]
      /\ slot'[p] = slot[p] /\ pending'[p] = pending[p] /\ pc'[p] = pc[p]
  BY <1>1, ChatEffect DEF Keeping, Opening
<1>3. PICK m : Deals(p, q, {m})
  BY <1>1, ChatEffect
<1>4. Messages(inbox'[p]) \subseteq Messages(inbox[p])
  BY <1>1, <1>3, AfterSend
<1>5. Expected(p)
  BY DEF Alone, Smooth, Live
<1>6. QED
  BY <1>1, <1>2, <1>4, <1>5, ExpectedKept DEF Rests

\* The clocks stay the same.
LEMMA ClockStep ==
  ASSUME DecisionsAreTimed, AInv, NEW p \in Peers, NEW q, q = other(p), Alone(p, q), Runs(p),
         Bothlive(p, q), \A v : ~ ends(p, v)
  PROVE  SameClock(p, q)' /\ SameClock(q, p)'
<1>1. q \in Peers /\ q # p /\ p = other(q) /\ Pair(p, q) /\ Pair(q, p) /\ Domains
  BY PairOf DEF AInv, Base
<1>2. Rests(q)
  BY <1>1, Local DEF Runs, Acts
<1>3. /\ banks'[q] = banks[q] /\ pending'[q] = pending[q] /\ game'[q] = game[q]
  BY <1>2 DEF Rests
<1>4. /\ Even(p, q) => banks[p] = banks[q]
      /\ Trails(p, q) => \A r \in pending[p] : banks[q] = {e.after : e \in r.ledger}
      /\ Trails(q, p) => \A r \in pending[q] : banks[p] = {e.after : e \in r.ledger}
  BY DEF Alone, Smooth, SameClock, Bothlive
<1>5. CASE ~ take_ack(p)
  <2>1. /\ game'[p] = game[p] /\ banks'[p] = banks[p]
        /\ pc[p] = "acking" => Chats(p)
    BY <1>1, <1>5, BetweenAcks
  <2>2. /\ Even(p, q)' <=> Even(p, q)
        /\ Even(q, p)' <=> Even(p, q)
        /\ Trails(p, q)' => Trails(p, q)
        /\ Trails(q, p)' => Trails(q, p)
    BY <1>1, <1>3, <2>1, TrailsBack
  <2>3. Trails(p, q) => pending'[p] = pending[p]
    <3>1. Trails(p, q) => pc[p] = "acking"
      BY DEF Trails, Bothlive
    <3>2. Chats(p) => pending'[p] = pending[p]
      BY <1>1, ChatEffect DEF Keeping
    <3>3. QED
      BY <2>1, <3>1, <3>2
  <2>4. SameClock(p, q)'
    BY <1>3, <1>4, <2>1, <2>2, <2>3 DEF SameClock
  <2>5. SameClock(q, p)'
    BY <1>3, <1>4, <2>1, <2>2 DEF SameClock
  <2>6. QED
    BY <2>4, <2>5
<1>6. CASE take_ack(p)
  <2>1. PICK r \in pending[p] :
          /\ game'[p] = r.game /\ banks'[p] = {e.after : e \in r.ledger}
          /\ Extended(game[p], r.game) /\ pending[p] = {r}
          /\ Even(p, q) => Trails(q, p)' /\ r \in pending[q] /\ pc[q] = "acking" /\ ~ Even(p, q)'
    BY <1>6, TakeAckComing
  <2>2. /\ Trails(p, q) => Even(p, q)'
        /\ Even(p, q) \/ Trails(p, q)
        /\ pc'[p] = "deciding"
    BY <1>6, TakeAckComing
  <2>3. ~ Trails(p, q)'
    BY <2>2 DEF Trails, Live
  <2>4. CASE Even(p, q)
    <3>1. SameClock(p, q)'
      BY <2>1, <2>3, <2>4 DEF SameClock
    <3>2. pending[q] = {r}
      BY <1>1, <2>1, <2>4 DEF Pair, Loop, One
    <3>3. ~ Even(q, p)'
      BY <2>1, <2>4 DEF Even
    <3>4. SameClock(q, p)'
      BY <1>3, <2>1, <3>2, <3>3 DEF SameClock
    <3>5. QED
      BY <3>1, <3>4
  <2>5. CASE Trails(p, q)
    <3>1. banks'[p] = banks'[q]
      BY <1>3, <1>4, <2>1, <2>5
    <3>2. Even(p, q)' /\ pc[q] \in {"deciding", "over"} /\ pc'[q] = pc[q]
      BY <1>2, <2>2, <2>5 DEF Trails, Rests
    <3>3. ~ Trails(q, p)'
      BY <1>1, <3>2 DEF Trails, Live, Bothlive
    <3>4. SameClock(p, q)'
      BY <2>3, <3>1 DEF SameClock
    <3>5. SameClock(q, p)'
      BY <3>1, <3>3 DEF SameClock
    <3>6. QED
      BY <3>4, <3>5
  <2>6. QED
    BY <2>2, <2>4, <2>5
<1>7. QED
  BY <1>5, <1>6

\* While both play on, what arrives is what is expected.
LEMMA ExpectedStep ==
  ASSUME DecisionsAreTimed, DecisionsAreCandid, OutcomesAreResults, AInv, AInv',
         NEW p \in Peers, NEW q, q = other(p), Alone(p, q), Runs(p),
         Bothlive(p, q), \A v : ~ ends(p, v), Bothlive(p, q)'
  PROVE  Expected(p)' /\ Expected(q)'
<1>1. q \in Peers /\ q # p /\ p = other(q) /\ Pair(p, q) /\ Pair(q, p) /\ Domains /\ Base
  BY PairOf DEF AInv, Base
<1>2. Rests(q)
  BY <1>1, Local DEF Runs, Acts
<1>3. /\ Alike(p, q)' /\ Alike(q, p)' /\ conf' = conf
  BY <1>2 DEF Rests, Alone, Alike
<1>4. /\ Candid(p)' /\ Candid(q)'
  BY <1>2, <1>3, CandidStep, CandidRests DEF Alone, Smooth
<1>5. SameClock(p, q)' /\ SameClock(q, p)'
  BY ClockStep
<1>6. /\ pc'[p] = "acking" /\ Even(p, q)' => Expected(p)'
      /\ pc'[p] # "acking" => Expected(p)'
  BY <1>1, <1>3, <1>4, <1>5, FittingAfter DEF Fitting
<1>7. /\ pc'[q] = "acking" /\ Even(q, p)' => Expected(q)'
      /\ pc'[q] # "acking" => Expected(q)'
  <2>1. Bothlive(q, p)'
    BY DEF Bothlive
  <2>2. QED
    BY <1>1, <1>3, <1>4, <1>5, <2>1, FittingAfter DEF Fitting
<1>8. Abreast(p, q)'
  BY <1>1 DEF AInv, Meet
<1>9. ASSUME pc'[p] = "acking", ~ Even(p, q)' PROVE Expected(p)'
  <2>1. Trails(p, q)'
    BY <1>8, <1>9 DEF Abreast, Trails
  <2>2. ~ take_ack(p)
    BY <1>9, TakeAckComing
  <2>3. game'[p] = game[p] /\ (pc[p] = "acking" => Chats(p)) /\ game'[q] = game[q]
    BY <1>2, <2>2, BetweenAcks DEF Rests
  <2>4. pc[p] = "acking"
    BY <1>1, <2>1, <2>3, TrailsBack DEF Trails, Bothlive
  <2>5. QED
    BY <2>3, <2>4, ChatExpected
<1>10. ASSUME pc'[q] = "acking", ~ Even(q, p)' PROVE Expected(q)'
  <2>1. Trails(q, p)'
    BY <1>2, <1>8, <1>10 DEF Abreast, Trails, Even
  <2>2. Expected(q) /\ pc[q] = "acking"
    BY <1>2, <1>10 DEF Alone, Smooth, Bothlive, Rests
  <2>3. CASE take_ack(p)
    <3>1. inbox'[q] = inbox[q]
      BY <2>3, TakeAckComing
    <3>2. QED
      BY <1>2, <2>2, <3>1, ExpectedKept DEF Rests
  <2>4. CASE ~ take_ack(p)
    <3>1. game'[p] = game[p] /\ game'[q] = game[q]
      BY <1>2, <2>4, BetweenAcks DEF Rests
    <3>2. pc[p] = "deciding"
      BY <1>1, <2>1, <3>1, TrailsBack DEF Trails, Bothlive, Live
    <3>3. PICK m : Deals(p, q, {m}) /\ (m.type = "ack" => take_reveal(p))
      BY <1>1, <3>2, ThroughEffect DEF Opening
    <3>4. m.type # "ack"
      BY <3>2, <3>3 DEF take_reveal
    <3>5. Messages(inbox'[q]) \subseteq Messages(inbox[q]) \cup {m}
      BY <1>1, <3>3, AfterSend
    <3>6. QED
      BY <1>2, <2>2, <3>4, <3>5, ExpectedKept DEF Rests
  <2>5. QED
    BY <2>3, <2>4
<1>11. QED
  BY <1>6, <1>7, <1>9, <1>10 DEF Even

\* A step of one of them leaves the two alone.
LEMMA AloneStep ==
  ASSUME DecisionsAreTimed, DecisionsAreCandid, OutcomesAreResults, AInv, AInv',
         NEW p \in Peers, NEW q, q = other(p), Alone(p, q), Runs(p), DOMAIN round = Peers
  PROVE  Alone(p, q)' /\ Alone(q, p)'
<1>1. q \in Peers /\ q # p /\ p = other(q) /\ Domains
  BY OtherPeer DEF AInv, Base
<1>2. Rests(q) /\ round'[q] = round[q]
  BY <1>1, Local, OtherRound DEF Runs, Acts
<1>3. /\ Alike(p, q)' /\ Alike(q, p)' /\ ~ cut'
  BY <1>2 DEF Rests, Alone, Alike
<1>4. Stage(p, q)' /\ Stage(q, p)'
  BY <1>2, StageStep
<1>5. Candid(p)' /\ Candid(q)'
  BY <1>2, CandidStep, CandidRests DEF Alone, Smooth, Rests
<1>6. /\ Known(inbox'[p]) /\ Known(inbox'[q])
      /\ SlotIsLast(inbox'[p]) /\ SlotIsLast(inbox'[q])
  BY OrderStep
<1>7. Live(p) /\ (Live(q)' <=> Live(q))
  BY <1>2, RunsLive DEF Rests, Live
<1>8. /\ Live(p)' => Supplied(p, q)' /\ Expected(p)'
      /\ Live(q)' => Supplied(q, p)' /\ Expected(q)'
      /\ SameClock(p, q)' /\ SameClock(q, p)'
  <2>1. CASE \E v : ends(p, v)
    <3>1. ~ Live(p)'
      BY <1>1, <2>1, EndEffect DEF Live
    <3>2. Live(q) => Left(q)' /\ Expected(q)'
      BY <2>1, LeaveStep
    <3>3. SameClock(p, q)' /\ SameClock(q, p)'
      BY <3>1 DEF SameClock, Bothlive
    <3>4. Left(q)' => Supplied(q, p)'
      BY <3>1 DEF Supplied
    <3>5. QED
      BY <1>7, <3>1, <3>2, <3>3, <3>4
  <2>2. CASE ~ (\E v : ends(p, v)) /\ ~ Live(q)
    <3>1. Left(p)' /\ Expected(p)'
      BY <1>7, <2>2, LastSteps, LeftStep
    <3>2. SameClock(p, q)' /\ SameClock(q, p)'
      BY <1>7, <2>2 DEF SameClock, Bothlive
    <3>3. Left(p)' => Supplied(p, q)'
      BY <1>7, <2>2 DEF Supplied
    <3>4. QED
      BY <1>7, <2>2, <3>1, <3>2, <3>3
  <2>3. CASE ~ (\E v : ends(p, v)) /\ Live(q)
    <3>1. Bothlive(p, q)
      BY <1>7, <2>3 DEF Bothlive
    <3>2. Coming(p, q)' /\ Coming(q, p)' /\ SameClock(p, q)' /\ SameClock(q, p)'
      BY <2>3, <3>1, ComingStep, ClockStep
    <3>3. CASE Live(p)'
      <4>1. Bothlive(p, q)'
        BY <1>7, <2>3, <3>3 DEF Bothlive
      <4>2. Expected(p)' /\ Expected(q)'
        BY <2>3, <3>1, <4>1, ExpectedStep
      <4>3. Supplied(p, q)' /\ Supplied(q, p)'
        BY <3>2, <4>1 DEF Supplied, Bothlive
      <4>4. QED
        BY <3>2, <4>2, <4>3
    <3>4. Live(p)'
      <4>1. pc'[p] # "over"
        <5>1. CASE pc[p] \in Opening
          <6>1. Chats(p)
            BY <5>1, OpeningActs DEF Chats
          <6>2. QED
            BY <1>1, <6>1, ChatEffect DEF Opening, Live
        <5>2. CASE pc[p] \notin Opening
          BY <2>3, <5>2, ThroughEffect
        <5>3. QED
          BY <5>1, <5>2
      <4>2. QED
        BY <4>1 DEF Live
    <3>5. QED
      BY <3>3, <3>4
  <2>4. QED
    BY <2>1, <2>2, <2>3
<1>9. Smooth(p, q)' /\ Smooth(q, p)'
  BY <1>5, <1>6, <1>8 DEF Smooth
<1>10. QED
  BY <1>3, <1>4, <1>9 DEF Alone

\* Nothing has been said when two peers start.
LEMMA InitAlone == Init => LeftAlone
<1>1. SUFFICES ASSUME Init PROVE LeftAlone
  OBVIOUS
<1>2. faults \in Nat /\ DOMAIN round = Peers
  BY <1>1 DEF Init
<1>3. ASSUME NEW p \in Peers, NEW q, q = other(p), Alike(p, q) PROVE Alone(p, q)
  <2>1. q \in Peers
    BY <1>3, OtherPeer
  <2>2. \A r \in {p, q} :
          /\ pc[r] = "start" /\ inbox[r] = <<>> /\ round[r] = 0 /\ game[r] = <<>>
          /\ banks[r] = {initial_banks(tc) : tc \in conf[r].clock}
          /\ choice[r] = {} /\ slot[r] = {} /\ pending[r] = {} /\ verdict[r] = {}
    BY <1>1, <1>3, <2>1 DEF Init
  <2>3. /\ \A r \in {p, q} : Live(r) /\ ~ Revealed(r)
        /\ ~ Trails(p, q) /\ ~ Trails(q, p)
    BY <2>2 DEF Live, Revealed, Trails, Extended
  <2>4. BothOpen(p, q)
    <3>1. \A r : Segment(r, 0, 0) = <<>>
      <4>1. \A n \in Nat : n <= n
        OBVIOUS
      <4>2. \A r : \A n \in Nat : Segment(r, n, n) = <<>>
        BY <4>1, Segments
      <4>3. 0 \in Nat
        OBVIOUS
      <4>4. QED
        BY <4>2, <4>3
    <3>2. PICK n \in Nat : n = 0
      OBVIOUS
    <3>3. Reads(p, n) /\ Reads(q, n) /\ spoken(p, n) = n /\ spoken(q, n) = n /\ n <= n
      BY <2>2, <3>2 DEF Reads, spoken
    <3>4. inbox[p] = Segment(q, n, n) /\ inbox[q] = Segment(p, n, n)
      BY <2>2, <3>1, <3>2
    <3>5. QED
      BY <3>3, <3>4 DEF BothOpen
  <2>5. Known(<<>>) /\ SlotIsLast(<<>>)
    BY DEF Known, SlotIsLast
  <2>6. Candid(p) /\ Candid(q) /\ Expected(p) /\ Expected(q)
    BY <2>2, <2>3 DEF Candid, Expected
  <2>7. Coming(p, q) /\ Coming(q, p)
    BY <2>2, <2>3 DEF Coming
  <2>8. SameClock(p, q) /\ SameClock(q, p)
    BY <1>3, <2>2, <2>3 DEF SameClock, Alike
  <2>9. Smooth(p, q) /\ Smooth(q, p)
    BY <2>2, <2>3, <2>5, <2>6, <2>7, <2>8 DEF Smooth, Supplied
  <2>10. ~ cut
    BY <1>1 DEF Init
  <2>11. QED
    BY <1>3, <2>4, <2>9, <2>10 DEF Alone, Stage
<1>4. QED
  BY <1>2, <1>3 DEF LeftAlone

\* Every step without a fault leaves two such peers alone,
LEMMA NextAlone ==
  ASSUME DecisionsAreTimed, OneOutcome, DecisionsAreCandid, OutcomesAreResults,
         AInv, LeftAlone, Next
  PROVE  LeftAlone'
<1>1. /\ faults' \in Nat /\ DOMAIN round' = Peers
      /\ faults' = 0 => faults = 0 /\ \E r \in Peers : Runs(r)
  BY Undisturbed DEF LeftAlone
<1>2. AInv'
  BY NextAInv
<1>3. ASSUME faults' = 0, NEW p \in Peers, Alike(p, other(p))' PROVE Alone(p, other(p))'
  <2>1. PICK r \in Peers : Runs(r)
    BY <1>1, <1>3
  <2>2. PICK s : s = other(r)
    OBVIOUS
  <2>3. s \in Peers /\ s # r /\ r = other(s) /\ (p = r \/ p = s)
    BY <2>2, OtherPeer
  <2>4. conf' = conf
    BY <2>1, <2>3, Local DEF AInv, Base, Runs, Acts, Rests
  <2>5. Alike(r, s)
    BY <1>3, <2>2, <2>3, <2>4 DEF Alike
  <2>6. Alone(r, s)
    BY <1>1, <1>3, <2>2, <2>5 DEF LeftAlone
  <2>7. Alone(r, s)' /\ Alone(s, r)'
    BY <1>2, <2>1, <2>2, <2>6, AloneStep DEF LeftAlone
  <2>8. QED
    BY <2>2, <2>3, <2>7
<1>4. QED
  BY <1>1, <1>3 DEF LeftAlone

\* and so does a stutter.
LEMMA StutterAlone ==
  ASSUME LeftAlone, UNCHANGED vars
  PROVE  LeftAlone'
<1>1. /\ conf' = conf /\ pc' = pc /\ inbox' = inbox /\ cut' = cut /\ faults' = faults
      /\ round' = round /\ game' = game /\ banks' = banks /\ offers' = offers
      /\ choice' = choice /\ slot' = slot /\ pending' = pending /\ verdict' = verdict
  BY DEF vars
<1>2. \A p, q : (Alike(p, q)' <=> Alike(p, q)) /\ (Bothlive(p, q)' <=> Bothlive(p, q))
                /\ (Live(p)' <=> Live(p)) /\ (timed(p)' <=> timed(p))
  BY <1>1 DEF Alike, Bothlive, Live, timed
<1>3. \A p, q : Stage(p, q) => Stage(p, q)'
  <2>1. \A p, a : (Reads(p, a)' <=> Reads(p, a)) /\ spoken(p, a)' = spoken(p, a)
    BY <1>1, <1>2 DEF Reads, spoken
  <2>2. /\ \A r : Last(r)' = Last(r)
        /\ \A r, a, b : Segment(r, a, b)' = Segment(r, a, b)
        /\ \A r, i : said(r, i)' = said(r, i)
    BY <1>1, SaidKept
  <2>3. \A r : said(r, Last(r))' = said(r, Last(r))
    BY <1>1, <2>2 DEF said, to_message, keepalive
  <2>4. \A p, q : BothOpen(p, q) => BothOpen(p, q)'
    <3>1. SUFFICES ASSUME NEW p, NEW q, BothOpen(p, q) PROVE BothOpen(p, q)'
      OBVIOUS
    <3>2. PICK a \in Nat, b \in Nat :
            /\ Reads(p, a) /\ Reads(q, b)
            /\ a <= spoken(q, b) /\ b <= spoken(p, a)
            /\ inbox[p] = Segment(q, a, spoken(q, b))
            /\ inbox[q] = Segment(p, b, spoken(p, a))
      BY <3>1 DEF BothOpen
    <3>3. /\ Segment(q, a, spoken(q, b))' = Segment(q, a, spoken(q, b))
          /\ Segment(p, b, spoken(p, a))' = Segment(p, b, spoken(p, a))
      BY <1>1, <2>1 DEF Segment, said, to_message, keepalive
    <3>4. QED
      BY <1>1, <2>1, <3>2, <3>3 DEF BothOpen
  <2>5. \A p, q : Follows(q, p) => Follows(q, p)'
    BY <1>1, <1>2, <2>3 DEF Follows
  <2>6. \A p, q : BothThrough(p, q) => BothThrough(p, q)'
    BY <1>1 DEF BothThrough
  <2>7. QED
    BY <2>4, <2>5, <2>6 DEF Stage
<1>4. \A p, q : Smooth(p, q) => Smooth(p, q)'
  <2>1. SUFFICES ASSUME NEW p, NEW q, Smooth(p, q) PROVE Smooth(p, q)'
    OBVIOUS
  <2>2. Candid(p)'
    <3>1. Errors' = Errors
      BY DEF Errors
    <3>2. QED
      BY <1>1, <1>2, <2>1, <3>1 DEF Smooth, Candid
  <2>3. (Even(p, q)' <=> Even(p, q)) /\ (Trails(p, q)' <=> Trails(p, q))
    BY <1>1, <1>2 DEF Even, Trails
  <2>4. (Coming(p, q)' <=> Coming(p, q)) /\ (Left(p)' <=> Left(p))
    BY <1>1, <2>3 DEF Coming, Left, Revealed
  <2>5. Supplied(p, q)' <=> Supplied(p, q)
    BY <1>2, <2>4 DEF Supplied
  <2>6. Expected(p) => Expected(p)'
    BY <1>1, ExpectedKept
  <2>7. SameClock(p, q)'
    BY <1>1, <1>2, <2>1, <2>3 DEF Smooth, SameClock
  <2>8. QED
    BY <1>1, <1>2, <2>1, <2>2, <2>5, <2>6, <2>7 DEF Smooth
<1>5. QED
  BY <1>1, <1>2, <1>3, <1>4 DEF LeftAlone, Alone

\* Without interference no match between peers that were started alike fails, for
\* any settings, players, thinking times and order of events: no stray ping, early
\* slot, expired offer, closing peer, forfeit or fallen flag is taken for an error.
\* It rests on players that accept only an offer that stands, as the interfaces
\* offer it, and on a phi whose outcomes are no errors.
THEOREM SessionNeverFailsAlone ==
  ASSUME DecisionsAreTimed, OneOutcome, DecisionsAreCandid, OutcomesAreResults
  PROVE  Spec => []NeverFailsAlone
<1>1. Init => AInv /\ LeftAlone
  BY InitAInv, InitAlone
<1>2. AInv /\ LeftAlone /\ [Next]_vars => (AInv /\ LeftAlone)'
  BY NextAInv, NextAlone, StutterAInv, StutterAlone
<1>3. LeftAlone => NeverFailsAlone
  <2>1. SUFFICES ASSUME LeftAlone, faults = 0, Compatible, NEW r \in Peers
                 PROVE  verdict[r] \cap Errors = {}
    BY DEF NeverFailsAlone
  <2>2. PICK p, q \in Peers :
          /\ p # q
          /\ conf[p].terms = conf[q].terms /\ conf[p].clock = conf[q].clock
          /\ conf[p].color # conf[q].color \/ conf[p].nonce # conf[q].nonce
    BY <2>1 DEF Compatible
  <2>3. (r = p /\ other(r) = q) \/ (r = q /\ other(r) = p)
    BY <2>2, OtherPeer
  <2>4. Alike(r, other(r))
    BY <2>2, <2>3 DEF Alike
  <2>5. Candid(r)
    BY <2>1, <2>4 DEF LeftAlone, Alone, Smooth
  <2>6. QED
    BY <2>5 DEF Candid
<1>4. QED
  BY <1>1, <1>2, <1>3, PTL DEF Spec
=============================================================================
