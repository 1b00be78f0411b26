------------------------------ MODULE PaceProofs -----------------------------
(***************************************************************************)
(* Within which times a match keeps going: no honest time is rejected when *)
(* the tolerance covers two delays, and no peer that runs is taken for     *)
(* dead when a decision takes less than the deadline longer than another.  *)
(*                                                                         *)
(*   - Shape: what a peer has still to read is what the other has sent of  *)
(*     this phase and, when that one is ahead, of the next (Lock);         *)
(*   - Timing: two running peers started the phase at most one delay       *)
(*     apart, and what the one measured as its thinking time is, at the    *)
(*     other, at most two delays earlier than the slot's arrival;          *)
(*   - Hearing: what comes next for a peer comes before its deadline       *)
(*     (InTime), and when nothing is on its way the other has sent         *)
(*     something so recently (Recent), or owes an answer so soon           *)
(*     (Answers), that it will.                                            *)
(*                                                                         *)
(* There is one lemma for what each action does (...Effect), and one for   *)
(* how it keeps each of the three.                                         *)
(***************************************************************************)
EXTENDS Pace, TLAPS

LOCAL INSTANCE FiniteSetsExt

\* Two peers, each the other of the other.
LEMMA OtherPeer ==
  ASSUME NEW p \in Peers
  PROVE  /\ other(p) \in Peers /\ other(p) # p
         /\ other(other(p)) = p
         /\ Peers = {p, other(p)}
<1>1. PICK a, b \in Peers : a # b /\ Peers = {a, b}
  BY PaceAssumption
<1>2. \A x \in Peers : other(x) \in Peers /\ other(x) # x
  <2>1. SUFFICES ASSUME NEW x \in Peers PROVE other(x) \in Peers /\ other(x) # x
    OBVIOUS
  <2>2. \E y \in Peers : y # x
    BY <1>1
  <2>3. QED
    BY <2>2 DEF other
<1>3. other(p) \in Peers /\ other(p) # p
  BY <1>2
<1>4. other(other(p)) \in Peers /\ other(other(p)) # other(p)
  BY <1>2, <1>3
<1>5. QED
  BY <1>1, <1>3, <1>4

\* The delays and deadlines are numbers.
LEMMA Numbers ==
  /\ ThinkTimes \subseteq Nat
  /\ Delay \in Nat /\ Epsilon \in Nat /\ Floor \in Nat
  /\ KeepaliveInterval \in Nat /\ LivenessDeadline \in Nat /\ TransportTimeout \in Nat
  /\ Phases \in Nat /\ MaxWatch \in Nat /\ KeepaliveInterval > 0
  /\ LivenessDeadline > 0 /\ TransportTimeout > 0 /\ Phases > 0 /\ MaxWatch > 0
BY PaceAssumption

\* The tolerance is the delay, or the floor when that is longer.
LEMMA Tolerance == d_max \in Nat
<1>1. (Delay + Delay) \div 2 \in Nat
  BY Numbers
<1>2. \A a, b \in Nat : Max({a, b}) \in Nat
  <2>1. SUFFICES ASSUME NEW a \in Nat, NEW b \in Nat PROVE Max({a, b}) \in Nat
    OBVIOUS
  <2>2. \E x \in {a, b} : \A y \in {a, b} : x >= y
    OBVIOUS
  <2>3. QED
    BY <2>2 DEF Max
<1>3. QED
  BY <1>1, <1>2, Numbers DEF d_max

-----------------------------------------------------------------------------
(***************************************************************************)
(* Boxes.                                                                  *)
(***************************************************************************)
Keepalive == {"ping", "pong"}
Exchange  == {"slot", "reveal", "ack"}
Messages  ==
  [type : Keepalive \cup Exchange \cup {"eof"}, claim : SUBSET (0..MaxWatch), left : 0..Delay]

\* The ticks that messages of a kind still need, the claims of reveals, and the end.
Lefts(box, k) == {box[i].left : i \in {j \in 1..Len(box) : box[j].type = k}}
Shown(box)    == {box[i].claim : i \in {j \in 1..Len(box) : box[j].type = "reveal"}}
Last(box)     == box[Len(box)]
\* Messages come in the order they were sent, and none of the exchange twice.
InOrder(box) ==
  /\ \A i, j \in 1..Len(box) : i < j => box[i].left <= box[j].left
  /\ \A i, j \in 1..Len(box) :
       box[i].type = box[j].type /\ box[i].type \in Exchange => i = j

\* A message that is sent is the last, with the whole way before it.
LEMMA Sending ==
  ASSUME NEW box \in Seq(Messages), NEW m \in Messages, m.left = Delay
  PROVE  /\ Append(box, m) \in Seq(Messages) /\ Append(box, m) # <<>>
         /\ \A k : Lefts(Append(box, m), k)
                     = Lefts(box, k) \cup (IF m.type = k THEN {Delay} ELSE {})
         /\ Shown(Append(box, m)) = Shown(box) \cup (IF m.type = "reveal" THEN {m.claim} ELSE {})
         /\ Last(Append(box, m)) = m
         /\ Head(Append(box, m)) = IF box = <<>> THEN m ELSE Head(box)
         /\ InOrder(box) /\ (m.type \in Exchange => Lefts(box, m.type) = {})
              => InOrder(Append(box, m))
<1> DEFINE long == Append(box, m)
           n == Len(box)
<1>1. /\ long \in Seq(Messages) /\ n \in Nat /\ Len(long) = n + 1
      /\ \A i \in 1..n : long[i] = box[i] /\ box[i] \in Messages
      /\ long[n + 1] = m
  OBVIOUS
<1>2. 1..Len(long) = 1..n \cup {n + 1} /\ n + 1 \notin 1..n
  BY <1>1
<1> HIDE DEF long, n
<1>3. \A k : Lefts(long, k) = Lefts(box, k) \cup (IF m.type = k THEN {Delay} ELSE {})
  BY <1>1, <1>2 DEF Lefts, n
<1>4. Shown(long) = Shown(box) \cup (IF m.type = "reveal" THEN {m.claim} ELSE {})
  BY <1>1, <1>2 DEF Shown, n
<1>5. long # <<>> /\ Last(long) = m
  BY <1>1 DEF Last
<1>6. Head(long) = IF box = <<>> THEN m ELSE Head(box)
  BY DEF long, n
<1>7. ASSUME InOrder(box), m.type \in Exchange => Lefts(box, m.type) = {}
      PROVE  InOrder(long)
  <2>1. \A i \in 1..n : box[i].left \in 0..Delay
    BY <1>1 DEF Messages
  <2>2. \A i, j \in 1..Len(long) : i < j => long[i].left <= long[j].left
    BY <1>1, <1>2, <1>7, <2>1, Numbers DEF InOrder, n
  <2>3. \A i \in 1..n : m.type \in Exchange => box[i].type # m.type
    BY <1>7 DEF Lefts, n
  <2>4. QED
    BY <1>1, <1>2, <1>7, <2>2, <2>3 DEF InOrder, n
<1>8. QED
  BY <1>1, <1>3, <1>4, <1>5, <1>6, <1>7 DEF long

\* A message that is taken was the first.
LEMMA Taking ==
  ASSUME NEW box \in Seq(Messages), box # <<>>, InOrder(box)
  PROVE  /\ Tail(box) \in Seq(Messages) /\ Head(box) \in Messages
         /\ InOrder(Tail(box))
         /\ \A k : Lefts(Tail(box), k) \subseteq Lefts(box, k)
         /\ \A k : k # Head(box).type => Lefts(Tail(box), k) = Lefts(box, k)
         /\ Head(box).type \in Exchange =>
              /\ Lefts(Tail(box), Head(box).type) = {}
              /\ Lefts(box, Head(box).type) = {Head(box).left}
         /\ Head(box).left \in Lefts(box, Head(box).type)
         /\ Shown(Tail(box)) \subseteq Shown(box)
         /\ Head(box).type = "reveal" => Head(box).claim \in Shown(box)
         /\ Head(box).type # "reveal" => Shown(Tail(box)) = Shown(box)
         /\ Tail(box) # <<>> => Last(Tail(box)) = Last(box)
         /\ Tail(box) = <<>> => Last(box) = Head(box)
         /\ \A k, l : l \in Lefts(box, k) => Head(box).left <= l
<1> DEFINE short == Tail(box)
           n == Len(box)
<1>1. /\ short \in Seq(Messages) /\ n \in Nat /\ n > 0 /\ Len(short) = n - 1
      /\ \A i \in 1..(n - 1) : short[i] = box[i + 1] /\ i + 1 \in 2..n
      /\ \A i \in 1..n : box[i] \in Messages
      /\ Head(box) = box[1]
  OBVIOUS
<1>2. \A j \in 2..n : j - 1 \in 1..(n - 1) /\ short[j - 1] = box[j]
  BY <1>1
<1>3. 1..n = {1} \cup 2..n /\ 1 \notin 2..n
  BY <1>1
<1> HIDE DEF short, n
<1> DEFINE early(k) == {i \in 1..(n - 1) : short[i].type = k}
           later(k) == {j \in 2..n : box[j].type = k}
<1>4. \A k : /\ \A i \in early(k) : i + 1 \in later(k) /\ short[i] = box[i + 1]
             /\ \A j \in later(k) : j - 1 \in early(k) /\ short[j - 1] = box[j]
  BY <1>1, <1>2
<1>5. \A k : Lefts(short, k) = {short[i].left : i \in early(k)}
  BY <1>1 DEF Lefts
<1>6. Shown(short) = {short[i].claim : i \in early("reveal")}
  BY <1>1 DEF Shown
<1> HIDE DEF early
<1>7. \A k : Lefts(short, k) = {box[i].left : i \in later(k)}
  <2>1. SUFFICES ASSUME NEW k PROVE Lefts(short, k) = {box[i].left : i \in later(k)}
    OBVIOUS
  <2>2. Lefts(short, k) = {short[i].left : i \in early(k)}
    BY <1>5
  <2>3. /\ \A i \in early(k) : i + 1 \in later(k) /\ short[i] = box[i + 1]
        /\ \A j \in later(k) : j - 1 \in early(k) /\ short[j - 1] = box[j]
    BY <1>4
  <2> HIDE DEF later
  <2>4. QED
    BY <2>2, <2>3
<1>8. Shown(short) = {box[i].claim : i \in later("reveal")}
  BY <1>4, <1>6
<1>9. \A j \in 2..n : box[1].type \in Exchange => box[j].type # box[1].type
  BY <1>3 DEF InOrder, n
<1>10. \A k : k # Head(box).type => Lefts(short, k) = Lefts(box, k)
  <2>1. \A k : k # Head(box).type => {j \in 1..n : box[j].type = k} = later(k)
    BY <1>1, <1>3
  <2>2. \A k : Lefts(box, k) = {box[i].left : i \in {j \in 1..n : box[j].type = k}}
    BY DEF Lefts, n
  <2>3. QED
    BY <1>7, <2>1, <2>2
<1>11. Head(box).type \in Exchange =>
              /\ Lefts(short, Head(box).type) = {}
              /\ Lefts(box, Head(box).type) = {Head(box).left}
  BY <1>1, <1>3, <1>7, <1>9 DEF Lefts, n
<1>12. InOrder(short)
  <2>1. SUFFICES ASSUME NEW i \in 1..(n - 1), NEW j \in 1..(n - 1)
                 PROVE  /\ i < j => short[i].left <= short[j].left
                        /\ short[i].type = short[j].type /\ short[i].type \in Exchange => i = j
    BY <1>1 DEF InOrder
  <2>2. short[i] = box[i + 1] /\ short[j] = box[j + 1] /\ i + 1 \in 1..n /\ j + 1 \in 1..n
    BY <1>1
  <2>3. QED
    BY <1>1, <2>2 DEF InOrder, n
<1>13. (short # <<>> => Last(short) = Last(box)) /\ (short = <<>> => Last(box) = Head(box))
  <2>1. short # <<>> => n - 1 \in 1..(n - 1) /\ n - 1 + 1 = n
    BY <1>1
  <2>2. short = <<>> => n = 1
    BY <1>1
  <2>3. QED
    BY <1>1, <2>1, <2>2 DEF Last, n
<1>14. \A k, l : l \in Lefts(box, k) => Head(box).left <= l
  <2>1. \A j \in 1..n : box[1].left <= box[j].left
    BY <1>1, <1>3, Numbers DEF InOrder, n, Messages
  <2>2. QED
    BY <1>1, <2>1 DEF Lefts, n
<1>15. /\ \A k : Lefts(short, k) \subseteq Lefts(box, k)
       /\ Head(box).left \in Lefts(box, Head(box).type)
  BY <1>1, <1>3, <1>7 DEF Lefts, n
<1>16. /\ Shown(short) \subseteq Shown(box)
       /\ Head(box).type = "reveal" => Head(box).claim \in Shown(box)
       /\ Head(box).type # "reveal" => Shown(short) = Shown(box)
  BY <1>1, <1>3, <1>8 DEF Shown, n
<1>17. QED
  BY <1>1, <1>10, <1>11, <1>12, <1>13, <1>14, <1>15, <1>16 DEF short

\* With every tick a message is one tick nearer.
Nearer(l)  == IF l > 0 THEN l - 1 ELSE 0
aged(box)  == [i \in DOMAIN box |-> [box[i] EXCEPT !.left = IF @ > 0 THEN @ - 1 ELSE 0]]

\* In a box that is a tick older the order, the kinds and the claims are the same.
LEMMA Ageing ==
  ASSUME NEW box \in Seq(Messages), InOrder(box)
  PROVE  /\ aged(box) \in Seq(Messages)
         /\ InOrder(aged(box))
         /\ aged(box) = <<>> <=> box = <<>>
         /\ \A k : Lefts(aged(box), k) = {Nearer(l) : l \in Lefts(box, k)}
         /\ Shown(aged(box)) = Shown(box)
         /\ box # <<>> => /\ Head(aged(box)).left = Nearer(Head(box).left)
                          /\ Last(aged(box)).left = Nearer(Last(box).left)
                          /\ Last(aged(box)).type = Last(box).type
<1> DEFINE n == Len(box)
           old == aged(box)
<1>1. /\ n \in Nat /\ DOMAIN box = 1..n
      /\ \A i \in 1..n : box[i] \in Messages
  OBVIOUS
<1>2. \A i \in 1..n : /\ old[i].left = Nearer(box[i].left)
                      /\ old[i].type = box[i].type /\ old[i].claim = box[i].claim
                      /\ old[i] \in Messages
  <2>1. SUFFICES ASSUME NEW i \in 1..n
                 PROVE  /\ old[i].left = Nearer(box[i].left)
                        /\ old[i].type = box[i].type /\ old[i].claim = box[i].claim
                        /\ old[i] \in Messages
    OBVIOUS
  <2>2. box[i] \in Messages
    BY <1>1
  <2>3. old[i] = [box[i] EXCEPT !.left = Nearer(box[i].left)]
    BY <1>1 DEF aged, Nearer
  <2>4. Nearer(box[i].left) \in 0..Delay
    BY <2>2, Numbers DEF Messages, Nearer
  <2>5. QED
    BY <2>2, <2>3, <2>4 DEF Messages
<1>3. old = [i \in 1..n |-> old[i]]
  BY <1>1 DEF aged
<1> HIDE DEF old
<1>4. old \in Seq(Messages) /\ Len(old) = n
  BY <1>1, <1>2, <1>3
<1> HIDE DEF n
<1>5. \A i \in 1..n : box[i].left \in 0..Delay
  BY <1>1 DEF Messages
<1>6. InOrder(old)
  <2>1. SUFFICES ASSUME NEW i \in 1..n, NEW j \in 1..n
                 PROVE  /\ i < j => old[i].left <= old[j].left
                        /\ old[i].type = old[j].type /\ old[i].type \in Exchange => i = j
    BY <1>4 DEF InOrder
  <2>2. i < j => box[i].left <= box[j].left
    BY DEF InOrder, n
  <2>3. i < j => old[i].left <= old[j].left
    BY <1>2, <1>5, <2>2, Numbers DEF Nearer
  <2>4. old[i].type = old[j].type /\ old[i].type \in Exchange => i = j
    BY <1>2 DEF InOrder, n
  <2>5. QED
    BY <2>3, <2>4
<1>7. \A k : Lefts(old, k) = {Nearer(l) : l \in Lefts(box, k)}
  BY <1>2, <1>4 DEF Lefts, n
<1>8. Shown(old) = Shown(box)
  BY <1>2, <1>4 DEF Shown, n
<1>9. old = <<>> <=> box = <<>>
  BY <1>4 DEF n
<1>10. box # <<>> => /\ Head(old).left = Nearer(Head(box).left)
                     /\ Last(old).left = Nearer(Last(box).left)
                     /\ Last(old).type = Last(box).type
  <2>1. box # <<>> => n > 0
    BY <1>1 DEF n
  <2>2. box # <<>> => Head(old) = old[1] /\ Head(box) = box[1] /\ 1 \in 1..n /\ n \in 1..n
    BY <1>1, <1>4, <1>9, <2>1
  <2>3. QED
    BY <1>2, <1>4, <2>2 DEF Last, n
<1>11. QED
  BY <1>4, <1>6, <1>7, <1>8, <1>9, <1>10 DEF old

-----------------------------------------------------------------------------
(***************************************************************************)
(* What each action does.                                                  *)
(***************************************************************************)
Places == {"window", "revealing", "acking", "over"}
Typed ==
  /\ pc \in [Peers -> Places]
  /\ phase \in [Peers -> Nat]
  /\ since \in [Peers -> 0..MaxWatch]
  /\ think \in [Peers -> Nat]
  /\ commit \in [Peers -> SUBSET (0..MaxWatch)]
  /\ arrival \in [Peers -> SUBSET (0..MaxWatch)]
  /\ quiet \in [Peers -> 0..MaxWatch]
  /\ ping_in \in [Peers -> 0..KeepaliveInterval]
  /\ inbox \in [Peers -> Seq(Messages)]
  /\ stopped \in SUBSET Peers
  /\ DOMAIN verdict = Peers

Live(p) == pc[p] # "over"
Steady(p) ==
  /\ pc'[p] = pc[p] /\ phase'[p] = phase[p] /\ since'[p] = since[p] /\ think'[p] = think[p]
  /\ commit'[p] = commit[p] /\ arrival'[p] = arrival[p]
  /\ quiet'[p] = quiet[p] /\ ping_in'[p] = ping_in[p] /\ verdict'[p] = verdict[p]
Gets(q, m) == inbox'[q] = IF Live(q) THEN Append(inbox[q], m) ELSE inbox[q]
Takes(p, kinds) ==
  /\ inbox[p] # <<>> /\ Head(inbox[p]).left = 0 /\ Head(inbox[p]).type \in kinds
  /\ inbox'[p] = Tail(inbox[p])

\* What a watch is set to.
LEMMA Set ==
  /\ 0 \in 0..MaxWatch /\ 0 \in 0..KeepaliveInterval
  /\ KeepaliveInterval \in 0..KeepaliveInterval /\ 0 \in Nat
  /\ {} \in SUBSET (0..MaxWatch)
BY Numbers

\* Whatever is said comes with a claim that a watch may show.
LEMMA Said ==
  ASSUME NEW type \in Keepalive \cup Exchange \cup {"eof"}, NEW claim \in SUBSET (0..MaxWatch)
  PROVE  /\ message(type, claim) \in Messages /\ message(type, claim).type = type
         /\ message(type, claim).claim = claim /\ message(type, claim).left = Delay
BY Numbers DEF message, Messages

\* It goes to the other, who is there or not.
LEMMA Posting ==
  ASSUME Typed, NEW p \in Peers, NEW q, q = other(p), NEW box \in [Peers -> Seq(Messages)],
         NEW m \in Messages
  PROVE  /\ post(box, p, m) \in [Peers -> Seq(Messages)]
         /\ post(box, p, m)[p] = box[p]
         /\ post(box, p, m)[q] = IF Live(q) THEN Append(box[q], m) ELSE box[q]
<1>1. q \in Peers /\ q # p
  BY OtherPeer
<1>2. Append(box[q], m) \in Seq(Messages)
  BY <1>1
<1>3. QED
  BY <1>1, <1>2 DEF post, Live

\* Taking the first message leaves boxes of messages.
LEMMA Emptying ==
  ASSUME Typed, NEW p \in Peers, inbox[p] # <<>>, NEW q, q = other(p)
  PROVE  /\ taken(p) \in [Peers -> Seq(Messages)]
         /\ taken(p)[p] = Tail(inbox[p]) /\ taken(p)[q] = inbox[q]
<1>1. q \in Peers /\ q # p
  BY OtherPeer
<1>2. inbox[p] \in Seq(Messages) /\ Tail(inbox[p]) \in Seq(Messages)
  BY DEF Typed
<1>3. QED
  BY <1>1, <1>2 DEF Typed, taken

\* The slot goes out when the decision is there.
LEMMA SendSlotEffect ==
  ASSUME Typed, NEW p \in Peers, NEW q, q = other(p), send_slot(p)
  PROVE  /\ Typed' /\ Steady(q) /\ stopped' = stopped
         /\ pc[p] = "window" /\ commit[p] = {} /\ since[p] = think[p]
         /\ commit'[p] = {since[p]}
         /\ pc'[p] = pc[p] /\ phase'[p] = phase[p] /\ since'[p] = since[p] /\ think'[p] = think[p]
         /\ arrival'[p] = arrival[p] /\ quiet'[p] = quiet[p] /\ ping_in'[p] = ping_in[p]
         /\ verdict'[p] = verdict[p]
         /\ inbox'[p] = inbox[p] /\ Gets(q, message("slot", {}))
<1>1. q \in Peers /\ q # p
  BY OtherPeer
<1>2. message("slot", {}) \in Messages
  BY Said DEF Exchange
<1> DEFINE box == post(inbox, p, message("slot", {}))
<1>3. box \in [Peers -> Seq(Messages)] /\ box[p] = inbox[p] /\ Gets(q, message("slot", {}))
  <2>1. inbox \in [Peers -> Seq(Messages)] /\ inbox' = box
    BY DEF Typed, send_slot
  <2>2. /\ box \in [Peers -> Seq(Messages)] /\ box[p] = inbox[p]
        /\ box[q] = IF Live(q) THEN Append(inbox[q], message("slot", {})) ELSE inbox[q]
    BY <1>2, <2>1, Posting, Zenon
  <2>3. QED
    BY <2>1, <2>2 DEF Gets
<1>4. inbox' = box
  BY DEF send_slot
<1> HIDE DEF box
<1>5. Typed'
  BY <1>3, <1>4 DEF Typed, send_slot, watches
<1>6. QED
  BY <1>1, <1>3, <1>4, <1>5 DEF Typed, send_slot, watches, Steady

\* A ping goes out.
LEMMA SendPingEffect ==
  ASSUME Typed, NEW p \in Peers, NEW q, q = other(p), send_ping(p)
  PROVE  /\ Typed' /\ Steady(q) /\ stopped' = stopped
         /\ Waiting(p) /\ ping_in[p] = 0 /\ ping_in'[p] = KeepaliveInterval
         /\ pc'[p] = pc[p] /\ phase'[p] = phase[p] /\ since'[p] = since[p] /\ think'[p] = think[p]
         /\ commit'[p] = commit[p] /\ arrival'[p] = arrival[p] /\ quiet'[p] = quiet[p]
         /\ verdict'[p] = verdict[p]
         /\ inbox'[p] = inbox[p] /\ Gets(q, message("ping", {}))
<1>1. q \in Peers /\ q # p
  BY OtherPeer
<1>2. message("ping", {}) \in Messages
  BY Said DEF Keepalive
<1> DEFINE box == post(inbox, p, message("ping", {}))
<1>3. box \in [Peers -> Seq(Messages)] /\ box[p] = inbox[p] /\ Gets(q, message("ping", {}))
  <2>1. inbox \in [Peers -> Seq(Messages)] /\ inbox' = box
    BY DEF Typed, send_ping
  <2>2. /\ box \in [Peers -> Seq(Messages)] /\ box[p] = inbox[p]
        /\ box[q] = IF Live(q) THEN Append(inbox[q], message("ping", {})) ELSE inbox[q]
    BY <1>2, <2>1, Posting, Zenon
  <2>3. QED
    BY <2>1, <2>2 DEF Gets
<1>4. inbox' = box
  BY DEF send_ping
<1> HIDE DEF box
<1>5. Typed'
  BY <1>3, <1>4, Set DEF Typed, send_ping, thinking
<1>6. QED
  BY <1>1, <1>3, <1>4, <1>5 DEF Typed, send_ping, thinking, Steady

\* The other's slot is there, and its time is noted.
LEMMA TakeSlotEffect ==
  ASSUME Typed, NEW p \in Peers, NEW q, q = other(p), take_slot(p)
  PROVE  /\ Typed' /\ Steady(q) /\ stopped' = stopped
         /\ Waiting(p) /\ arrival'[p] = {since[p]} /\ quiet'[p] = 0 /\ ping_in'[p] = 0
         /\ pc'[p] = pc[p] /\ phase'[p] = phase[p] /\ since'[p] = since[p] /\ think'[p] = think[p]
         /\ commit'[p] = commit[p] /\ verdict'[p] = verdict[p]
         /\ Takes(p, {"slot"}) /\ inbox'[q] = inbox[q]
<1>1. q \in Peers /\ q # p
  BY OtherPeer
<1>2. inbox[p] # <<>> /\ inbox' = taken(p)
  BY DEF take_slot, due
<1>3. inbox' \in [Peers -> Seq(Messages)] /\ inbox'[p] = Tail(inbox[p]) /\ inbox'[q] = inbox[q]
  BY <1>2, Emptying
<1>4. Takes(p, {"slot"})
  BY <1>2, <1>3 DEF take_slot, due, first, Takes
<1>5. Typed'
  BY <1>3, Set DEF Typed, take_slot
<1>6. QED
  BY <1>1, <1>3, <1>4, <1>5 DEF Typed, take_slot, Steady

\* The decision is shown.
LEMMA RevealEffect ==
  ASSUME Typed, NEW p \in Peers, NEW q, q = other(p), reveal(p)
  PROVE  /\ Typed' /\ Steady(q) /\ stopped' = stopped
         /\ pc[p] = "window" /\ commit[p] # {} /\ arrival[p] # {}
         /\ pc'[p] = "revealing" /\ quiet'[p] = 0
         /\ phase'[p] = phase[p] /\ since'[p] = since[p] /\ think'[p] = think[p]
         /\ commit'[p] = commit[p] /\ arrival'[p] = arrival[p] /\ ping_in'[p] = ping_in[p]
         /\ verdict'[p] = verdict[p]
         /\ inbox'[p] = inbox[p] /\ Gets(q, message("reveal", commit[p]))
<1>1. q \in Peers /\ q # p /\ commit[p] \in SUBSET (0..MaxWatch)
  BY OtherPeer DEF Typed
<1>2. message("reveal", commit[p]) \in Messages
  BY <1>1, Said DEF Exchange
<1> DEFINE box == post(inbox, p, message("reveal", commit[p]))
<1>3. box \in [Peers -> Seq(Messages)] /\ box[p] = inbox[p] /\ Gets(q, message("reveal", commit[p]))
  <2>1. inbox \in [Peers -> Seq(Messages)] /\ inbox' = box
    BY DEF Typed, reveal
  <2>2. /\ box \in [Peers -> Seq(Messages)] /\ box[p] = inbox[p]
        /\ box[q] = IF Live(q) THEN Append(inbox[q], message("reveal", commit[p])) ELSE inbox[q]
    BY <1>2, <2>1, Posting, Zenon
  <2>3. QED
    BY <2>1, <2>2 DEF Gets
<1>4. inbox' = box
  BY DEF reveal
<1> HIDE DEF box
<1>5. Typed'
  BY <1>3, <1>4, Set DEF Typed, reveal, thinking, Places
<1>6. QED
  BY <1>1, <1>3, <1>4, <1>5 DEF Typed, reveal, thinking, Steady

\* A ping is answered, a pong only heard.
LEMMA TakeKeepaliveEffect ==
  ASSUME Typed, NEW p \in Peers, NEW q, q = other(p), take_keepalive(p)
  PROVE  /\ Typed' /\ Steady(q) /\ stopped' = stopped
         /\ Listening(p) /\ quiet'[p] = 0
         /\ pc'[p] = pc[p] /\ phase'[p] = phase[p] /\ since'[p] = since[p] /\ think'[p] = think[p]
         /\ commit'[p] = commit[p] /\ arrival'[p] = arrival[p] /\ ping_in'[p] = ping_in[p]
         /\ verdict'[p] = verdict[p]
         /\ Takes(p, Keepalive)
         /\ inbox'[q] = inbox[q] \/ Gets(q, message("pong", {}))
<1>1. q \in Peers /\ q # p
  BY OtherPeer
<1>2. message("pong", {}) \in Messages
  BY Said DEF Keepalive
<1>3. inbox[p] # <<>> /\ Head(inbox[p]).left = 0 /\ Head(inbox[p]).type \in Keepalive
  BY DEF take_keepalive, due, first, Keepalive
<1>4. /\ taken(p) \in [Peers -> Seq(Messages)]
      /\ taken(p)[p] = Tail(inbox[p]) /\ taken(p)[q] = inbox[q]
  BY <1>3, Emptying
<1> DEFINE box == post(taken(p), p, message("pong", {}))
<1>5. /\ box \in [Peers -> Seq(Messages)] /\ box[p] = Tail(inbox[p])
      /\ box[q] = IF Live(q) THEN Append(inbox[q], message("pong", {})) ELSE inbox[q]
  <2>1. /\ box \in [Peers -> Seq(Messages)] /\ box[p] = taken(p)[p]
        /\ box[q] = IF Live(q) THEN Append(taken(p)[q], message("pong", {})) ELSE taken(p)[q]
    BY <1>2, <1>4, Posting, Zenon
  <2>2. QED
    BY <1>4, <2>1
<1>6. inbox' = box \/ inbox' = taken(p)
  BY DEF take_keepalive
<1> HIDE DEF box
<1>7. /\ inbox' \in [Peers -> Seq(Messages)] /\ Takes(p, Keepalive)
      /\ inbox'[q] = inbox[q] \/ Gets(q, message("pong", {}))
  BY <1>3, <1>4, <1>5, <1>6 DEF Takes, Gets
<1>8. Typed'
  BY <1>7, Set DEF Typed, take_keepalive, thinking, heard
<1>9. QED
  BY <1>1, <1>7, <1>8 DEF Typed, take_keepalive, thinking, heard, Steady

\* The match ends for one.
LEMMA EndsEffect ==
  ASSUME Typed, NEW p \in Peers, NEW q, q = other(p), NEW v, ends(p, v)
  PROVE  /\ Typed' /\ Steady(q) /\ stopped' = stopped
         /\ pc'[p] = "over" /\ verdict'[p] = v /\ phase'[p] = phase[p]
         /\ Gets(q, message("eof", {}))
<1>1. q \in Peers /\ q # p
  BY OtherPeer
<1>2. message("eof", {}) \in Messages
  BY Said
<1> DEFINE box == post(inbox, p, message("eof", {}))
<1>3. /\ box \in [Peers -> Seq(Messages)]
      /\ box[q] = IF Live(q) THEN Append(inbox[q], message("eof", {})) ELSE inbox[q]
  <2>1. inbox \in [Peers -> Seq(Messages)]
    BY DEF Typed
  <2>2. QED
    BY <1>2, <2>1, Posting, Zenon
<1>4. inbox' = [box EXCEPT ![p] = <<>>]
  BY DEF ends
<1> HIDE DEF box
<1>5. inbox' \in [Peers -> Seq(Messages)] /\ inbox'[p] = <<>> /\ inbox'[q] = box[q]
  BY <1>1, <1>3, <1>4
<1>6. Typed'
  BY <1>5, Set DEF Typed, ends, Places
<1>7. QED
  BY <1>1, <1>3, <1>5, <1>6 DEF Typed, ends, Steady, Gets

\* A reveal is acknowledged, unless its claim is off.
LEMMA TakeRevealEffect ==
  ASSUME Typed, NEW p \in Peers, NEW q, q = other(p), take_reveal(p)
  PROVE  /\ pc[p] = "revealing" /\ inbox[p] # <<>>
         /\ Head(inbox[p]).left = 0 /\ Head(inbox[p]).type = "reveal"
         /\ \/ /\ ~ within_tolerance(p, Head(inbox[p]).claim)
               /\ ends(p, "out_of_tolerance")
            \/ /\ Typed' /\ Steady(q) /\ stopped' = stopped
               /\ pc'[p] = "acking" /\ quiet'[p] = 0
               /\ phase'[p] = phase[p] /\ since'[p] = since[p] /\ think'[p] = think[p]
               /\ commit'[p] = commit[p] /\ arrival'[p] = arrival[p] /\ ping_in'[p] = ping_in[p]
               /\ verdict'[p] = verdict[p]
               /\ Takes(p, {"reveal"}) /\ Gets(q, message("ack", {}))
<1>1. q \in Peers /\ q # p
  BY OtherPeer
<1>2. message("ack", {}) \in Messages
  BY Said DEF Exchange
<1>3. /\ pc[p] = "revealing" /\ inbox[p] # <<>>
      /\ Head(inbox[p]).left = 0 /\ Head(inbox[p]).type = "reveal"
  BY DEF take_reveal, due, first
<1>4. /\ taken(p) \in [Peers -> Seq(Messages)]
      /\ taken(p)[p] = Tail(inbox[p]) /\ taken(p)[q] = inbox[q]
  BY <1>3, Emptying
<1> DEFINE box == post(taken(p), p, message("ack", {}))
<1>5. /\ box \in [Peers -> Seq(Messages)] /\ box[p] = Tail(inbox[p])
      /\ box[q] = IF Live(q) THEN Append(inbox[q], message("ack", {})) ELSE inbox[q]
  <2>1. /\ box \in [Peers -> Seq(Messages)] /\ box[p] = taken(p)[p]
        /\ box[q] = IF Live(q) THEN Append(taken(p)[q], message("ack", {})) ELSE taken(p)[q]
    BY <1>2, <1>4, Posting, Zenon
  <2>2. QED
    BY <1>4, <2>1
<1>6. CASE ~ within_tolerance(p, Head(inbox[p]).claim)
  BY <1>3, <1>6 DEF take_reveal, first
<1>7. CASE within_tolerance(p, Head(inbox[p]).claim)
  <2>1. /\ pc' = [pc EXCEPT ![p] = "acking"] /\ inbox' = box
        /\ quiet' = [quiet EXCEPT ![p] = 0]
        /\ UNCHANGED <<phase, thinking, since, ping_in, stopped, verdict>>
    BY <1>7 DEF take_reveal, first
  <2> HIDE DEF box
  <2>2. Takes(p, {"reveal"}) /\ Gets(q, message("ack", {}))
    BY <1>3, <1>5, <2>1 DEF Takes, Gets
  <2>3. Typed'
    BY <1>5, <2>1, Set DEF Typed, thinking, Places
  <2>4. QED
    BY <1>1, <1>3, <2>1, <2>2, <2>3 DEF Typed, thinking, Steady
<1>8. QED
  BY <1>6, <1>7

\* The ack ends the phase, and the last one the match.
LEMMA TakeAckEffect ==
  ASSUME Typed, NEW p \in Peers, NEW q, q = other(p), take_ack(p)
  PROVE  /\ pc[p] = "acking" /\ inbox[p] # <<>>
         /\ Head(inbox[p]).left = 0 /\ Head(inbox[p]).type = "ack"
         /\ \/ ends(p, "result")
            \/ /\ Typed' /\ Steady(q) /\ stopped' = stopped
               /\ pc'[p] = "window" /\ phase'[p] = phase[p] + 1 /\ since'[p] = 0
               /\ think'[p] \in ThinkTimes /\ commit'[p] = {} /\ arrival'[p] = {}
               /\ quiet'[p] = 0 /\ ping_in'[p] = 0 /\ verdict'[p] = verdict[p]
               /\ Takes(p, {"ack"}) /\ inbox'[q] = inbox[q]
<1>1. q \in Peers /\ q # p
  BY OtherPeer
<1>2. /\ pc[p] = "acking" /\ inbox[p] # <<>>
      /\ Head(inbox[p]).left = 0 /\ Head(inbox[p]).type = "ack"
  BY DEF take_ack, due, first
<1>3. CASE ends(p, "result")
  BY <1>2, <1>3
<1>4. CASE next_phase(p)
  <2>1. inbox' \in [Peers -> Seq(Messages)] /\ inbox'[p] = Tail(inbox[p]) /\ inbox'[q] = inbox[q]
    BY <1>2, <1>4, Emptying DEF next_phase
  <2>2. Takes(p, {"ack"})
    BY <1>2, <2>1 DEF Takes
  <2>3. PICK t \in ThinkTimes : think' = [think EXCEPT ![p] = t]
    BY <1>4 DEF next_phase
  <2>4. t \in Nat
    BY Numbers
  <2>5. Typed'
    <3>1. pc' \in [Peers -> Places] /\ phase' \in [Peers -> Nat] /\ think' \in [Peers -> Nat]
      BY <1>4, <2>3, <2>4 DEF Typed, next_phase, Places
    <3>2. since' \in [Peers -> 0..MaxWatch] /\ quiet' \in [Peers -> 0..MaxWatch]
      BY <1>4, Set DEF Typed, next_phase
    <3>3. /\ commit' \in [Peers -> SUBSET (0..MaxWatch)]
          /\ arrival' \in [Peers -> SUBSET (0..MaxWatch)]
          /\ ping_in' \in [Peers -> 0..KeepaliveInterval]
      BY <1>4, Set DEF Typed, next_phase
    <3>4. QED
      BY <1>4, <2>1, <3>1, <3>2, <3>3 DEF Typed, next_phase
  <2>6. QED
    BY <1>1, <1>2, <1>4, <2>1, <2>2, <2>3, <2>5 DEF Typed, next_phase, Steady
<1>5. QED
  BY <1>3, <1>4 DEF take_ack

\* Time passes for everybody alike.
LEMMA TickEffect ==
  ASSUME Typed, \A p \in Peers : InOrder(inbox[p]), tick
  PROVE  /\ Typed' /\ stopped' = stopped /\ verdict' = verdict
         /\ \A p \in Peers :
              /\ pc'[p] = pc[p] /\ phase'[p] = phase[p] /\ think'[p] = think[p]
              /\ commit'[p] = commit[p] /\ arrival'[p] = arrival[p]
              /\ inbox'[p] = aged(inbox[p])
              /\ since'[p] = IF Running(p) THEN advanced(since[p]) ELSE since[p]
              /\ quiet'[p] = IF Running(p) /\ Listening(p) THEN advanced(quiet[p]) ELSE quiet[p]
              /\ ping_in'[p] = IF Running(p) /\ Waiting(p) THEN ping_in[p] - 1 ELSE ping_in[p]
              /\ Running(p) => ~ Due(p)
<1>1. /\ since' = [p \in Peers |-> IF Running(p) THEN advanced(since[p]) ELSE since[p]]
      /\ quiet' = [p \in Peers |-> IF Running(p) /\ Listening(p) THEN advanced(quiet[p]) ELSE quiet[p]]
      /\ ping_in' = [p \in Peers |-> ping_in[p] - (IF Running(p) /\ Waiting(p) THEN 1 ELSE 0)]
      /\ inbox' = [p \in Peers |-> aged(inbox[p])]
      /\ UNCHANGED <<pc, phase, think, commit, arrival, stopped, verdict>>
      /\ \A p \in Awake : ~ Due(p)
  BY DEF tick, aged, thinking
<1>2. \A p \in Peers : Running(p) => ~ Due(p)
  BY <1>1 DEF Running
<1>3. \A p \in Peers : ping_in[p] \in 0..KeepaliveInterval /\ ping_in[p] \in Int
  BY Numbers DEF Typed
<1>4. \A p \in Peers : ping_in'[p] = IF Running(p) /\ Waiting(p) THEN ping_in[p] - 1 ELSE ping_in[p]
  BY <1>1, <1>3
<1>5. \A n \in 0..MaxWatch : advanced(n) \in 0..MaxWatch
  BY Numbers DEF advanced
<1>6. since' \in [Peers -> 0..MaxWatch] /\ quiet' \in [Peers -> 0..MaxWatch]
  <2>1. \A p \in Peers : since[p] \in 0..MaxWatch /\ quiet[p] \in 0..MaxWatch
    BY DEF Typed
  <2>2. QED
    BY <1>1, <1>5, <2>1
<1>7. ping_in' \in [Peers -> 0..KeepaliveInterval]
  <2>1. \A p \in Peers : Running(p) /\ Waiting(p) => ping_in[p] # 0
    BY <1>2 DEF Due
  <2>2. \A p \in Peers : ping_in'[p] \in 0..KeepaliveInterval
    BY <1>3, <1>4, <2>1, Numbers
  <2>3. QED
    BY <1>1, <2>2
<1>8. inbox' \in [Peers -> Seq(Messages)]
  <2>1. \A p \in Peers : aged(inbox[p]) \in Seq(Messages)
    BY Ageing DEF Typed
  <2>2. QED
    BY <1>1, <2>1
<1>9. Typed'
  BY <1>1, <1>6, <1>7, <1>8 DEF Typed
<1>10. QED
  BY <1>1, <1>2, <1>4, <1>9

-----------------------------------------------------------------------------
(***************************************************************************)
(* How the two loops and the two boxes fit.                                *)
(***************************************************************************)
\* What p keeps while it waits for the rest of the exchange.
Keeps(p) ==
  /\ pc[p] \in {"revealing", "acking"} => commit[p] # {} /\ arrival[p] # {}
  /\ pc[p] = "acking" => Lefts(inbox[p], "reveal") = {}
  /\ Lefts(inbox[p], "reveal") # {} /\ Lefts(inbox[p], "slot") # {} => arrival[p] = {}

\* Both are in one phase: p has read, or has still to read, what q has sent of it.
Level(p, q) ==
  /\ phase[p] = phase[q]
  /\ commit[q] # {} <=> arrival[p] # {} \/ Lefts(inbox[p], "slot") # {}
  /\ Lefts(inbox[p], "slot") # {} => arrival[p] = {}
  /\ pc[q] # "window" <=> pc[p] = "acking" \/ Lefts(inbox[p], "reveal") # {}
  /\ pc[q] = "acking" <=> Lefts(inbox[p], "ack") # {}
\* q is in the next phase, and p has not read the ack of this one.
Leads(q, p) ==
  /\ phase[q] = phase[p] + 1
  /\ pc[q] = "window" /\ arrival[q] = {} /\ pc[p] = "acking"
  /\ Lefts(inbox[p], "ack") # {}
  /\ commit[q] # {} <=> Lefts(inbox[p], "slot") # {}
  /\ \A k \in Exchange : Lefts(inbox[q], k) = {}
Lock(p, q) == (Level(p, q) /\ Level(q, p)) \/ Leads(p, q) \/ Leads(q, p)

Shape ==
  \A p \in Peers :
    /\ InOrder(inbox[p])
    /\ Live(p) => Keeps(p)
    /\ Live(p) /\ Live(other(p)) => Lock(p, other(p))

\* The same, peer by peer,
LEMMA ShapeOf ==
  ASSUME Shape, NEW p \in Peers, NEW q, q = other(p)
  PROVE  /\ InOrder(inbox[p]) /\ InOrder(inbox[q])
         /\ Live(p) => Keeps(p)
         /\ Live(q) => Keeps(q)
         /\ Live(p) /\ Live(q) => Lock(p, q)
BY OtherPeer DEF Shape

\* and after a step.
LEMMA ShapeAfter ==
  ASSUME NEW p \in Peers, NEW q, q = other(p),
         InOrder(inbox[p])', InOrder(inbox[q])',
         Live(p)' => Keeps(p)', Live(q)' => Keeps(q)',
         Live(p)' /\ Live(q)' => Lock(p, q)'
  PROVE  Shape'
BY OtherPeer DEF Shape, Lock

\* What a sent message adds to a box in which its receiver is still there.
LEMMA Got ==
  ASSUME Typed, NEW q \in Peers,
         NEW type \in Keepalive \cup Exchange \cup {"eof"}, NEW claim \in SUBSET (0..MaxWatch),
         Gets(q, message(type, claim)), Live(q)
  PROVE  /\ inbox'[q] # <<>> /\ Last(inbox'[q]).left = Delay /\ Last(inbox'[q]).type = type
         /\ Lefts(inbox'[q], type) = Lefts(inbox[q], type) \cup {Delay}
         /\ \A k : k # type => Lefts(inbox'[q], k) = Lefts(inbox[q], k)
         /\ Shown(inbox'[q]) = Shown(inbox[q]) \cup (IF type = "reveal" THEN {claim} ELSE {})
         /\ inbox[q] # <<>> => Head(inbox'[q]) = Head(inbox[q])
         /\ inbox[q] = <<>> => Head(inbox'[q]).left = Delay
         /\ InOrder(inbox[q]) /\ (type \in Exchange => Lefts(inbox[q], type) = {})
              => InOrder(inbox'[q])
<1>1. /\ message(type, claim) \in Messages /\ message(type, claim).type = type
      /\ message(type, claim).claim = claim /\ message(type, claim).left = Delay
  BY Said
<1>2. inbox[q] \in Seq(Messages) /\ inbox'[q] = Append(inbox[q], message(type, claim))
  BY DEF Typed, Gets
<1> DEFINE m == message(type, claim)
           long == Append(inbox[q], m)
<1>3. /\ long # <<>> /\ Last(long) = m
      /\ \A k : Lefts(long, k) = Lefts(inbox[q], k) \cup (IF m.type = k THEN {Delay} ELSE {})
      /\ Shown(long) = Shown(inbox[q]) \cup (IF m.type = "reveal" THEN {m.claim} ELSE {})
      /\ Head(long) = IF inbox[q] = <<>> THEN m ELSE Head(inbox[q])
      /\ InOrder(inbox[q]) /\ (m.type \in Exchange => Lefts(inbox[q], m.type) = {})
           => InOrder(long)
  BY <1>1, <1>2, Sending
<1>4. inbox'[q] = long /\ m.type = type /\ m.claim = claim /\ m.left = Delay
  BY <1>1, <1>2
<1> HIDE DEF m, long
<1>5. \A k : Lefts(long, k) = Lefts(inbox[q], k) \cup (IF type = k THEN {Delay} ELSE {})
  BY <1>3, <1>4
<1>6. Lefts(long, type) = Lefts(inbox[q], type) \cup {Delay}
  BY <1>5
<1>7. \A k : k # type => Lefts(long, k) = Lefts(inbox[q], k)
  BY <1>5
<1>8. Shown(long) = Shown(inbox[q]) \cup (IF type = "reveal" THEN {claim} ELSE {})
  BY <1>3, <1>4
<1>9. /\ inbox[q] # <<>> => Head(long) = Head(inbox[q])
      /\ inbox[q] = <<>> => Head(long).left = Delay
      /\ Last(long).left = Delay /\ Last(long).type = type
  BY <1>3, <1>4
<1>10. InOrder(inbox[q]) /\ (type \in Exchange => Lefts(inbox[q], type) = {}) => InOrder(long)
  BY <1>3, <1>4
<1>11. QED
  BY <1>3, <1>4, <1>6, <1>7, <1>8, <1>9, <1>10

\* What a taken message leaves.
LEMMA Took ==
  ASSUME Typed, NEW p \in Peers, InOrder(inbox[p]), NEW kinds, Takes(p, kinds)
  PROVE  /\ InOrder(inbox'[p])
         /\ \E k \in kinds :
              /\ Head(inbox[p]).type = k /\ 0 \in Lefts(inbox[p], k)
              /\ \A l \in kinds \cup Exchange : l # k => Lefts(inbox'[p], l) = Lefts(inbox[p], l)
              /\ k \in Exchange => Lefts(inbox[p], k) = {0} /\ Lefts(inbox'[p], k) = {}
              /\ k # "reveal" => Shown(inbox'[p]) = Shown(inbox[p])
         /\ \A k : Lefts(inbox'[p], k) \subseteq Lefts(inbox[p], k)
         /\ Shown(inbox'[p]) \subseteq Shown(inbox[p])
         /\ inbox'[p] # <<>> => Last(inbox'[p]) = Last(inbox[p]) /\ Head(inbox'[p]).left \in 0..Delay
         /\ inbox'[p] = <<>> => Last(inbox[p]).left = 0 /\ Last(inbox[p]).type \in kinds
<1>1. /\ inbox[p] \in Seq(Messages) /\ inbox[p] # <<>> /\ inbox'[p] = Tail(inbox[p])
      /\ Head(inbox[p]).left = 0 /\ Head(inbox[p]).type \in kinds
  BY DEF Typed, Takes
<1>2. /\ InOrder(inbox'[p]) /\ inbox'[p] \in Seq(Messages)
      /\ \A k : Lefts(inbox'[p], k) \subseteq Lefts(inbox[p], k)
      /\ \A k : k # Head(inbox[p]).type => Lefts(inbox'[p], k) = Lefts(inbox[p], k)
      /\ Head(inbox[p]).type \in Exchange =>
           /\ Lefts(inbox'[p], Head(inbox[p]).type) = {}
           /\ Lefts(inbox[p], Head(inbox[p]).type) = {0}
      /\ 0 \in Lefts(inbox[p], Head(inbox[p]).type)
      /\ Shown(inbox'[p]) \subseteq Shown(inbox[p])
      /\ Head(inbox[p]).type # "reveal" => Shown(inbox'[p]) = Shown(inbox[p])
      /\ inbox'[p] # <<>> => Last(inbox'[p]) = Last(inbox[p])
      /\ inbox'[p] = <<>> => Last(inbox[p]) = Head(inbox[p])
  <2> DEFINE box == inbox[p]
             h == Head(box)
             short == Tail(box)
  <2>1. box \in Seq(Messages) /\ box # <<>> /\ InOrder(box)
    BY <1>1
  <2>2. /\ short \in Seq(Messages) /\ InOrder(short)
        /\ \A k : Lefts(short, k) \subseteq Lefts(box, k)
        /\ \A k : k # h.type => Lefts(short, k) = Lefts(box, k)
        /\ h.type \in Exchange => Lefts(short, h.type) = {} /\ Lefts(box, h.type) = {h.left}
        /\ h.left \in Lefts(box, h.type)
        /\ Shown(short) \subseteq Shown(box)
        /\ h.type # "reveal" => Shown(short) = Shown(box)
        /\ short # <<>> => Last(short) = Last(box)
        /\ short = <<>> => Last(box) = h
    BY <2>1, Taking
  <2>3. inbox'[p] = short /\ h.left = 0 /\ inbox[p] = box /\ Head(inbox[p]) = h
    BY <1>1
  <2> HIDE DEF box, h, short
  <2>4. QED
    BY <2>2, <2>3
<1>3. inbox'[p] # <<>> => Head(inbox'[p]).left \in 0..Delay
  <2>1. inbox'[p] # <<>> => Head(inbox'[p]) \in Messages
    BY <1>2
  <2>2. QED
    BY <2>1 DEF Messages
<1>4. QED
  BY <1>1, <1>2, <1>3

\* A message of the exchange that claims nothing.
LEMMA GotOne ==
  ASSUME Typed, NEW q \in Peers, NEW type \in Exchange, Gets(q, message(type, {})), Live(q),
         InOrder(inbox[q]), Lefts(inbox[q], type) = {}
  PROVE  /\ InOrder(inbox'[q]) /\ inbox'[q] # <<>> /\ Last(inbox'[q]).left = Delay
         /\ Lefts(inbox'[q], type) = {Delay}
         /\ \A k : k # type => Lefts(inbox'[q], k) = Lefts(inbox[q], k)
         /\ type # "reveal" => Shown(inbox'[q]) = Shown(inbox[q])
         /\ inbox[q] # <<>> => Head(inbox'[q]) = Head(inbox[q])
         /\ inbox[q] = <<>> => Head(inbox'[q]).left = Delay
<1>1. PICK c \in SUBSET (0..MaxWatch) : c = {}
  BY Set
<1>2. Gets(q, message(type, c))
  BY <1>1
<1>3. QED
  BY <1>2, Got

\* Keepalive traffic and the end claim nothing either.
LEMMA GotOther ==
  ASSUME Typed, NEW q \in Peers, NEW type \in Keepalive \cup {"eof"},
         Gets(q, message(type, {})), Live(q), InOrder(inbox[q])
  PROVE  /\ InOrder(inbox'[q]) /\ inbox'[q] # <<>>
         /\ Last(inbox'[q]).left = Delay /\ Last(inbox'[q]).type = type
         /\ Lefts(inbox'[q], type) # {}
         /\ \A k : k # type => Lefts(inbox'[q], k) = Lefts(inbox[q], k)
         /\ \A k \in Exchange : Lefts(inbox'[q], k) = Lefts(inbox[q], k)
         /\ Shown(inbox'[q]) = Shown(inbox[q])
         /\ inbox[q] # <<>> => Head(inbox'[q]) = Head(inbox[q])
         /\ inbox[q] = <<>> => Head(inbox'[q]).left = Delay
<1>1. PICK c \in SUBSET (0..MaxWatch) : c = {}
  BY Set
<1>2. Gets(q, message(type, c))
  BY <1>1
<1>3. type \notin Exchange /\ type # "reveal"
  BY DEF Keepalive, Exchange
<1>4. /\ inbox'[q] # <<>>
      /\ Last(inbox'[q]).left = Delay /\ Last(inbox'[q]).type = type
      /\ Lefts(inbox'[q], type) = Lefts(inbox[q], type) \cup {Delay}
      /\ \A k : k # type => Lefts(inbox'[q], k) = Lefts(inbox[q], k)
  BY <1>2, Got
<1>5. /\ Shown(inbox'[q]) = Shown(inbox[q]) \cup (IF type = "reveal" THEN {c} ELSE {})
      /\ inbox[q] # <<>> => Head(inbox'[q]) = Head(inbox[q])
      /\ inbox[q] = <<>> => Head(inbox'[q]).left = Delay
  BY <1>2, Got
<1>6. InOrder(inbox'[q])
  BY <1>2, <1>3, Got
<1>7. QED
  BY <1>3, <1>4, <1>5, <1>6

\* The first message of the exchange was the only one of its kind.
LEMMA TookOne ==
  ASSUME Typed, NEW p \in Peers, InOrder(inbox[p]), NEW k \in Exchange, Takes(p, {k})
  PROVE  /\ InOrder(inbox'[p]) /\ Lefts(inbox[p], k) = {0} /\ Lefts(inbox'[p], k) = {}
         /\ \A l \in Exchange : l # k => Lefts(inbox'[p], l) = Lefts(inbox[p], l)
         /\ Shown(inbox'[p]) \subseteq Shown(inbox[p])
         /\ k # "reveal" => Shown(inbox'[p]) = Shown(inbox[p])
         /\ inbox'[p] # <<>> => Last(inbox'[p]) = Last(inbox[p]) /\ Head(inbox'[p]).left \in 0..Delay
         /\ inbox'[p] = <<>> => Last(inbox[p]).left = 0 /\ Last(inbox[p]).type = k
<1>1. PICK kinds : kinds = {k}
  OBVIOUS
<1>2. Takes(p, kinds)
  BY <1>1
<1>3. /\ InOrder(inbox'[p])
      /\ Shown(inbox'[p]) \subseteq Shown(inbox[p])
      /\ inbox'[p] # <<>> => Last(inbox'[p]) = Last(inbox[p]) /\ Head(inbox'[p]).left \in 0..Delay
      /\ inbox'[p] = <<>> => Last(inbox[p]).left = 0 /\ Last(inbox[p]).type = k
  BY <1>1, <1>2, Took
<1>4. PICK l \in kinds :
              /\ Head(inbox[p]).type = l /\ 0 \in Lefts(inbox[p], l)
              /\ \A i \in kinds \cup Exchange : i # l => Lefts(inbox'[p], i) = Lefts(inbox[p], i)
              /\ l \in Exchange => Lefts(inbox[p], l) = {0} /\ Lefts(inbox'[p], l) = {}
              /\ l # "reveal" => Shown(inbox'[p]) = Shown(inbox[p])
  BY <1>2, Took
<1>5. QED
  BY <1>1, <1>3, <1>4

\* A slot is the first of its phase.
LEMMA SendSlotShape ==
  ASSUME Typed, Shape, NEW p \in Peers, send_slot(p)
  PROVE  Shape'
<1> DEFINE q == other(p)
<1>1. q \in Peers /\ q # p
  BY OtherPeer
<1>2. /\ Steady(q) /\ pc[p] = "window" /\ commit[p] = {} /\ commit'[p] = {since[p]}
      /\ pc'[p] = pc[p] /\ phase'[p] = phase[p] /\ arrival'[p] = arrival[p]
      /\ inbox'[p] = inbox[p] /\ Gets(q, message("slot", {}))
  BY SendSlotEffect
<1>3. /\ InOrder(inbox[p]) /\ InOrder(inbox[q])
      /\ Keeps(p) /\ (Live(q) => Keeps(q) /\ Lock(p, q))
  BY <1>2, ShapeOf DEF Live
<1>4. CASE Live(q)
  <2>1. Lefts(inbox[q], "slot") = {}
    BY <1>2, <1>3, <1>4 DEF Lock, Level, Leads, Exchange
  <2>2. /\ InOrder(inbox'[q]) /\ Lefts(inbox'[q], "slot") # {}
        /\ \A k : k # "slot" => Lefts(inbox'[q], k) = Lefts(inbox[q], k)
    BY <1>1, <1>2, <1>3, <1>4, <2>1, GotOne DEF Exchange
  <2>3. Keeps(q) /\ (Lefts(inbox[q], "reveal") # {} => arrival[q] = {})
    BY <1>2, <1>3, <1>4, <2>1 DEF Lock, Level, Leads, Keeps
  <2>4. Keeps(p)' /\ Keeps(q)'
    BY <1>2, <1>3, <2>2, <2>3 DEF Keeps, Steady
  <2>5. Lock(p, q)'
    BY <1>2, <1>3, <1>4, <2>1, <2>2 DEF Lock, Level, Leads, Steady, Exchange
  <2>6. QED
    BY <1>1, <1>2, <1>3, <2>2, <2>4, <2>5, ShapeAfter
<1>5. CASE ~ Live(q)
  <2>1. inbox'[q] = inbox[q] /\ ~ Live(q)' /\ Keeps(p)'
    BY <1>2, <1>3, <1>5 DEF Gets, Steady, Live, Keeps
  <2>2. QED
    BY <1>1, <1>2, <1>3, <2>1, ShapeAfter
<1>6. QED
  BY <1>4, <1>5

\* Keepalive traffic is no part of the exchange.
LEMMA ChatShape ==
  ASSUME Typed, Shape, NEW p \in Peers, send_ping(p) \/ take_keepalive(p)
  PROVE  Shape'
<1> DEFINE q == other(p)
<1>1. q \in Peers /\ q # p
  BY OtherPeer
<1>2. /\ Steady(q) /\ pc'[p] = pc[p] /\ phase'[p] = phase[p] /\ commit'[p] = commit[p]
      /\ arrival'[p] = arrival[p] /\ pc[p] # "over"
      /\ inbox'[p] = inbox[p] \/ Takes(p, Keepalive)
      /\ inbox'[q] = inbox[q] \/ Gets(q, message("ping", {})) \/ Gets(q, message("pong", {}))
  BY SendPingEffect, TakeKeepaliveEffect DEF Waiting, Listening
<1>3. /\ InOrder(inbox[p]) /\ InOrder(inbox[q])
      /\ Keeps(p) /\ (Live(q) => Keeps(q) /\ Lock(p, q))
  BY <1>2, ShapeOf DEF Live
<1>4. InOrder(inbox'[p]) /\ \A k \in Exchange : Lefts(inbox'[p], k) = Lefts(inbox[p], k)
  <2>1. CASE Takes(p, Keepalive)
    BY <1>3, <2>1, Took DEF Keepalive, Exchange
  <2>2. QED
    BY <1>2, <1>3, <2>1
<1>5. InOrder(inbox'[q]) /\ \A k \in Exchange : Lefts(inbox'[q], k) = Lefts(inbox[q], k)
  <2>1. ASSUME NEW type \in Keepalive, Gets(q, message(type, {})), Live(q)
        PROVE  InOrder(inbox'[q]) /\ \A k \in Exchange : Lefts(inbox'[q], k) = Lefts(inbox[q], k)
    BY <1>1, <1>3, <2>1, GotOther
  <2>2. QED
    BY <1>2, <1>3, <2>1 DEF Gets, Keepalive
<1>6. Keeps(p)' /\ (Live(q) => Keeps(q)') /\ (Live(q)' <=> Live(q))
  BY <1>2, <1>3, <1>4, <1>5 DEF Keeps, Steady, Live, Exchange
<1>7. Live(q) => Lock(p, q)'
  BY <1>2, <1>3, <1>4, <1>5 DEF Lock, Level, Leads, Steady, Exchange
<1>8. QED
  BY <1>4, <1>5, <1>6, <1>7, ShapeAfter

\* The slot is read.
LEMMA TakeSlotShape ==
  ASSUME Typed, Shape, NEW p \in Peers, take_slot(p)
  PROVE  Shape'
<1> DEFINE q == other(p)
<1>1. q \in Peers /\ q # p
  BY OtherPeer
<1>2. /\ Steady(q) /\ pc[p] = "window" /\ arrival[p] = {} /\ arrival'[p] # {}
      /\ pc'[p] = pc[p] /\ phase'[p] = phase[p] /\ commit'[p] = commit[p]
      /\ Takes(p, {"slot"}) /\ inbox'[q] = inbox[q]
  BY TakeSlotEffect DEF Waiting
<1>3. /\ InOrder(inbox[p]) /\ InOrder(inbox[q])
      /\ Keeps(p) /\ (Live(q) => Keeps(q) /\ Lock(p, q))
  BY <1>2, ShapeOf DEF Live
<1>4. /\ InOrder(inbox'[p]) /\ Lefts(inbox'[p], "slot") = {} /\ Lefts(inbox[p], "slot") # {}
      /\ \A k \in Exchange : k # "slot" => Lefts(inbox'[p], k) = Lefts(inbox[p], k)
  BY <1>2, <1>3, TookOne DEF Exchange
<1>5. Keeps(p)' /\ (Live(q) => Keeps(q)') /\ (Live(q)' <=> Live(q))
  BY <1>2, <1>3, <1>4 DEF Keeps, Steady, Live, Exchange
<1>6. Live(q) => Lock(p, q)'
  BY <1>2, <1>3, <1>4 DEF Lock, Level, Leads, Steady, Exchange
<1>7. QED
  BY <1>2, <1>3, <1>4, <1>5, <1>6, ShapeAfter

\* The decision is shown to a peer that has its own.
LEMMA RevealShape ==
  ASSUME Typed, Shape, NEW p \in Peers, reveal(p)
  PROVE  Shape'
<1> DEFINE q == other(p)
<1>1. q \in Peers /\ q # p /\ commit[p] \in SUBSET (0..MaxWatch)
  BY OtherPeer DEF Typed
<1>2. /\ Steady(q) /\ pc[p] = "window" /\ commit[p] # {} /\ arrival[p] # {}
      /\ pc'[p] = "revealing" /\ phase'[p] = phase[p] /\ commit'[p] = commit[p]
      /\ arrival'[p] = arrival[p]
      /\ inbox'[p] = inbox[p] /\ Gets(q, message("reveal", commit[p]))
  BY RevealEffect
<1>3. /\ InOrder(inbox[p]) /\ InOrder(inbox[q])
      /\ Keeps(p) /\ (Live(q) => Keeps(q) /\ Lock(p, q))
  BY <1>2, ShapeOf DEF Live
<1>4. Keeps(p)'
  BY <1>2, <1>3 DEF Keeps
<1>5. CASE Live(q)
  <2>1. Level(p, q) /\ Level(q, p)
    BY <1>2, <1>3, <1>5 DEF Lock, Leads
  <2>2. Lefts(inbox[q], "reveal") = {} /\ pc[q] # "acking"
    BY <1>2, <2>1 DEF Level
  <2>3. /\ InOrder(inbox'[q]) /\ Lefts(inbox'[q], "reveal") # {}
        /\ \A k : k # "reveal" => Lefts(inbox'[q], k) = Lefts(inbox[q], k)
    BY <1>1, <1>2, <1>3, <1>5, <2>2, Got DEF Exchange
  <2>4. Keeps(q)'
    BY <1>2, <1>3, <1>5, <2>1, <2>2, <2>3 DEF Keeps, Steady, Level
  <2>5. Level(p, q)' /\ Level(q, p)'
    BY <1>2, <2>1, <2>2, <2>3 DEF Level, Steady
  <2>6. QED
    BY <1>2, <1>3, <1>4, <2>3, <2>4, <2>5, ShapeAfter DEF Lock
<1>6. CASE ~ Live(q)
  <2>1. inbox'[q] = inbox[q] /\ ~ Live(q)'
    BY <1>2, <1>6 DEF Gets, Steady, Live
  <2>2. QED
    BY <1>2, <1>3, <1>4, <2>1, ShapeAfter
<1>7. QED
  BY <1>5, <1>6

\* A match that ends leaves the other with what was sent.
LEMMA EndsShape ==
  ASSUME Typed, Shape, NEW p \in Peers, NEW v, ends(p, v)
  PROVE  Shape'
<1> DEFINE q == other(p)
<1>1. q \in Peers /\ q # p
  BY OtherPeer
<1>2. /\ Typed' /\ Steady(q) /\ pc'[p] = "over" /\ Gets(q, message("eof", {}))
      /\ inbox'[p] = <<>>
  BY <1>1, EndsEffect DEF ends, Typed
<1>3. InOrder(inbox[q]) /\ (Live(q) => Keeps(q))
  BY ShapeOf
<1>4. InOrder(inbox'[q]) /\ (Live(q) => \A k \in Exchange : Lefts(inbox'[q], k) = Lefts(inbox[q], k))
  <2>1. CASE Live(q)
    BY <1>1, <1>2, <1>3, <2>1, GotOther
  <2>2. CASE ~ Live(q)
    BY <1>2, <1>3, <2>2 DEF Gets
  <2>3. QED
    BY <2>1, <2>2
<1>5. InOrder(inbox'[p])
  BY <1>2 DEF InOrder
<1>6. ~ Live(p)' /\ (Live(q)' => Keeps(q)')
  BY <1>2, <1>3, <1>4 DEF Keeps, Steady, Live, Exchange
<1>7. QED
  BY <1>4, <1>5, <1>6, ShapeAfter

\* The reveal is read and acknowledged.
LEMMA TakeRevealShape ==
  ASSUME Typed, Shape, NEW p \in Peers, take_reveal(p)
  PROVE  Shape'
<1> DEFINE q == other(p)
<1>1. q \in Peers /\ q # p
  BY OtherPeer
<1>2. CASE ends(p, "out_of_tolerance")
  BY <1>2, EndsShape
<1>3. CASE ~ ends(p, "out_of_tolerance")
  <2>1. /\ Steady(q) /\ pc[p] = "revealing" /\ pc'[p] = "acking" /\ phase'[p] = phase[p]
        /\ commit'[p] = commit[p] /\ arrival'[p] = arrival[p]
        /\ Takes(p, {"reveal"}) /\ Gets(q, message("ack", {}))
    BY <1>3, TakeRevealEffect
  <2>2. /\ InOrder(inbox[p]) /\ InOrder(inbox[q])
        /\ Keeps(p) /\ (Live(q) => Keeps(q) /\ Lock(p, q))
    BY <2>1, ShapeOf DEF Live
  <2>3. /\ InOrder(inbox'[p])
        /\ Lefts(inbox'[p], "reveal") = {} /\ Lefts(inbox[p], "reveal") # {}
        /\ \A k \in Exchange : k # "reveal" => Lefts(inbox'[p], k) = Lefts(inbox[p], k)
    BY <2>1, <2>2, TookOne DEF Exchange
  <2>4. Keeps(p)'
    BY <2>1, <2>2, <2>3 DEF Keeps
  <2>5. CASE Live(q)
    <3>1. Level(p, q) /\ Level(q, p)
      BY <2>1, <2>2, <2>5 DEF Lock, Leads
    <3>2. Lefts(inbox[q], "ack") = {}
      BY <2>1, <3>1 DEF Level
    <3>3. /\ InOrder(inbox'[q]) /\ Lefts(inbox'[q], "ack") # {}
          /\ \A k : k # "ack" => Lefts(inbox'[q], k) = Lefts(inbox[q], k)
      BY <1>1, <2>1, <2>2, <2>5, <3>2, GotOne DEF Exchange
    <3>4. Keeps(q)'
      BY <2>1, <2>2, <2>5, <3>3 DEF Keeps, Steady
    <3>5. Level(p, q)' /\ Level(q, p)'
      BY <2>1, <2>3, <3>1, <3>2, <3>3 DEF Level, Steady, Exchange
    <3>6. QED
      BY <2>3, <2>4, <3>3, <3>4, <3>5, ShapeAfter DEF Lock
  <2>6. CASE ~ Live(q)
    <3>1. inbox'[q] = inbox[q] /\ ~ Live(q)'
      BY <2>1, <2>6 DEF Gets, Steady, Live
    <3>2. QED
      BY <2>2, <2>3, <2>4, <3>1, ShapeAfter
  <2>7. QED
    BY <2>5, <2>6
<1>4. QED
  BY <1>2, <1>3

\* The ack is read: the next phase begins, ahead of the other or behind it.
LEMMA TakeAckShape ==
  ASSUME Typed, Shape, NEW p \in Peers, take_ack(p)
  PROVE  Shape'
<1> DEFINE q == other(p)
<1>1. q \in Peers /\ q # p
  BY OtherPeer
<1>2. CASE ends(p, "result")
  BY <1>2, EndsShape
<1>3. CASE ~ ends(p, "result")
  <2>1. /\ Steady(q) /\ pc[p] = "acking" /\ pc'[p] = "window" /\ phase'[p] = phase[p] + 1
        /\ commit'[p] = {} /\ arrival'[p] = {}
        /\ Takes(p, {"ack"}) /\ inbox'[q] = inbox[q]
    BY <1>3, TakeAckEffect
  <2>2. /\ InOrder(inbox[p]) /\ InOrder(inbox[q])
        /\ Keeps(p) /\ (Live(q) => Keeps(q) /\ Lock(p, q))
    BY <2>1, ShapeOf DEF Live
  <2>3. /\ InOrder(inbox'[p])
        /\ Lefts(inbox'[p], "ack") = {} /\ Lefts(inbox[p], "ack") # {}
        /\ \A k \in Exchange : k # "ack" => Lefts(inbox'[p], k) = Lefts(inbox[p], k)
    BY <2>1, <2>2, TookOne DEF Exchange
  <2>4. Lefts(inbox'[p], "reveal") = {} /\ Keeps(p)'
    BY <2>1, <2>2, <2>3 DEF Keeps, Exchange
  <2>5. Live(q) => Keeps(q)'
    BY <2>1, <2>2 DEF Keeps, Steady, Live
  <2>6. ASSUME Live(q), Level(p, q), Level(q, p) PROVE Leads(p, q)'
    <3>1. pc[q] = "acking" /\ arrival[q] # {} /\ Lefts(inbox[q], "slot") = {}
      BY <2>2, <2>3, <2>6 DEF Level, Keeps
    <3>2. Lefts(inbox[q], "ack") # {} /\ Lefts(inbox[p], "slot") = {}
      BY <2>1, <2>2, <2>6 DEF Level, Keeps
    <3>3. \A k \in Exchange : Lefts(inbox'[p], k) = {}
      BY <2>3, <2>4, <3>2 DEF Exchange
    <3>4. QED
      BY <2>1, <2>6, <3>1, <3>2, <3>3 DEF Leads, Level, Steady
  <2>7. ASSUME Live(q), Leads(q, p) PROVE Level(p, q)' /\ Level(q, p)'
    <3>1. \A k \in Exchange : Lefts(inbox'[q], k) = {}
      BY <2>1, <2>7 DEF Leads
    <3>2. QED
      BY <2>1, <2>3, <2>4, <2>7, <3>1 DEF Leads, Level, Steady, Exchange
  <2>8. Live(q) => Lock(p, q)'
    BY <2>1, <2>2, <2>6, <2>7 DEF Lock, Leads
  <2>9. (Live(q)' <=> Live(q)) /\ InOrder(inbox'[q])
    BY <2>1, <2>2 DEF Live, Steady
  <2>10. QED
    BY <2>3, <2>4, <2>5, <2>8, <2>9, ShapeAfter
<1>4. QED
  BY <1>2, <1>3

\* A tick leaves everything in its place.
LEMMA TickShape ==
  ASSUME Typed, Shape, tick
  PROVE  Shape'
<1>1. \A p \in Peers : InOrder(inbox[p]) /\ inbox[p] \in Seq(Messages)
  BY DEF Shape, Typed
<1>2. \A p \in Peers :
        /\ pc'[p] = pc[p] /\ phase'[p] = phase[p]
        /\ commit'[p] = commit[p] /\ arrival'[p] = arrival[p]
        /\ inbox'[p] = aged(inbox[p])
  BY <1>1, TickEffect
<1>3. \A p \in Peers :
        /\ InOrder(inbox'[p])
        /\ \A k : Lefts(inbox'[p], k) = {} <=> Lefts(inbox[p], k) = {}
  <2>1. SUFFICES ASSUME NEW p \in Peers
                 PROVE  /\ InOrder(aged(inbox[p]))
                        /\ \A k : Lefts(aged(inbox[p]), k) = {} <=> Lefts(inbox[p], k) = {}
    BY <1>2
  <2>2. /\ InOrder(aged(inbox[p]))
        /\ \A k : Lefts(aged(inbox[p]), k) = {Nearer(l) : l \in Lefts(inbox[p], k)}
    BY <1>1, Ageing
  <2>3. \A S : {Nearer(l) : l \in S} = {} <=> S = {}
    OBVIOUS
  <2>4. QED
    BY <2>2, <2>3
<1>4. PICK s \in Peers : TRUE
  BY PaceAssumption
<1> DEFINE q == other(s)
<1>5. q \in Peers
  BY OtherPeer
<1>6. Live(s) => Keeps(s)'
  BY <1>2, <1>3, ShapeOf DEF Keeps
<1>7. Live(q) => Keeps(q)'
  BY <1>2, <1>3, <1>5, ShapeOf DEF Keeps
<1>8. Live(s) /\ Live(q) => Lock(s, q)'
  <2>1. /\ Level(s, q) => Level(s, q)'
        /\ Level(q, s) => Level(q, s)'
    BY <1>2, <1>3, <1>5 DEF Level
  <2>2. /\ Leads(s, q) => Leads(s, q)'
        /\ Leads(q, s) => Leads(q, s)'
    BY <1>2, <1>3, <1>5 DEF Leads
  <2>3. QED
    BY <2>1, <2>2, ShapeOf DEF Lock
<1>9. (Live(s)' <=> Live(s)) /\ (Live(q)' <=> Live(q))
  BY <1>2, <1>5 DEF Live
<1>10. QED
  BY <1>3, <1>5, <1>6, <1>7, <1>8, <1>9, ShapeAfter

\* Nothing else enters into it.
LEMMA ShapeRests ==
  ASSUME Shape, UNCHANGED <<pc, phase, commit, arrival, inbox>>
  PROVE  Shape'
<1>1. \A p \in Peers : Live(p)' = Live(p) /\ Keeps(p)' = Keeps(p)
  BY DEF Live, Keeps
<1>2. \A p, q : Level(p, q)' = Level(p, q) /\ Leads(p, q)' = Leads(p, q)
  BY DEF Level, Leads
<1>3. \A p, q : Lock(p, q)' = Lock(p, q)
  BY <1>2 DEF Lock
<1>4. \A p \in Peers : InOrder(inbox[p])' = InOrder(inbox[p]) /\ other(p) \in Peers
  BY OtherPeer
<1>5. QED
  BY <1>1, <1>3, <1>4 DEF Shape

\* A peer that is stopped leaves everything as it is.
LEMMA StopEffect ==
  ASSUME Typed, NEW p \in Peers, stop(p)
  PROVE  /\ Typed' /\ stopped' = {p} /\ stopped = {}
         /\ UNCHANGED <<pc, phase, since, think, commit, arrival, quiet, ping_in, inbox, verdict>>
BY DEF Typed, stop, thinking, watches

\* The actions of a peer that is awake.
LEMMA ActionCases ==
  ASSUME NEW p \in Peers, Works(p)
  PROVE  \/ send_slot(p) \/ send_ping(p) \/ take_slot(p) \/ reveal(p) \/ take_keepalive(p)
         \/ take_reveal(p) \/ take_ack(p)
         \/ \E v : ends(p, v) /\ (unresponsive(p) \/ timed_out(p) \/ hear_end(p))
BY DEF Works, unresponsive, timed_out, hear_end

\* Every step of a peer keeps types,
LEMMA TypedStep ==
  ASSUME Typed, NEW p \in Peers, Works(p)
  PROVE  Typed'
<1>1. PICK q : q = other(p)
  OBVIOUS
<1>2. CASE take_reveal(p) \/ take_ack(p)
  BY <1>1, <1>2, TakeRevealEffect, TakeAckEffect, EndsEffect
<1>3. CASE \E v : ends(p, v)
  BY <1>1, <1>3, EndsEffect
<1>4. QED
  BY <1>1, <1>2, <1>3, ActionCases, SendSlotEffect, SendPingEffect, TakeSlotEffect, RevealEffect,
     TakeKeepaliveEffect

\* and shape,
LEMMA ShapeStep ==
  ASSUME Typed, Shape, NEW p \in Peers, Works(p)
  PROVE  Shape'
BY ActionCases, SendSlotShape, ChatShape, TakeSlotShape, RevealShape, TakeRevealShape,
   TakeAckShape, EndsShape

Base == Typed /\ Shape

\* as every step does,
LEMMA NextBase ==
  ASSUME Base, [Next]_vars
  PROVE  Base'
<1>1. CASE tick
  BY <1>1, TickShape, TickEffect DEF Base, Shape
<1>2. ASSUME NEW p \in Awake, Works(p) PROVE Base'
  BY <1>2, TypedStep, ShapeStep DEF Base, Awake
<1>3. ASSUME NEW p \in Awake, stop(p) PROVE Base'
  BY <1>3, StopEffect, ShapeRests DEF Base, Awake
<1>4. CASE UNCHANGED vars
  <2>1. Typed'
    BY <1>4 DEF Base, Typed, vars
  <2>2. QED
    BY <1>4, <2>1, ShapeRests DEF Base, vars
<1>5. QED
  BY <1>1, <1>2, <1>3, <1>4 DEF Next

\* and the initial states are in shape.
LEMMA InitBase == Init => Base
<1>1. SUFFICES ASSUME Init PROVE Base
  OBVIOUS
<1>2. Typed
  <2>1. /\ pc \in [Peers -> Places] /\ phase \in [Peers -> Nat] /\ think \in [Peers -> Nat]
        /\ stopped \in SUBSET Peers /\ DOMAIN verdict = Peers
    BY <1>1, Numbers DEF Init, Places
  <2>2. since \in [Peers -> 0..MaxWatch] /\ quiet \in [Peers -> 0..MaxWatch]
    BY <1>1, Set DEF Init
  <2>3. /\ commit \in [Peers -> SUBSET (0..MaxWatch)]
        /\ arrival \in [Peers -> SUBSET (0..MaxWatch)]
        /\ ping_in \in [Peers -> 0..KeepaliveInterval]
    BY <1>1, Set DEF Init
  <2>4. inbox \in [Peers -> Seq(Messages)]
    BY <1>1 DEF Init
  <2>5. QED
    BY <2>1, <2>2, <2>3, <2>4 DEF Typed
<1>3. \A p \in Peers : /\ inbox[p] = <<>> /\ InOrder(inbox[p]) /\ \A k : Lefts(inbox[p], k) = {}
                       /\ pc[p] = "window" /\ phase[p] = 0 /\ commit[p] = {} /\ arrival[p] = {}
  <2>1. \A p \in Peers : /\ inbox[p] = <<>> /\ pc[p] = "window" /\ phase[p] = 0
                         /\ commit[p] = {} /\ arrival[p] = {}
    BY <1>1 DEF Init
  <2>2. InOrder(<<>>) /\ \A k : Lefts(<<>>, k) = {}
    BY DEF InOrder, Lefts
  <2>3. QED
    BY <2>1, <2>2
<1>4. \A p \in Peers : other(p) \in Peers
  BY OtherPeer
<1>5. QED
  BY <1>2, <1>3, <1>4 DEF Base, Shape, Keeps, Lock, Level

-----------------------------------------------------------------------------
(***************************************************************************)
(* How far apart the clocks are.                                           *)
(***************************************************************************)
Near(t, o) == t <= o /\ o <= t + 2 * Delay
\* The time t fits when p saw the slot, or will see it;
Fits(p, t) ==
  /\ \A o \in arrival[p] : Near(t, o)
  /\ \A l \in Lefts(inbox[p], "slot") : Near(t, since[p] + l)
\* the same when p has the ack of the last phase still to read.
FitsBehind(p, t) ==
  \A l \in Lefts(inbox[p], "slot"), a \in Lefts(inbox[p], "ack") : Near(t, l - a)

Claims(p) == \A c \in Shown(inbox[p]) : \A t \in c : Fits(p, t)
Clocks(p, q) ==
  /\ Level(p, q) =>
       /\ q \in Awake => since[p] <= since[q] + Delay /\ since[q] <= since[p] + Delay
       /\ \A t \in commit[q] : Fits(p, t)
  /\ Leads(q, p) =>
       /\ \A a \in Lefts(inbox[p], "ack") : since[q] + a <= Delay
       /\ \A t \in commit[q] : FitsBehind(p, t)
Timing ==
  \A p \in Awake :
    Live(p) => /\ Claims(p)
               /\ Live(other(p)) => Clocks(p, other(p))

\* What lies in a box is typed, and claims are shown by reveals.
LEMMA BoxTypes ==
  ASSUME Typed, NEW p \in Peers
  PROVE  /\ \A k : Lefts(inbox[p], k) \subseteq 0..Delay
         /\ \A c \in Shown(inbox[p]) : c \subseteq 0..MaxWatch
         /\ Shown(inbox[p]) = {} <=> Lefts(inbox[p], "reveal") = {}
<1>1. inbox[p] \in Seq(Messages)
  BY DEF Typed
<1>2. \A i \in 1..Len(inbox[p]) : inbox[p][i] \in Messages
  BY <1>1
<1>3. \A i \in 1..Len(inbox[p]) : inbox[p][i].left \in 0..Delay /\ inbox[p][i].claim \subseteq 0..MaxWatch
  BY <1>2 DEF Messages
<1> DEFINE S == {j \in 1..Len(inbox[p]) : inbox[p][j].type = "reveal"}
<1>4. {inbox[p][i].claim : i \in S} = {} <=> {inbox[p][i].left : i \in S} = {}
  OBVIOUS
<1>5. QED
  BY <1>3, <1>4 DEF Lefts, Shown

\* The same, peer by peer, after a step.
LEMMA TimingAfter ==
  ASSUME NEW p \in Peers, NEW q, q = other(p),
         (p \in Awake)' /\ Live(p)' => Claims(p)' /\ (Live(q)' => Clocks(p, q)'),
         (q \in Awake)' /\ Live(q)' => Claims(q)' /\ (Live(p)' => Clocks(q, p)')
  PROVE  Timing'
BY OtherPeer DEF Timing, Awake

\* Which of the two is ahead is told by the phases alone.
LEMMA LockByPhase ==
  ASSUME Typed, NEW p \in Peers, NEW q \in Peers, Lock(p, q),
         phase'[p] = phase[p], phase'[q] = phase[q]
  PROVE  /\ Level(p, q)' \/ Level(q, p)' => Level(p, q) /\ Level(q, p)
         /\ Leads(p, q)' => Leads(p, q)
         /\ Leads(q, p)' => Leads(q, p)
<1>1. phase[p] \in Nat /\ phase[q] \in Nat
  BY DEF Typed
<1>2. /\ Level(p, q)' \/ Level(q, p)' => phase[p] = phase[q]
      /\ Leads(p, q)' => phase[p] = phase[q] + 1
      /\ Leads(q, p)' => phase[q] = phase[p] + 1
  BY DEF Level, Leads
<1>3. /\ Level(p, q) => phase[p] = phase[q]
      /\ Leads(p, q) => phase[p] = phase[q] + 1
      /\ Leads(q, p) => phase[q] = phase[p] + 1
  BY DEF Level, Leads
<1>4. QED
  BY <1>1, <1>2, <1>3 DEF Lock

\* Clocks that are let alone still agree.
LEMMA ClocksKept ==
  ASSUME Typed, NEW p \in Peers, NEW q \in Peers, Lock(p, q), Clocks(p, q),
         phase'[p] = phase[p], phase'[q] = phase[q],
         since'[p] = since[p], since'[q] = since[q], Awake' \subseteq Awake,
         commit'[q] = commit[q], arrival'[p] \subseteq arrival[p],
         \A k \in {"slot", "ack"} : Lefts(inbox'[p], k) \subseteq Lefts(inbox[p], k)
  PROVE  Clocks(p, q)'
<1>1. /\ Level(p, q)' => Level(p, q)
      /\ Leads(q, p)' => Leads(q, p)
  BY LockByPhase
<1>2. \A t : Fits(p, t) => Fits(p, t)'
  BY DEF Fits
<1>3. \A t : FitsBehind(p, t) => FitsBehind(p, t)'
  BY DEF FitsBehind
<1>4. \A a \in Lefts(inbox'[p], "ack") : a \in Lefts(inbox[p], "ack")
  OBVIOUS
<1>5. QED
  BY <1>1, <1>2, <1>3, <1>4 DEF Clocks

\* So do claims.
LEMMA ClaimsKept ==
  ASSUME NEW p, Claims(p), since'[p] = since[p], arrival'[p] \subseteq arrival[p],
         Shown(inbox'[p]) \subseteq Shown(inbox[p]),
         Lefts(inbox'[p], "slot") \subseteq Lefts(inbox[p], "slot")
  PROVE  Claims(p)'
BY DEF Claims, Fits

\* The slot will be seen at most two delays after it was sent.
LEMMA SendSlotTiming ==
  ASSUME Base, Timing, NEW p \in Awake, send_slot(p)
  PROVE  Timing'
<1> DEFINE q == other(p)
<1>1. p \in Peers /\ q \in Peers /\ q # p /\ p = other(q) /\ Typed /\ Shape
  BY OtherPeer DEF Awake, Base
<1>2. /\ Steady(q) /\ pc[p] = "window" /\ commit[p] = {} /\ commit'[p] = {since[p]}
      /\ pc'[p] = pc[p] /\ phase'[p] = phase[p] /\ arrival'[p] = arrival[p]
      /\ since'[p] = since[p] /\ stopped' = stopped
      /\ inbox'[p] = inbox[p] /\ Gets(q, message("slot", {}))
  BY <1>1, SendSlotEffect
<1>3. Live(p) /\ InOrder(inbox[q]) /\ (Live(q) => Keeps(q) /\ Lock(p, q) /\ Lock(q, p))
  BY <1>1, <1>2, ShapeOf DEF Live, Lock
<1>4. /\ Claims(p) /\ (Live(q) => Clocks(p, q))
      /\ q \in Awake /\ Live(q) => Claims(q) /\ Clocks(q, p)
  BY <1>1, <1>3 DEF Timing
<1>5. /\ phase'[q] = phase[q] /\ since'[q] = since[q] /\ commit'[q] = commit[q]
      /\ arrival'[q] = arrival[q] /\ Awake' = Awake
      /\ Live(p)' = Live(p) /\ Live(q)' = Live(q)
  BY <1>2 DEF Steady, Awake, Live
<1>6. Claims(p)' /\ (Live(q) => Clocks(p, q)')
  BY <1>1, <1>2, <1>3, <1>4, <1>5, ClaimsKept, ClocksKept
<1>7. ASSUME q \in Awake, Live(q) PROVE Claims(q)' /\ Clocks(q, p)'
  <2>1. Lefts(inbox[q], "slot") = {} /\ Lefts(inbox[q], "reveal") = {}
    BY <1>2, <1>3, <1>7 DEF Lock, Level, Leads, Keeps
  <2>2. /\ Lefts(inbox'[q], "slot") = {Delay} /\ Shown(inbox'[q]) = Shown(inbox[q])
        /\ Lefts(inbox'[q], "ack") = Lefts(inbox[q], "ack")
    BY <1>1, <1>2, <1>3, <1>7, <2>1, GotOne DEF Exchange
  <2>3. Claims(q)'
    BY <1>1, <2>1, <2>2, BoxTypes DEF Claims
  <2>4. since[p] \in Nat /\ since[q] \in Nat /\ Lefts(inbox[q], "ack") \subseteq 0..Delay
    <3>1. since[p] \in Nat /\ since[q] \in Nat
      BY <1>1, Numbers DEF Typed
    <3>2. QED
      BY <1>1, <3>1, BoxTypes
  <2>5. ASSUME Level(q, p)' PROVE Fits(q, since[p])' /\ Level(q, p)
    <3>1. Level(q, p) /\ Level(p, q)
      BY <1>1, <1>2, <1>3, <1>5, <1>7, <2>5, LockByPhase
    <3>2. arrival[q] = {}
      BY <1>2, <3>1 DEF Level
    <3>3. since[q] <= since[p] + Delay /\ since[p] <= since[q] + Delay
      BY <1>4, <1>7, <3>1 DEF Clocks
    <3>4. Near(since[p], since[q] + Delay)
      BY <2>4, <3>3, Numbers DEF Near
    <3>5. QED
      BY <1>2, <1>5, <2>2, <3>1, <3>2, <3>4 DEF Fits
  <2>6. ASSUME Leads(p, q)' PROVE FitsBehind(q, since[p])' /\ Leads(p, q)
    <3>1. Leads(p, q)
      BY <1>1, <1>2, <1>3, <1>5, <1>7, <2>6, LockByPhase
    <3>2. \A a \in Lefts(inbox[q], "ack") : since[p] + a <= Delay
      BY <1>4, <1>7, <3>1 DEF Clocks
    <3>3. \A a \in Lefts(inbox[q], "ack") : Near(since[p], Delay - a)
      BY <2>4, <3>2, Numbers DEF Near
    <3>4. QED
      BY <1>2, <2>2, <3>1, <3>3 DEF FitsBehind
  <2>7. Clocks(q, p)'
    BY <1>2, <1>4, <1>5, <1>7, <2>2, <2>5, <2>6 DEF Clocks
  <2>8. QED
    BY <2>3, <2>7
<1>8. QED
  BY <1>1, <1>5, <1>6, <1>7, TimingAfter

\* Keepalive traffic sets no clock.
LEMMA ChatTiming ==
  ASSUME Base, Timing, NEW p \in Awake, send_ping(p) \/ take_keepalive(p)
  PROVE  Timing'
<1> DEFINE q == other(p)
<1>1. p \in Peers /\ q \in Peers /\ q # p /\ p = other(q) /\ Typed /\ Shape
  BY OtherPeer DEF Awake, Base
<1>2. /\ Steady(q) /\ pc'[p] = pc[p] /\ phase'[p] = phase[p] /\ commit'[p] = commit[p]
      /\ arrival'[p] = arrival[p] /\ since'[p] = since[p] /\ pc[p] # "over" /\ stopped' = stopped
      /\ inbox'[p] = inbox[p] \/ Takes(p, Keepalive)
      /\ inbox'[q] = inbox[q] \/ Gets(q, message("ping", {})) \/ Gets(q, message("pong", {}))
  BY <1>1, SendPingEffect, TakeKeepaliveEffect DEF Waiting, Listening
<1>3. /\ Live(p) /\ InOrder(inbox[p]) /\ InOrder(inbox[q])
      /\ Live(q) => Lock(p, q) /\ Lock(q, p)
  BY <1>1, <1>2, ShapeOf DEF Live, Lock
<1>4. /\ Claims(p) /\ (Live(q) => Clocks(p, q))
      /\ q \in Awake /\ Live(q) => Claims(q) /\ Clocks(q, p)
  BY <1>1, <1>3 DEF Timing
<1>5. /\ phase'[q] = phase[q] /\ since'[q] = since[q] /\ commit'[q] = commit[q]
      /\ arrival'[q] = arrival[q] /\ Awake' = Awake
      /\ Live(p)' = Live(p) /\ Live(q)' = Live(q)
  BY <1>2 DEF Steady, Awake, Live
<1>6. /\ Shown(inbox'[p]) \subseteq Shown(inbox[p])
      /\ \A k : Lefts(inbox'[p], k) \subseteq Lefts(inbox[p], k)
  BY <1>1, <1>2, <1>3, Took
<1>7. Live(q) => /\ Shown(inbox'[q]) = Shown(inbox[q])
                 /\ \A k \in Exchange : Lefts(inbox'[q], k) = Lefts(inbox[q], k)
  <2>1. ASSUME NEW type \in Keepalive, Gets(q, message(type, {})), Live(q)
        PROVE  /\ Shown(inbox'[q]) = Shown(inbox[q])
               /\ \A k \in Exchange : Lefts(inbox'[q], k) = Lefts(inbox[q], k)
    BY <1>1, <1>3, <2>1, GotOther
  <2>2. QED
    BY <1>2, <2>1 DEF Keepalive
<1>8. Claims(p)' /\ (Live(q) => Clocks(p, q)')
  BY <1>1, <1>2, <1>3, <1>4, <1>5, <1>6, ClaimsKept, ClocksKept
<1>9. q \in Awake /\ Live(q) => Claims(q)' /\ Clocks(q, p)'
  BY <1>1, <1>2, <1>3, <1>4, <1>5, <1>7, ClaimsKept, ClocksKept DEF Exchange
<1>10. QED
  BY <1>1, <1>5, <1>8, <1>9, TimingAfter

\* What was to come has come: the slot's time is noted.
LEMMA TakeSlotTiming ==
  ASSUME Base, Timing, NEW p \in Awake, take_slot(p)
  PROVE  Timing'
<1> DEFINE q == other(p)
<1>1. p \in Peers /\ q \in Peers /\ q # p /\ p = other(q) /\ Typed /\ Shape
  BY OtherPeer DEF Awake, Base
<1>2. /\ Steady(q) /\ pc[p] = "window" /\ arrival[p] = {} /\ arrival'[p] = {since[p]}
      /\ pc'[p] = pc[p] /\ phase'[p] = phase[p] /\ commit'[p] = commit[p]
      /\ since'[p] = since[p] /\ stopped' = stopped
      /\ Takes(p, {"slot"}) /\ inbox'[q] = inbox[q]
  BY <1>1, TakeSlotEffect DEF Waiting
<1>3. /\ Live(p) /\ InOrder(inbox[p]) /\ InOrder(inbox[q])
      /\ Live(q) => Lock(p, q) /\ Lock(q, p)
  BY <1>1, <1>2, ShapeOf DEF Live, Lock
<1>4. /\ Claims(p) /\ (Live(q) => Clocks(p, q))
      /\ q \in Awake /\ Live(q) => Claims(q) /\ Clocks(q, p)
  BY <1>1, <1>3 DEF Timing
<1>5. /\ phase'[q] = phase[q] /\ since'[q] = since[q] /\ commit'[q] = commit[q]
      /\ arrival'[q] = arrival[q] /\ Awake' = Awake
      /\ Live(p)' = Live(p) /\ Live(q)' = Live(q)
  BY <1>2 DEF Steady, Awake, Live
<1>6. /\ Lefts(inbox'[p], "slot") = {} /\ Lefts(inbox[p], "slot") = {0}
      /\ Shown(inbox'[p]) \subseteq Shown(inbox[p])
      /\ Lefts(inbox'[p], "ack") = Lefts(inbox[p], "ack")
  BY <1>1, <1>2, <1>3, TookOne DEF Exchange
<1>7. \A t : Fits(p, t) => Fits(p, t)'
  <2>1. since[p] + 0 = since[p]
    BY <1>1, Numbers DEF Typed
  <2>2. QED
    BY <1>2, <1>6, <2>1 DEF Fits
<1>8. Claims(p)'
  BY <1>4, <1>6, <1>7 DEF Claims
<1>9. Live(q) => Clocks(p, q)'
  <2>1. Live(q) /\ Level(p, q)' => Level(p, q)
    BY <1>1, <1>2, <1>3, <1>5, LockByPhase
  <2>2. ~ Leads(q, p)'
    BY <1>2 DEF Leads
  <2>3. QED
    BY <1>2, <1>4, <1>5, <1>7, <2>1, <2>2 DEF Clocks
<1>10. q \in Awake /\ Live(q) => Claims(q)' /\ Clocks(q, p)'
  BY <1>1, <1>2, <1>3, <1>4, <1>5, ClaimsKept, ClocksKept
<1>11. QED
  BY <1>1, <1>5, <1>8, <1>9, <1>10, TimingAfter

\* The time that is shown is the one the slot was sent at.
LEMMA RevealTiming ==
  ASSUME Base, Timing, NEW p \in Awake, reveal(p)
  PROVE  Timing'
<1> DEFINE q == other(p)
<1>1. p \in Peers /\ q \in Peers /\ q # p /\ p = other(q) /\ Typed /\ Shape
  BY OtherPeer DEF Awake, Base
<1>2. /\ Steady(q) /\ pc[p] = "window" /\ commit[p] # {} /\ arrival[p] # {}
      /\ pc'[p] = "revealing" /\ phase'[p] = phase[p] /\ commit'[p] = commit[p]
      /\ arrival'[p] = arrival[p] /\ since'[p] = since[p] /\ stopped' = stopped
      /\ inbox'[p] = inbox[p] /\ Gets(q, message("reveal", commit[p]))
  BY <1>1, RevealEffect
<1>3. /\ Live(p) /\ InOrder(inbox[p]) /\ InOrder(inbox[q])
      /\ Live(q) => Lock(p, q) /\ Lock(q, p)
  BY <1>1, <1>2, ShapeOf DEF Live, Lock
<1>4. /\ Claims(p) /\ (Live(q) => Clocks(p, q))
      /\ q \in Awake /\ Live(q) => Claims(q) /\ Clocks(q, p)
  BY <1>1, <1>3 DEF Timing
<1>5. /\ phase'[q] = phase[q] /\ since'[q] = since[q] /\ commit'[q] = commit[q]
      /\ arrival'[q] = arrival[q] /\ Awake' = Awake
      /\ Live(p)' = Live(p) /\ Live(q)' = Live(q)
  BY <1>2 DEF Steady, Awake, Live
<1>6. Claims(p)' /\ (Live(q) => Clocks(p, q)')
  BY <1>1, <1>2, <1>3, <1>4, <1>5, ClaimsKept, ClocksKept
<1>7. ASSUME q \in Awake, Live(q) PROVE Claims(q)' /\ Clocks(q, p)'
  <2>1. Level(q, p)
    BY <1>2, <1>3, <1>7 DEF Lock, Leads
  <2>2. commit[p] \in SUBSET (0..MaxWatch)
    BY <1>1 DEF Typed
  <2>3. /\ Shown(inbox'[q]) = Shown(inbox[q]) \cup {commit[p]}
        /\ \A k : k # "reveal" => Lefts(inbox'[q], k) = Lefts(inbox[q], k)
    BY <1>1, <1>2, <1>7, <2>2, Got DEF Exchange
  <2>4. \A t \in commit[p] : Fits(q, t)
    BY <1>4, <1>7, <2>1 DEF Clocks
  <2>5. \A t : Fits(q, t) => Fits(q, t)'
    BY <1>5, <2>3 DEF Fits
  <2>6. Claims(q)'
    BY <1>4, <1>7, <2>3, <2>4, <2>5 DEF Claims
  <2>7. Clocks(q, p)'
    BY <1>1, <1>2, <1>3, <1>4, <1>5, <1>7, <2>3, ClocksKept
  <2>8. QED
    BY <2>6, <2>7
<1>8. QED
  BY <1>1, <1>5, <1>6, <1>7, TimingAfter

\* A match that ends claims nothing more.
LEMMA EndsTiming ==
  ASSUME Base, Timing, NEW p \in Awake, NEW v, ends(p, v)
  PROVE  Timing'
<1> DEFINE q == other(p)
<1>1. p \in Peers /\ q \in Peers /\ q # p /\ p = other(q) /\ Typed /\ Shape
  BY OtherPeer DEF Awake, Base
<1>2. /\ Steady(q) /\ pc'[p] = "over" /\ stopped' = stopped /\ Gets(q, message("eof", {}))
  BY <1>1, EndsEffect
<1>3. InOrder(inbox[q])
  BY <1>1, ShapeOf
<1>4. q \in Awake /\ Live(q) => Claims(q)
  BY <1>1 DEF Timing
<1>5. /\ since'[q] = since[q] /\ arrival'[q] = arrival[q] /\ Awake' = Awake
      /\ ~ Live(p)' /\ Live(q)' = Live(q)
  BY <1>2 DEF Steady, Awake, Live
<1>6. Live(q) => /\ Shown(inbox'[q]) = Shown(inbox[q])
                 /\ Lefts(inbox'[q], "slot") = Lefts(inbox[q], "slot")
  BY <1>1, <1>2, <1>3, GotOther
<1>7. q \in Awake /\ Live(q) => Claims(q)'
  BY <1>4, <1>5, <1>6, ClaimsKept
<1>8. QED
  BY <1>1, <1>5, <1>7, TimingAfter

\* The reveal is read.
LEMMA TakeRevealTiming ==
  ASSUME Base, Timing, NEW p \in Awake, take_reveal(p)
  PROVE  Timing'
<1> DEFINE q == other(p)
<1>1. p \in Peers /\ q \in Peers /\ q # p /\ p = other(q) /\ Typed /\ Shape
  BY OtherPeer DEF Awake, Base
<1>2. CASE ends(p, "out_of_tolerance")
  BY <1>2, EndsTiming
<1>3. CASE ~ ends(p, "out_of_tolerance")
  <2>1. /\ Steady(q) /\ pc[p] = "revealing" /\ pc'[p] = "acking" /\ phase'[p] = phase[p]
        /\ commit'[p] = commit[p] /\ arrival'[p] = arrival[p] /\ since'[p] = since[p]
        /\ stopped' = stopped /\ Takes(p, {"reveal"}) /\ Gets(q, message("ack", {}))
    BY <1>1, <1>3, TakeRevealEffect
  <2>2. /\ Live(p) /\ InOrder(inbox[p]) /\ InOrder(inbox[q])
        /\ Live(q) => Lock(p, q) /\ Lock(q, p)
    BY <1>1, <2>1, ShapeOf DEF Live, Lock
  <2>3. /\ Claims(p) /\ (Live(q) => Clocks(p, q))
        /\ q \in Awake /\ Live(q) => Claims(q) /\ Clocks(q, p)
    BY <1>1, <2>2 DEF Timing
  <2>4. /\ phase'[q] = phase[q] /\ since'[q] = since[q] /\ commit'[q] = commit[q]
        /\ arrival'[q] = arrival[q] /\ Awake' = Awake
        /\ Live(p)' = Live(p) /\ Live(q)' = Live(q)
    BY <2>1 DEF Steady, Awake, Live
  <2>5. /\ Shown(inbox'[p]) \subseteq Shown(inbox[p])
        /\ Lefts(inbox'[p], "slot") = Lefts(inbox[p], "slot")
        /\ Lefts(inbox'[p], "ack") = Lefts(inbox[p], "ack")
    BY <1>1, <2>1, <2>2, TookOne DEF Exchange
  <2>6. Claims(p)' /\ (Live(q) => Clocks(p, q)')
    BY <1>1, <2>1, <2>2, <2>3, <2>4, <2>5, ClaimsKept, ClocksKept
  <2>7. ASSUME q \in Awake, Live(q) PROVE Claims(q)' /\ Clocks(q, p)'
    <3>1. Level(p, q) /\ Level(q, p)
      BY <2>1, <2>2, <2>7 DEF Lock, Leads
    <3>2. Lefts(inbox[q], "ack") = {}
      BY <2>1, <3>1 DEF Level
    <3>3. /\ Shown(inbox'[q]) = Shown(inbox[q])
          /\ Lefts(inbox'[q], "slot") = Lefts(inbox[q], "slot")
      BY <1>1, <2>1, <2>2, <2>7, <3>2, GotOne DEF Exchange
    <3>4. Claims(q)'
      BY <2>3, <2>4, <2>7, <3>3, ClaimsKept
    <3>5. ~ Leads(p, q)'
      BY <2>1 DEF Leads
    <3>6. \A t : Fits(q, t) => Fits(q, t)'
      BY <2>4, <3>3 DEF Fits
    <3>7. Clocks(q, p)'
      BY <2>1, <2>3, <2>4, <2>7, <3>1, <3>5, <3>6 DEF Clocks
    <3>8. QED
      BY <3>4, <3>7
  <2>8. QED
    BY <1>1, <2>4, <2>6, <2>7, TimingAfter
<1>4. QED
  BY <1>2, <1>3

\* A phase begins at most a delay before or after the other's.
LEMMA TakeAckTiming ==
  ASSUME Base, Timing, NEW p \in Awake, take_ack(p)
  PROVE  Timing'
<1> DEFINE q == other(p)
<1>1. p \in Peers /\ q \in Peers /\ q # p /\ p = other(q) /\ Typed /\ Shape
  BY OtherPeer DEF Awake, Base
<1>2. CASE ends(p, "result")
  BY <1>2, EndsTiming
<1>3. CASE ~ ends(p, "result")
  <2>1. /\ Steady(q) /\ pc[p] = "acking" /\ pc'[p] = "window" /\ phase'[p] = phase[p] + 1
        /\ since'[p] = 0 /\ commit'[p] = {} /\ arrival'[p] = {}
        /\ stopped' = stopped /\ Takes(p, {"ack"}) /\ inbox'[q] = inbox[q]
    BY <1>1, <1>3, TakeAckEffect
  <2>2. /\ Live(p) /\ InOrder(inbox[p]) /\ InOrder(inbox[q]) /\ Keeps(p)
        /\ Live(q) => Lock(p, q)
    BY <1>1, <2>1, ShapeOf DEF Live
  <2>3. /\ Claims(p) /\ (Live(q) => Clocks(p, q))
        /\ q \in Awake /\ Live(q) => Claims(q) /\ Clocks(q, p)
    BY <1>1, <2>2 DEF Timing
  <2>4. /\ phase'[q] = phase[q] /\ since'[q] = since[q] /\ commit'[q] = commit[q]
        /\ arrival'[q] = arrival[q] /\ Awake' = Awake
        /\ Live(p)' = Live(p) /\ Live(q)' = Live(q)
    BY <2>1 DEF Steady, Awake, Live
  <2>5. /\ Shown(inbox'[p]) \subseteq Shown(inbox[p])
        /\ Lefts(inbox'[p], "slot") = Lefts(inbox[p], "slot")
        /\ Lefts(inbox'[p], "ack") = {} /\ Lefts(inbox[p], "ack") = {0}
    BY <1>1, <2>1, <2>2, TookOne DEF Exchange
  <2>6. Claims(p)'
    BY <1>1, <2>1, <2>2, <2>5, BoxTypes DEF Claims, Keeps
  <2>7. q \in Awake /\ Live(q) => Claims(q)'
    BY <2>1, <2>3, <2>4, ClaimsKept
  <2>8. /\ since[q] \in Nat /\ phase[p] \in Nat /\ phase[q] \in Nat
        /\ Lefts(inbox[p], "slot") \subseteq 0..Delay /\ Lefts(inbox[q], "ack") \subseteq 0..Delay
    <3>1. since[q] \in Nat /\ phase[p] \in Nat /\ phase[q] \in Nat
      BY <1>1, Numbers DEF Typed
    <3>2. QED
      BY <1>1, <3>1, BoxTypes
  <2>9. ASSUME Live(q), Level(p, q) PROVE Clocks(p, q)' /\ (q \in Awake => Clocks(q, p)')
    <3>1. ~ Level(p, q)' /\ ~ Level(q, p)' /\ ~ Leads(q, p)'
      BY <2>1, <2>4, <2>8, <2>9 DEF Level, Leads
    <3>2. \A a \in Lefts(inbox'[q], "ack") : since'[p] + a <= Delay
      BY <2>1, <2>8, Numbers
    <3>3. QED
      BY <2>1, <3>1, <3>2 DEF Clocks
  <2>10. ASSUME Live(q), Leads(q, p) PROVE Clocks(p, q)' /\ (q \in Awake => Clocks(q, p)')
    <3>1. since[q] <= Delay
      <4>1. \A a \in {0} : since[q] + a <= Delay
        BY <2>3, <2>5, <2>10 DEF Clocks
      <4>2. QED
        BY <2>8, <4>1
    <3>2. \A t \in commit[q] : Fits(p, t)'
      <4>1. SUFFICES ASSUME NEW t \in commit[q] PROVE Fits(p, t)'
        OBVIOUS
      <4>2. \A l \in Lefts(inbox[p], "slot"), a \in {0} : Near(t, l - a)
        BY <2>3, <2>5, <2>10 DEF Clocks, FitsBehind
      <4>3. \A l \in Lefts(inbox[p], "slot") : l - 0 = 0 + l
        BY <2>8, Numbers
      <4>4. \A l \in Lefts(inbox[p], "slot") : Near(t, 0 + l)
        BY <4>2, <4>3
      <4>5. QED
        BY <2>1, <2>5, <4>4 DEF Fits, Near
    <3>3. since'[p] <= since'[q] + Delay /\ since'[q] <= since'[p] + Delay
      BY <2>1, <2>4, <2>8, <3>1, Numbers
    <3>4. ~ Leads(q, p)' /\ ~ Leads(p, q)'
      BY <2>1, <2>4, <2>8, <2>10 DEF Leads
    <3>5. QED
      BY <2>1, <2>4, <3>2, <3>3, <3>4 DEF Clocks
  <2>11. Live(q) => Clocks(p, q)' /\ (q \in Awake => Clocks(q, p)')
    BY <2>1, <2>2, <2>9, <2>10 DEF Lock, Leads
  <2>12. QED
    BY <1>1, <2>4, <2>6, <2>7, <2>11, TimingAfter
<1>4. QED
  BY <1>2, <1>3

\* When nothing is due to be read, every message comes one tick nearer.
LEMMA AllNearer ==
  ASSUME Typed, NEW p \in Peers, InOrder(inbox[p]), inbox'[p] = aged(inbox[p]), ~ due(p)
  PROVE  \A k : /\ \A l \in Lefts(inbox[p], k) : l \in 1..Delay
                /\ Lefts(inbox'[p], k) = {l - 1 : l \in Lefts(inbox[p], k)}
<1>1. inbox[p] \in Seq(Messages)
  BY DEF Typed
<1>2. SUFFICES ASSUME NEW k
               PROVE  /\ \A l \in Lefts(inbox[p], k) : l \in 1..Delay
                      /\ Lefts(inbox'[p], k) = {l - 1 : l \in Lefts(inbox[p], k)}
  OBVIOUS
<1>3. CASE inbox[p] = <<>>
  <2>1. Lefts(<<>>, k) = {}
    BY DEF Lefts
  <2>2. Lefts(inbox'[p], k) = {Nearer(l) : l \in Lefts(inbox[p], k)}
    BY <1>1, Ageing
  <2>3. QED
    BY <1>3, <2>1, <2>2
<1>4. CASE inbox[p] # <<>>
  <2>1. /\ Head(inbox[p]) \in Messages
        /\ \A l \in Lefts(inbox[p], k) : Head(inbox[p]).left <= l
    BY <1>1, <1>4, Taking
  <2>2. Head(inbox[p]).left \in 0..Delay /\ Head(inbox[p]).left # 0
    BY <1>4, <2>1 DEF Messages, due
  <2>3. \A l \in Lefts(inbox[p], k) : l \in 0..Delay
    BY BoxTypes
  <2>4. \A l \in Lefts(inbox[p], k) : l \in 1..Delay /\ Nearer(l) = l - 1
    BY <2>1, <2>2, <2>3, Numbers DEF Nearer
  <2>5. Lefts(inbox'[p], k) = {Nearer(l) : l \in Lefts(inbox[p], k)}
    BY <1>1, Ageing
  <2>6. QED
    BY <2>4, <2>5
<1>5. QED
  BY <1>3, <1>4

\* What is near stays near while the one comes nearer and the other's watch runs.
LEMMA NearStays ==
  ASSUME NEW t \in 0..MaxWatch, NEW s \in 0..MaxWatch, NEW l \in 1..Delay, Near(t, s + l)
  PROVE  Near(t, advanced(s) + (l - 1))
BY Numbers DEF Near, advanced

\* A tick moves all clocks alike.
LEMMA TickTiming ==
  ASSUME Base, Timing, tick
  PROVE  Timing'
<1>1. Typed /\ Shape /\ \A p \in Peers : InOrder(inbox[p])
  BY DEF Base, Shape
<1>2. stopped' = stopped /\ Awake' = Awake
  BY <1>1, TickEffect DEF Awake
<1>3. SUFFICES ASSUME NEW p \in Awake, Live(p)'
               PROVE  Claims(p)' /\ (Live(other(p))' => Clocks(p, other(p))')
  BY <1>2 DEF Timing
<1> DEFINE q == other(p)
<1>4. p \in Peers /\ q \in Peers /\ q # p
  BY OtherPeer DEF Awake
<1>5. /\ \A x \in {p, q} :
           /\ pc'[x] = pc[x] /\ phase'[x] = phase[x]
           /\ commit'[x] = commit[x] /\ arrival'[x] = arrival[x]
           /\ inbox'[x] = aged(inbox[x])
           /\ since'[x] = IF Running(x) THEN advanced(since[x]) ELSE since[x]
           /\ Running(x) => ~ Due(x)
  BY <1>1, <1>4, TickEffect
<1>6. Live(p) /\ Running(p) /\ Keeps(p) /\ (Live(q)' = Live(q)) /\ Claims(p)
  BY <1>1, <1>3, <1>4, <1>5, ShapeOf DEF Live, Running, Timing
<1>7. since'[p] = advanced(since[p]) /\ ~ Due(p) /\ since[p] \in 0..MaxWatch
  BY <1>1, <1>4, <1>5, <1>6 DEF Typed
<1>8. Shown(inbox'[p]) = Shown(inbox[p])
  BY <1>1, <1>4, <1>5, Ageing DEF Typed
<1>9. Listening(p) => \A k : /\ \A l \in Lefts(inbox[p], k) : l \in 1..Delay
                             /\ Lefts(inbox'[p], k) = {l - 1 : l \in Lefts(inbox[p], k)}
  BY <1>1, <1>4, <1>5, <1>7, AllNearer DEF Due
<1>10. Lefts(inbox[p], "slot") = {} => Lefts(inbox'[p], "slot") = {}
  <2>1. Lefts(inbox'[p], "slot") = {Nearer(l) : l \in Lefts(inbox[p], "slot")}
    BY <1>1, <1>4, <1>5, Ageing DEF Typed
  <2>2. QED
    BY <2>1
<1>11. Lefts(inbox[p], "slot") # {} /\ arrival[p] = {} => Listening(p)
  BY <1>1, <1>4, <1>6 DEF Keeps, Listening, Waiting, Live, Typed, Places
<1>12. ASSUME NEW t \in 0..MaxWatch, Fits(p, t),
              Lefts(inbox[p], "slot") # {} => arrival[p] = {}
       PROVE  Fits(p, t)'
  <2>1. CASE Lefts(inbox[p], "slot") = {}
    BY <1>4, <1>5, <1>10, <1>12, <2>1 DEF Fits, Near
  <2>2. CASE Lefts(inbox[p], "slot") # {}
    <3>1. /\ \A l \in Lefts(inbox[p], "slot") : l \in 1..Delay
          /\ Lefts(inbox'[p], "slot") = {l - 1 : l \in Lefts(inbox[p], "slot")}
          /\ arrival'[p] = {}
      BY <1>4, <1>5, <1>9, <1>11, <1>12, <2>2
    <3>2. \A l \in Lefts(inbox[p], "slot") : Near(t, advanced(since[p]) + (l - 1))
      BY <1>7, <1>12, <3>1, NearStays DEF Fits
    <3>3. \A l \in Lefts(inbox'[p], "slot") : Near(t, since'[p] + l)
      BY <1>7, <3>1, <3>2
    <3>4. QED
      BY <3>1, <3>3 DEF Fits, Near
  <2>3. QED
    BY <2>1, <2>2
<1>13. Claims(p)'
  <2>1. SUFFICES ASSUME NEW c \in Shown(inbox[p]), NEW t \in c PROVE Fits(p, t)'
    BY <1>8 DEF Claims
  <2>2. t \in 0..MaxWatch /\ Lefts(inbox[p], "reveal") # {}
    BY <1>1, <1>4, BoxTypes
  <2>3. Fits(p, t)
    BY <1>6 DEF Claims
  <2>4. QED
    BY <1>6, <1>12, <2>2, <2>3 DEF Keeps
<1>14. ASSUME Live(q) PROVE Clocks(p, q)'
  <2>1. Lock(p, q) /\ Clocks(p, q) /\ commit[q] \subseteq 0..MaxWatch /\ since[q] \in 0..MaxWatch
    BY <1>1, <1>4, <1>6, <1>14, ShapeOf DEF Timing, Typed
  <2>2. /\ Level(p, q)' => Level(p, q)
        /\ Leads(q, p)' => Leads(q, p)
    BY <1>1, <1>4, <1>5, <2>1, LockByPhase
  <2>3. ASSUME Level(p, q)
        PROVE  /\ q \in Awake' => since'[p] <= since'[q] + Delay /\ since'[q] <= since'[p] + Delay
               /\ \A t \in commit'[q] : Fits(p, t)'
    <3>1. \A t \in commit'[q] : Fits(p, t)'
      BY <1>4, <1>5, <1>12, <2>1, <2>3 DEF Clocks, Level
    <3>2. ASSUME q \in Awake
          PROVE  since'[p] <= since'[q] + Delay /\ since'[q] <= since'[p] + Delay
      <4>1. since'[q] = advanced(since[q])
        BY <1>4, <1>5, <1>14, <3>2 DEF Running, Live
      <4>2. since[p] <= since[q] + Delay /\ since[q] <= since[p] + Delay
        BY <2>1, <2>3, <3>2 DEF Clocks
      <4>3. QED
        BY <1>7, <2>1, <4>1, <4>2, Numbers DEF advanced
    <3>3. QED
      BY <1>2, <3>1, <3>2
  <2>4. ASSUME Leads(q, p)
        PROVE  /\ \A a \in Lefts(inbox'[p], "ack") : since'[q] + a <= Delay
               /\ \A t \in commit'[q] : FitsBehind(p, t)'
    <3>1. \A k : /\ \A l \in Lefts(inbox[p], k) : l \in 1..Delay
                 /\ Lefts(inbox'[p], k) = {l - 1 : l \in Lefts(inbox[p], k)}
      BY <1>9, <2>4 DEF Leads, Listening
    <3>2. \A a \in Lefts(inbox[p], "ack") : since[q] + a <= Delay
      BY <2>1, <2>4 DEF Clocks
    <3>3. since'[q] \in Nat /\ since'[q] <= since[q] + 1
      BY <1>4, <1>5, <2>1, Numbers DEF advanced
    <3>4. \A a \in Lefts(inbox[p], "ack") : since'[q] + (a - 1) <= Delay
      BY <2>1, <3>1, <3>2, <3>3, Numbers
    <3>5. \A t \in commit'[q] : FitsBehind(p, t)'
      <4>1. SUFFICES ASSUME NEW t \in commit[q], NEW l \in Lefts(inbox[p], "slot"),
                            NEW a \in Lefts(inbox[p], "ack")
                     PROVE  Near(t, (l - 1) - (a - 1))
        BY <1>4, <1>5, <3>1 DEF FitsBehind, Near
      <4>2. Near(t, l - a)
        BY <2>1, <2>4 DEF Clocks, FitsBehind
      <4>3. (l - 1) - (a - 1) = l - a
        BY <3>1, Numbers
      <4>4. QED
        BY <4>2, <4>3
    <3>6. QED
      BY <3>1, <3>4, <3>5
  <2>5. QED
    BY <2>2, <2>3, <2>4 DEF Clocks
<1>15. QED
  BY <1>6, <1>13, <1>14

\* A peer that is stopped claims nothing any more.
LEMMA TimingRests ==
  ASSUME Timing, Awake' \subseteq Awake,
         UNCHANGED <<pc, phase, since, commit, arrival, inbox>>
  PROVE  Timing'
<1>1. \A p \in Peers : Live(p)' = Live(p) /\ Claims(p)' = Claims(p)
  BY DEF Live, Claims, Fits, Near
<1>2. \A p, q : Level(p, q)' = Level(p, q) /\ Leads(p, q)' = Leads(p, q)
  BY DEF Level, Leads
<1>3. \A p, q : Clocks(p, q) => Clocks(p, q)'
  <2>1. \A p, t : Fits(p, t)' = Fits(p, t) /\ FitsBehind(p, t)' = FitsBehind(p, t)
    BY DEF Fits, FitsBehind, Near
  <2>2. QED
    BY <1>2, <2>1 DEF Clocks
<1>4. \A p \in Peers : other(p) \in Peers
  BY OtherPeer
<1>5. Awake \subseteq Peers
  BY DEF Awake
<1>6. QED
  BY <1>1, <1>3, <1>4, <1>5 DEF Timing

-----------------------------------------------------------------------------
(***************************************************************************)
(* No honest time is rejected.                                             *)
(***************************************************************************)
\* At first nothing is claimed, and both clocks start.
LEMMA InitTiming == Init => Timing
<1>1. SUFFICES ASSUME Init, NEW p \in Awake PROVE Claims(p) /\ Clocks(p, other(p))
  BY DEF Timing
<1>2. p \in Peers /\ other(p) \in Peers
  BY OtherPeer DEF Awake
<1>3. /\ inbox[p] = <<>> /\ since[p] = 0 /\ since[other(p)] = 0
      /\ commit[other(p)] = {} /\ phase[p] = 0 /\ phase[other(p)] = 0
  BY <1>1, <1>2 DEF Init
<1>4. Shown(<<>>) = {}
  BY DEF Shown
<1>5. Claims(p)
  BY <1>3, <1>4 DEF Claims
<1>6. Clocks(p, other(p))
  BY <1>3, Numbers DEF Clocks, Leads
<1>7. QED
  BY <1>5, <1>6

\* The clocks stay as close as they are.
LEMMA NextTiming ==
  ASSUME Base, Timing, [Next]_vars
  PROVE  Timing'
<1>1. CASE tick
  BY <1>1, TickTiming
<1>2. ASSUME NEW p \in Awake, Works(p) PROVE Timing'
  <2>1. p \in Peers
    BY DEF Awake
  <2>2. QED
    BY <1>2, <2>1, ActionCases, SendSlotTiming, ChatTiming, TakeSlotTiming, RevealTiming,
       TakeRevealTiming, TakeAckTiming, EndsTiming
<1>3. ASSUME NEW p \in Awake, stop(p) PROVE Timing'
  BY <1>3, StopEffect, TimingRests DEF Base, Awake
<1>4. CASE UNCHANGED vars
  BY <1>4, TimingRests DEF vars, Awake
<1>5. QED
  BY <1>1, <1>2, <1>3, <1>4 DEF Next

\* A verdict is given when a match ends, and to nobody else.
LEMMA Verdicts ==
  ASSUME Typed, NEW p \in Peers, Works(p), NEW x \in Peers
  PROVE  \/ verdict'[x] = verdict[x]
         \/ x = p /\ \/ take_reveal(p) /\ ~ within_tolerance(p, Head(inbox[p]).claim)
                        /\ verdict'[p] = "out_of_tolerance"
                     \/ timed_out(p) /\ verdict'[p] = "TransportTimeout"
                     \/ unresponsive(p) /\ verdict'[p] = "unresponsive"
                     \/ verdict'[p] \in {"result", "closed"}
<1> DEFINE q == other(p)
<1>1. q \in Peers /\ (x = p \/ x = q)
  BY OtherPeer
<1>2. \A v : ends(p, v) => verdict'[q] = verdict[q] /\ verdict'[p] = v
  BY EndsEffect DEF Steady
<1>3. CASE send_slot(p) \/ send_ping(p) \/ take_slot(p) \/ reveal(p) \/ take_keepalive(p)
  BY <1>1, <1>3 DEF send_slot, send_ping, take_slot, reveal, take_keepalive
<1>4. CASE take_reveal(p)
  BY <1>1, <1>2, <1>4, TakeRevealEffect DEF Steady
<1>5. CASE take_ack(p)
  BY <1>1, <1>2, <1>5, TakeAckEffect DEF Steady
<1>6. CASE unresponsive(p) \/ timed_out(p) \/ hear_end(p)
  BY <1>1, <1>2, <1>6 DEF unresponsive, timed_out, hear_end
<1>7. QED
  BY <1>3, <1>4, <1>5, <1>6 DEF Works

\* An honest time differs from what the other saw by two delays at most.
LEMMA HonestIsWithin ==
  ASSUME 2 * Delay <= d_max + Epsilon,
         Base, Timing, NEW p \in Awake, take_reveal(p)
  PROVE  within_tolerance(p, Head(inbox[p]).claim)
<1>1. p \in Peers /\ Typed /\ InOrder(inbox[p]) /\ inbox[p] \in Seq(Messages)
  BY DEF Awake, Base, Shape, Typed
<1>2. pc[p] = "revealing" /\ inbox[p] # <<>> /\ Head(inbox[p]).type = "reveal"
  BY <1>1, TakeRevealEffect
<1>3. Head(inbox[p]).claim \in Shown(inbox[p])
  BY <1>1, <1>2, Taking
<1>4. Claims(p)
  BY <1>2 DEF Timing, Live
<1>5. SUFFICES ASSUME NEW t \in Head(inbox[p]).claim, NEW o \in arrival[p]
               PROVE  Abs(t - o) <= d_max + Epsilon
  BY DEF within_tolerance, observed
<1>6. t \in 0..MaxWatch /\ o \in 0..MaxWatch
  BY <1>1, <1>3, BoxTypes DEF Typed
<1>7. Near(t, o)
  BY <1>3, <1>4 DEF Claims, Fits
<1>8. QED
  BY <1>6, <1>7, Numbers, Tolerance DEF Near, Abs

\* The comment of _CLOCK_EPSILON (session.py:108): an honest peer is never
\* rejected, provided that the tolerance covers two delays, one because a phase
\* may begin a delay later here than there and one for the slot.
THEOREM PaceNeverWronglyRejected ==
  ASSUME 2 * Delay <= d_max + Epsilon
  PROVE  Spec => []NeverWronglyRejected
<1> DEFINE Inv == Base /\ Timing /\ NeverWronglyRejected
<1>1. Init => Inv
  BY InitBase, InitTiming DEF Init, NeverWronglyRejected
<1>2. Inv /\ [Next]_vars => Inv'
  <2>1. SUFFICES ASSUME Inv, [Next]_vars PROVE NeverWronglyRejected'
    BY NextBase, NextTiming
  <2>2. Typed /\ \A p \in Peers : InOrder(inbox[p])
    BY <2>1 DEF Base, Shape
  <2>3. CASE tick
    BY <2>1, <2>2, <2>3, TickEffect DEF NeverWronglyRejected
  <2>4. ASSUME NEW p \in Awake, Works(p) PROVE NeverWronglyRejected'
    <3>1. p \in Peers
      BY DEF Awake
    <3>2. take_reveal(p) => within_tolerance(p, Head(inbox[p]).claim)
      BY <2>1, HonestIsWithin
    <3>3. \A x \in Peers : verdict'[x] # "out_of_tolerance"
      BY <2>1, <2>2, <2>4, <3>1, <3>2, Verdicts DEF NeverWronglyRejected
    <3>4. QED
      BY <3>3 DEF NeverWronglyRejected
  <2>5. ASSUME NEW p \in Awake, stop(p) PROVE NeverWronglyRejected'
    BY <2>1, <2>5 DEF stop, NeverWronglyRejected
  <2>6. CASE UNCHANGED vars
    BY <2>1, <2>6 DEF vars, NeverWronglyRejected
  <2>7. QED
    BY <2>1, <2>3, <2>4, <2>5, <2>6 DEF Next
<1>3. QED
  BY <1>1, <1>2, PTL DEF Spec

-----------------------------------------------------------------------------
(***************************************************************************)
(* How long a peer may hear nothing.                                       *)
(***************************************************************************)
\* A peer that waits for a slot sends something at least this often, once the
\* other's phase has begun too.
gap == IF KeepaliveInterval > 2 * Delay THEN KeepaliveInterval ELSE 2 * Delay
limit(p) == IF pc[p] = "window" THEN LivenessDeadline ELSE TransportTimeout

\* The match is swift enough for its deadlines: an answer there and back is in
\* time, and so is the slowest decision after the quickest and one gap.
Swift ==
  /\ 2 * Delay < TransportTimeout
  /\ \A x, y \in ThinkTimes : x <= MaxWatch /\ gap + x - y < LivenessDeadline

\* What is on its way to p arrives before p gives up.
InTime(p) ==
  Listening(p) /\ inbox[p] # <<>> => quiet[p] + Head(inbox[p]).left < limit(p)

\* n ticks ago q sent its last message: no longer than a gap before its next
\* ping, or before the slot came after which it pings no more.
Sends(q, n) ==
  IF arrival[q] = {} THEN n + ping_in[q] <= gap
  ELSE \A o \in arrival[q] : n + o <= gap + since[q]
Recent(p, q) ==
  IF inbox[p] = <<>> THEN Sends(q, quiet[p] + Delay)
  ELSE Sends(q, Delay - Last(inbox[p]).left)

Deciding(q) == pc[q] = "window" /\ commit[q] = {}
\* What p waits for will be sent.
Answers(p, q) ==
  /\ Level(p, q) /\ Waiting(p) /\ Deciding(q) => Recent(p, q)
  /\ Leads(q, p) => Recent(p, q)
  /\ Level(p, q) /\ pc[p] = "revealing" /\ pc[q] = "window" =>
       /\ quiet[p] <= Delay
       /\ \A l \in Lefts(inbox[q], "slot") : quiet[p] + l <= Delay
  /\ Level(p, q) /\ pc[p] = "acking" /\ pc[q] = "revealing" =>
       \A l \in Lefts(inbox[q], "reveal") : quiet[p] + l <= Delay

Own(p) ==
  /\ pc[p] = "window" => quiet[p] <= since[p]
  /\ think[p] \in ThinkTimes /\ commit[p] \subseteq ThinkTimes
  /\ Deciding(p) => since[p] <= think[p]
\* The end is the last that comes, and comes only then.
Parting(p, q) ==
  /\ Lefts(inbox[p], "eof") # {} => ~ Live(q)
  /\ ~ Live(q) => inbox[p] # <<>> /\ Last(inbox[p]).type = "eof"

Hears(p, q) == Own(p) /\ InTime(p) /\ Parting(p, q) /\ (Live(q) => Answers(p, q))
Hearing     == \A p \in Peers : Live(p) => Hears(p, other(p))

\* The gap is a ping or an answer long, and shorter than the deadline.
LEMMA GapIsShort ==
  /\ gap \in Nat /\ KeepaliveInterval <= gap /\ 2 * Delay <= gap
  /\ Swift => \A x \in ThinkTimes : gap < LivenessDeadline
<1>1. gap \in Nat /\ KeepaliveInterval <= gap /\ 2 * Delay <= gap
  BY Numbers DEF gap
<1>2. ASSUME Swift, NEW x \in ThinkTimes PROVE gap < LivenessDeadline
  <2>1. gap + x - x < LivenessDeadline /\ x \in Nat
    BY <1>2, Numbers DEF Swift
  <2>2. QED
    BY <1>1, <2>1, Numbers
<1>3. QED
  BY <1>1, <1>2

\* A message takes one delay at most, the last one no less than the first.
LEMMA EndsOfBox ==
  ASSUME Typed, NEW p \in Peers, inbox[p] # <<>>, InOrder(inbox[p])
  PROVE  /\ Head(inbox[p]).left \in 0..Delay /\ Last(inbox[p]).left \in 0..Delay
         /\ Head(inbox[p]).left <= Last(inbox[p]).left
<1> DEFINE box == inbox[p]
           n == Len(box)
<1>1. /\ box \in Seq(Messages) /\ n \in Nat /\ n > 0 /\ Head(box) = box[1]
      /\ box[1] \in Messages /\ box[n] \in Messages
  BY DEF Typed
<1> HIDE DEF box
<1>2. box[1].left \in 0..Delay /\ box[n].left \in 0..Delay
  BY <1>1 DEF Messages
<1>3. box[1].left <= box[n].left
  BY <1>1, <1>2, Numbers DEF InOrder, box
<1>4. QED
  BY <1>1, <1>2, <1>3 DEF Last, box

\* The numbers of a peer are numbers.
LEMMA WatchTypes ==
  ASSUME Typed, NEW p \in Peers
  PROVE  /\ since[p] \in Nat /\ quiet[p] \in Nat /\ ping_in[p] \in Nat
         /\ ping_in[p] <= KeepaliveInterval /\ phase[p] \in Nat /\ think[p] \in Nat
         /\ since[p] <= MaxWatch /\ quiet[p] <= MaxWatch
         /\ \A o \in arrival[p] : o \in Nat
         /\ \A t \in commit[p] : t \in Nat
         /\ pc[p] \in Places
<1>1. since[p] \in 0..MaxWatch /\ quiet[p] \in 0..MaxWatch /\ ping_in[p] \in 0..KeepaliveInterval
  BY DEF Typed
<1>2. arrival[p] \subseteq 0..MaxWatch /\ commit[p] \subseteq 0..MaxWatch
  BY DEF Typed
<1>3. phase[p] \in Nat /\ think[p] \in Nat /\ pc[p] \in Places
  BY DEF Typed
<1>4. QED
  BY <1>1, <1>2, <1>3, Numbers

\* A peer that hears nothing will, and in time, were it sent only now.
LEMMA Prompt ==
  ASSUME Swift, Base, Timing, Hearing, stopped = {}, NEW p \in Peers,
         Listening(p), inbox[p] = <<>>
  PROVE  quiet[p] + Delay < limit(p)
<1> DEFINE q == other(p)
<1>1. p \in Peers /\ q \in Peers /\ q # p /\ p = other(q) /\ Typed /\ Shape
  BY OtherPeer DEF Base
<1>2. Live(p) /\ p \in Awake /\ q \in Awake
  BY <1>1 DEF Listening, Waiting, Live, Awake
<1>3. Hears(p, q)
  BY <1>1, <1>2 DEF Hearing
<1>4. Live(q)
  BY <1>3 DEF Hears, Parting
<1>5. Hears(q, p) /\ Lock(p, q) /\ Keeps(q) /\ Clocks(p, q) /\ Clocks(q, p)
  BY <1>1, <1>2, <1>4, ShapeOf DEF Hearing, Timing
<1>6. Lefts(<<>>, "slot") = {} /\ Lefts(<<>>, "reveal") = {} /\ Lefts(<<>>, "ack") = {}
  BY DEF Lefts
<1>7. /\ since[p] \in Nat /\ quiet[p] \in Nat /\ since[q] \in Nat /\ ping_in[q] \in Nat
      /\ \A o \in arrival[q] : o \in Nat
      /\ \A t \in commit[p] : t \in Nat
      /\ think[q] \in Nat /\ think[p] \in ThinkTimes /\ think[q] \in ThinkTimes
  BY <1>1, <1>3, <1>5, WatchTypes DEF Hears, Own
<1>8. gap \in Nat /\ 2 * Delay <= gap /\ gap < LivenessDeadline /\ 2 * Delay < TransportTimeout
  BY <1>7, GapIsShort DEF Swift
<1>9. ASSUME Level(p, q), Level(q, p) PROVE quiet[p] + Delay < limit(p)
  <2>1. CASE pc[p] = "window"
    <3>1. Waiting(p) /\ Deciding(q)
      BY <1>6, <1>9, <2>1 DEF Level, Listening, Waiting, Deciding
    <3>2. Sends(q, quiet[p] + Delay)
      BY <1>3, <1>4, <1>9, <3>1 DEF Hears, Answers, Recent
    <3>3. CASE arrival[q] = {}
      BY <1>7, <1>8, <2>1, <3>2, <3>3, Numbers DEF Sends, limit
    <3>4. CASE arrival[q] # {}
      <4>1. PICK o : o \in arrival[q]
        BY <3>4
      <4>2. commit[p] # {}
        BY <1>9, <3>4 DEF Level
      <4>3. PICK t : t \in commit[p]
        BY <4>2
      <4>4. t <= o
        BY <1>5, <1>9, <4>1, <4>3 DEF Clocks, Fits, Near
      <4>5. since[q] <= think[q]
        BY <1>5, <3>1 DEF Hears, Own
      <4>6. gap + think[q] - t < LivenessDeadline
        BY <1>3, <1>7, <4>3 DEF Swift, Hears, Own
      <4>7. quiet[p] + Delay + o <= gap + since[q]
        BY <3>2, <3>4, <4>1 DEF Sends
      <4>8. o \in Nat /\ t \in Nat
        BY <1>7, <4>1, <4>3
      <4>9. QED
        BY <1>7, <1>8, <2>1, <4>4, <4>5, <4>6, <4>7, <4>8, Numbers DEF limit
    <3>5. QED
      BY <3>3, <3>4
  <2>2. CASE pc[p] = "revealing"
    <3>1. pc[q] = "window"
      BY <1>6, <1>9, <2>2 DEF Level
    <3>2. quiet[p] <= Delay
      BY <1>3, <1>4, <1>9, <2>2, <3>1 DEF Hears, Answers
    <3>3. QED
      BY <1>7, <1>8, <2>2, <3>2, Numbers DEF limit
  <2>3. CASE pc[p] = "acking"
    <3>1. pc[q] = "revealing"
      BY <1>1, <1>4, <1>6, <1>9, <2>3, WatchTypes DEF Level, Live, Places
    <3>2. PICK l : l \in Lefts(inbox[q], "reveal")
      BY <1>9, <2>3, <3>1 DEF Level
    <3>3. quiet[p] + l <= Delay /\ l \in 0..Delay
      BY <1>1, <1>3, <1>4, <1>9, <2>3, <3>1, <3>2, BoxTypes DEF Hears, Answers
    <3>4. QED
      BY <1>7, <1>8, <2>3, <3>3, Numbers DEF limit
  <2>4. QED
    BY <2>1, <2>2, <2>3 DEF Listening, Waiting
<1>10. ASSUME Leads(p, q) PROVE quiet[p] + Delay < limit(p)
  <2>1. PICK a : a \in Lefts(inbox[q], "ack")
    BY <1>10 DEF Leads
  <2>2. since[p] + a <= Delay /\ a \in 0..Delay
    BY <1>1, <1>5, <1>10, <2>1, BoxTypes DEF Clocks
  <2>3. quiet[p] <= since[p] /\ pc[p] = "window"
    BY <1>3, <1>10 DEF Hears, Own, Leads
  <2>4. QED
    BY <1>7, <1>8, <2>2, <2>3, Numbers DEF limit
<1>11. ~ Leads(q, p)
  BY <1>6 DEF Leads
<1>12. QED
  BY <1>5, <1>9, <1>10, <1>11 DEF Lock

\* So it never gives up.
LEMMA NeverGivesUp ==
  ASSUME Swift, Base, Timing, Hearing, stopped = {}, NEW p \in Peers
  PROVE  ~ unresponsive(p) /\ ~ timed_out(p)
<1>1. Typed /\ InOrder(inbox[p])
  BY DEF Base, Shape
<1>2. ASSUME Listening(p) PROVE quiet[p] < limit(p)
  <2>1. quiet[p] \in Nat
    BY <1>1, WatchTypes
  <2>2. limit(p) \in Nat
    BY Numbers DEF limit
  <2>3. CASE inbox[p] = <<>>
    BY <1>2, <2>1, <2>2, <2>3, Prompt, Numbers
  <2>4. CASE inbox[p] # <<>>
    <3>1. Live(p)
      BY <1>2 DEF Listening, Waiting, Live
    <3>2. quiet[p] + Head(inbox[p]).left < limit(p) /\ Head(inbox[p]).left \in 0..Delay
      BY <1>1, <1>2, <2>4, <3>1, EndsOfBox DEF Hearing, Hears, InTime
    <3>3. QED
      BY <2>1, <2>2, <3>2, Numbers
  <2>5. QED
    BY <2>3, <2>4
<1>3. /\ unresponsive(p) => Listening(p) /\ quiet[p] >= limit(p)
      /\ timed_out(p) => Listening(p) /\ quiet[p] >= limit(p)
  BY DEF unresponsive, timed_out, late, Listening, Waiting, limit
<1>4. quiet[p] \in Nat /\ limit(p) \in Nat
  BY <1>1, WatchTypes, Numbers DEF limit
<1>5. QED
  BY <1>2, <1>3, <1>4

\* The same, peer by peer, after a step.
LEMMA HearingAfter ==
  ASSUME NEW p \in Peers, NEW q, q = other(p),
         Live(p)' => Hears(p, q)', Live(q)' => Hears(q, p)'
  PROVE  Hearing'
<1>1. q \in Peers /\ p = other(q) /\ Peers = {p, q}
  BY OtherPeer
<1>2. Hears(p, other(p))' = Hears(p, q)' /\ Hears(q, other(q))' = Hears(q, p)'
  BY <1>1 DEF Hears, Parting, Answers, Recent, Level, Leads, Own, InTime
<1>3. SUFFICES ASSUME NEW x \in Peers, Live(x)' PROVE Hears(x, other(x))'
  BY DEF Hearing
<1>4. QED
  BY <1>1, <1>2, <1>3

\* What one peer has of its own, and of the other, before a step.
LEMMA HearingOf ==
  ASSUME Base, Timing, Hearing, stopped = {}, NEW p \in Peers, NEW q, q = other(p), Live(p)
  PROVE  /\ Typed /\ q \in Peers /\ q # p /\ p = other(q)
         /\ p \in Awake /\ q \in Awake
         /\ InOrder(inbox[p]) /\ InOrder(inbox[q]) /\ Keeps(p)
         /\ Hears(p, q)
         /\ Live(q) => /\ Hears(q, p) /\ Keeps(q) /\ Lock(p, q) /\ Lock(q, p)
                       /\ Clocks(p, q) /\ Clocks(q, p)
<1>1. Typed /\ Shape /\ q \in Peers /\ q # p /\ p = other(q)
  BY OtherPeer DEF Base
<1>2. p \in Awake /\ q \in Awake
  BY <1>1 DEF Awake
<1>3. Hears(p, q) /\ (Live(q) => Hears(q, p))
  BY <1>1 DEF Hearing
<1>4. Live(q) => Clocks(p, q) /\ Clocks(q, p)
  BY <1>1, <1>2 DEF Timing
<1>5. QED
  BY <1>1, <1>2, <1>3, <1>4, ShapeOf DEF Lock

\* Something is sent to a peer that listens: it comes in time.
LEMMA SentInTime ==
  ASSUME Swift, Base, Timing, Hearing, stopped = {}, NEW q \in Peers, Live(q), Steady(q),
         inbox[q] # <<>> => Head(inbox'[q]) = Head(inbox[q]),
         inbox[q] = <<>> => Head(inbox'[q]).left = Delay
  PROVE  InTime(q)'
<1>1. Listening(q)' = Listening(q) /\ limit(q)' = limit(q) /\ quiet'[q] = quiet[q]
  BY DEF Steady, Listening, Waiting, limit
<1>2. InTime(q)
  BY DEF Hearing, Hears
<1>3. CASE inbox[q] = <<>>
  BY <1>1, <1>3, Prompt DEF InTime
<1>4. CASE inbox[q] # <<>>
  BY <1>1, <1>2, <1>4 DEF InTime
<1>5. QED
  BY <1>3, <1>4

\* A peer that just heard something has all the time for what is on its way.
LEMMA HeardInTime ==
  ASSUME Swift, NEW p \in Peers, think[p] \in ThinkTimes,
         quiet'[p] = 0, Typed', InOrder(inbox'[p])
  PROVE  InTime(p)'
<1>1. limit(p)' > Delay
  <2>1. gap \in Nat /\ gap < LivenessDeadline /\ 2 * Delay <= gap
    BY GapIsShort
  <2>2. 2 * Delay < TransportTimeout
    BY DEF Swift
  <2>3. LivenessDeadline > Delay /\ TransportTimeout > Delay
    BY <2>1, <2>2, Numbers
  <2>4. QED
    BY <2>3 DEF limit
<1>2. ASSUME inbox'[p] # <<>> PROVE Head(inbox'[p]).left \in 0..Delay
  <2>1. inbox'[p] \in Seq(Messages)
    BY DEF Typed
  <2>2. Head(inbox'[p]) \in Messages
    BY <1>2, <2>1
  <2>3. QED
    BY <2>2 DEF Messages
<1>3. limit(p)' \in Nat
  BY Numbers DEF limit
<1>4. QED
  BY <1>1, <1>2, <1>3, Numbers DEF InTime

\* What a peer has of its own stays while it is let alone,
LEMMA OwnKept ==
  ASSUME NEW q, Own(q), Steady(q)
  PROVE  Own(q)'
BY DEF Own, Deciding, Steady

\* what is on its way to it stays in time,
LEMMA InTimeKept ==
  ASSUME NEW q, InTime(q), Steady(q), inbox'[q] = inbox[q]
  PROVE  InTime(q)'
BY DEF InTime, Steady, Listening, Waiting, limit

\* nothing ends,
LEMMA PartingKept ==
  ASSUME NEW p, NEW q, Live(q), Live(q)',
         Parting(p, q), Lefts(inbox'[p], "eof") \subseteq Lefts(inbox[p], "eof")
  PROVE  Parting(p, q)'
BY DEF Parting

\* The end is not taken with what comes before it.
LEMMA PartingTook ==
  ASSUME Typed, NEW p \in Peers, NEW q, InOrder(inbox[p]), Parting(p, q), pc'[q] = pc[q],
         NEW kinds, Takes(p, kinds), "eof" \notin kinds
  PROVE  Parting(p, q)'
<1>1. /\ Lefts(inbox'[p], "eof") \subseteq Lefts(inbox[p], "eof")
      /\ inbox'[p] # <<>> => Last(inbox'[p]) = Last(inbox[p])
      /\ inbox'[p] = <<>> => Last(inbox[p]).type \in kinds
  BY Took
<1>2. QED
  BY <1>1 DEF Parting, Live

\* What comes next still comes when neither peer moves on.
LEMMA AnswersKept ==
  ASSUME Typed, NEW p \in Peers, NEW q \in Peers, Lock(p, q), Answers(p, q), Typed',
         pc'[p] = pc[p], pc'[q] = pc[q], phase'[p] = phase[p], phase'[q] = phase[q],
         Waiting(p)' => Waiting(p), Deciding(q)' => Deciding(q), quiet'[p] <= quiet[p],
         pc[q] = "window" /\ Recent(p, q) => Recent(p, q)',
         \A k \in {"slot", "reveal"} : Lefts(inbox'[q], k) \subseteq Lefts(inbox[q], k)
  PROVE  Answers(p, q)'
<1>1. /\ Level(p, q)' => Level(p, q)
      /\ Leads(q, p)' => Leads(q, p)
  BY LockByPhase
<1>2. quiet[p] \in Nat /\ quiet'[p] \in Nat
  <2>1. quiet'[p] \in 0..MaxWatch
    BY DEF Typed
  <2>2. QED
    BY <2>1, WatchTypes
<1>3. \A k : Lefts(inbox[q], k) \subseteq 0..Delay
  BY BoxTypes
<1>4. Level(p, q)' /\ Waiting(p)' /\ Deciding(q)' => Recent(p, q)'
  BY <1>1 DEF Answers, Deciding
<1>5. Leads(q, p)' => Recent(p, q)'
  BY <1>1 DEF Answers, Leads
<1>6. Level(p, q)' /\ pc'[p] = "revealing" /\ pc'[q] = "window" =>
       /\ quiet'[p] <= Delay
       /\ \A l \in Lefts(inbox'[q], "slot") : quiet'[p] + l <= Delay
  BY <1>1, <1>2, <1>3, Numbers DEF Answers
<1>7. Level(p, q)' /\ pc'[p] = "acking" /\ pc'[q] = "revealing" =>
       \A l \in Lefts(inbox'[q], "reveal") : quiet'[p] + l <= Delay
  BY <1>1, <1>2, <1>3, Numbers DEF Answers
<1>8. QED
  BY <1>4, <1>5, <1>6, <1>7 DEF Answers

\* What was sent just now was sent within the gap.
LEMMA SentRecently ==
  ASSUME NEW p \in Peers, NEW q \in Peers, Typed', arrival'[p] = {},
         inbox'[q] # <<>>, Last(inbox'[q]).left = Delay
  PROVE  Recent(q, p)'
<1>1. ping_in'[p] \in 0..KeepaliveInterval
  BY DEF Typed
<1>2. (Delay - Delay) + ping_in'[p] <= gap
  BY <1>1, GapIsShort, Numbers
<1>3. Sends(p, Delay - Delay)'
  BY <1>2 DEF Sends, gap
<1>4. Recent(q, p)'
  BY <1>3 DEF Recent, Sends
<1>5. QED
  BY <1>4

\* What was taken was heard just now.
LEMMA TookRecently ==
  ASSUME NEW p \in Peers, NEW q \in Peers, Typed, InOrder(inbox[p]),
         NEW kinds, Takes(p, kinds), quiet'[p] = 0,
         arrival'[q] = arrival[q], ping_in'[q] = ping_in[q], since'[q] = since[q],
         Recent(p, q)
  PROVE  Recent(p, q)'
<1>1. /\ inbox'[p] # <<>> => Last(inbox'[p]) = Last(inbox[p])
      /\ inbox'[p] = <<>> => Last(inbox[p]).left = 0
      /\ inbox[p] # <<>>
  BY Took DEF Takes
<1>2. Delay - 0 = 0 + Delay
  BY Numbers
<1>3. \A n : Sends(q, n) => Sends(q, n)'
  BY DEF Sends, gap
<1>4. CASE inbox'[p] = <<>>
  <2>1. Sends(q, 0 + Delay)
    BY <1>1, <1>2, <1>4 DEF Recent
  <2>2. QED
    BY <1>3, <1>4, <2>1 DEF Recent, Sends
<1>5. CASE inbox'[p] # <<>>
  <2>1. Sends(q, Delay - Last(inbox'[p]).left)
    BY <1>1, <1>5 DEF Recent
  <2>2. QED
    BY <1>5, <2>1 DEF Recent, Sends
<1>6. QED
  BY <1>4, <1>5

\* A slot reaches a peer in time.
LEMMA SendSlotHearing ==
  ASSUME Swift, Base, Timing, Hearing, stopped = {}, NEW p \in Peers, send_slot(p)
  PROVE  Hearing'
<1> DEFINE q == other(p)
<1>1. Live(p) /\ Typed /\ q \in Peers
  BY OtherPeer DEF send_slot, Live, Base
<1>2. /\ Typed /\ q \in Peers /\ q # p /\ p = other(q)
      /\ InOrder(inbox[p]) /\ InOrder(inbox[q]) /\ Hears(p, q)
      /\ Live(q) => Hears(q, p) /\ Lock(p, q) /\ Lock(q, p)
  BY <1>1, HearingOf
<1>3. /\ Typed' /\ Steady(q) /\ pc[p] = "window" /\ commit[p] = {} /\ since[p] = think[p]
      /\ commit'[p] = {since[p]}
      /\ pc'[p] = pc[p] /\ phase'[p] = phase[p] /\ since'[p] = since[p] /\ think'[p] = think[p]
      /\ arrival'[p] = arrival[p] /\ quiet'[p] = quiet[p] /\ ping_in'[p] = ping_in[p]
      /\ inbox'[p] = inbox[p] /\ Gets(q, message("slot", {}))
  BY <1>1, SendSlotEffect
<1>4. Own(p)'
  BY <1>2, <1>3 DEF Hears, Own, Deciding
<1>5. InTime(p)'
  BY <1>2, <1>3 DEF Hears, InTime, Listening, Waiting, limit
<1>6. Parting(p, q)'
  BY <1>2, <1>3 DEF Hears, Parting, Live, Steady
<1>7. /\ Live(q)' = Live(q) /\ quiet'[q] = quiet[q] /\ quiet[q] \in Nat /\ quiet[p] \in Nat
      /\ pc'[q] = pc[q] /\ phase'[q] = phase[q] /\ arrival'[q] = arrival[q]
      /\ commit'[q] = commit[q] /\ since'[q] = since[q] /\ ping_in'[q] = ping_in[q]
  BY <1>2, <1>3, WatchTypes DEF Live, Steady
<1>8. ASSUME Live(q) PROVE Answers(p, q)' /\ Hears(q, p)'
  <2>1. Lefts(inbox[q], "slot") = {}
    BY <1>2, <1>3, <1>8 DEF Lock, Level, Leads, Exchange
  <2>2. /\ inbox'[q] # <<>> /\ Last(inbox'[q]).left = Delay
        /\ \A k : k # "slot" => Lefts(inbox'[q], k) = Lefts(inbox[q], k)
        /\ inbox[q] # <<>> => Head(inbox'[q]) = Head(inbox[q])
        /\ inbox[q] = <<>> => Head(inbox'[q]).left = Delay
    BY <1>2, <1>3, <1>8, <2>1, GotOne DEF Exchange
  <2>3. Answers(p, q)'
    <3>1. (Waiting(p)' => Waiting(p)) /\ (Deciding(q)' => Deciding(q))
      BY <1>3, <1>7 DEF Waiting, Deciding
    <3>2. Recent(p, q) => Recent(p, q)'
      BY <1>3, <1>7 DEF Recent, Sends, gap
    <3>3. Level(p, q)' => Level(p, q)
      BY <1>2, <1>3, <1>7, <1>8, LockByPhase
    <3>4. Leads(q, p)' => Leads(q, p)
      BY <1>2, <1>3, <1>7, <1>8, LockByPhase
    <3>5. Answers(p, q)
      BY <1>2, <1>8 DEF Hears
    <3>6. pc'[p] = "window"
      BY <1>3
    <3>7. QED
      BY <3>1, <3>2, <3>3, <3>4, <3>5, <3>6 DEF Answers
  <2>4. Own(q)'
    BY <1>2, <1>3, <1>8, OwnKept DEF Hears
  <2>5. InTime(q)'
    BY <1>2, <1>3, <1>8, <2>2, SentInTime
  <2>6. Parting(q, p)'
    BY <1>1, <1>2, <1>3, <1>8, <2>2, PartingKept DEF Hears, Live
  <2>7. Answers(q, p)'
    <3>1. ~ Deciding(p)' /\ (Waiting(q)' => Waiting(q))
      BY <1>3, <1>7 DEF Deciding, Waiting
    <3>2. Leads(p, q)' => Recent(q, p)'
      BY <1>2, <1>3, <2>2, SentRecently DEF Leads
    <3>3. Level(q, p)' => Level(q, p)
      BY <1>2, <1>3, <1>7, <1>8, LockByPhase
    <3>4. Answers(q, p)
      BY <1>1, <1>2, <1>8 DEF Hears
    <3>5. QED
      BY <1>3, <1>7, <3>1, <3>2, <3>3, <3>4 DEF Answers
  <2>8. QED
    BY <2>3, <2>4, <2>5, <2>6, <2>7 DEF Hears
<1>9. Hears(p, q)'
  BY <1>4, <1>5, <1>6, <1>7, <1>8 DEF Hears
<1>10. Live(q)' => Hears(q, p)'
  BY <1>7, <1>8
<1>11. QED
  BY <1>9, <1>10, HearingAfter

\* So does a ping, and the next is a gap away.
LEMMA SendPingHearing ==
  ASSUME Swift, Base, Timing, Hearing, stopped = {}, NEW p \in Peers, send_ping(p)
  PROVE  Hearing'
<1> DEFINE q == other(p)
<1>1. Live(p) /\ Typed /\ q \in Peers
  BY OtherPeer DEF send_ping, Waiting, Live, Base
<1>2. /\ Typed /\ q \in Peers /\ q # p /\ p = other(q)
      /\ InOrder(inbox[p]) /\ InOrder(inbox[q]) /\ Hears(p, q)
      /\ Live(q) => Hears(q, p) /\ Lock(p, q) /\ Lock(q, p)
  BY <1>1, HearingOf
<1>3. /\ Typed' /\ Steady(q) /\ Waiting(p)
      /\ pc'[p] = pc[p] /\ phase'[p] = phase[p] /\ since'[p] = since[p] /\ think'[p] = think[p]
      /\ commit'[p] = commit[p] /\ arrival'[p] = arrival[p] /\ quiet'[p] = quiet[p]
      /\ inbox'[p] = inbox[p] /\ Gets(q, message("ping", {}))
  BY <1>1, SendPingEffect
<1>4. Own(p)' /\ InTime(p)'
  BY <1>2, <1>3 DEF Hears, Own, Deciding, InTime, Listening, Waiting, limit
<1>5. Parting(p, q)'
  BY <1>2, <1>3 DEF Hears, Parting, Live, Steady
<1>6. /\ Live(q)' = Live(q) /\ quiet'[q] = quiet[q] /\ quiet[q] \in Nat /\ quiet[p] \in Nat
      /\ pc'[q] = pc[q] /\ phase'[q] = phase[q] /\ arrival'[q] = arrival[q]
      /\ commit'[q] = commit[q] /\ since'[q] = since[q] /\ ping_in'[q] = ping_in[q]
  BY <1>2, <1>3, WatchTypes DEF Live, Steady
<1>7. /\ (Waiting(p)' => Waiting(p)) /\ (Deciding(q)' => Deciding(q))
      /\ (Waiting(q)' => Waiting(q)) /\ (Deciding(p)' => Deciding(p))
      /\ quiet'[p] <= quiet[p] /\ quiet'[q] <= quiet[q]
      /\ Recent(p, q) => Recent(p, q)'
  BY <1>3, <1>6 DEF Waiting, Deciding, Recent, Sends, gap
<1>8. ASSUME Live(q) PROVE Answers(p, q)' /\ Hears(q, p)'
  <2>1. /\ inbox'[q] # <<>> /\ Last(inbox'[q]).left = Delay
        /\ \A k : k # "ping" => Lefts(inbox'[q], k) = Lefts(inbox[q], k)
        /\ inbox[q] # <<>> => Head(inbox'[q]) = Head(inbox[q])
        /\ inbox[q] = <<>> => Head(inbox'[q]).left = Delay
    BY <1>2, <1>3, <1>8, GotOther DEF Keepalive
  <2>2. \A k \in {"slot", "reveal"} : Lefts(inbox'[q], k) \subseteq Lefts(inbox[q], k)
    BY <2>1
  <2>3. \A k \in {"slot", "reveal"} : Lefts(inbox'[p], k) \subseteq Lefts(inbox[p], k)
    BY <1>3
  <2>4. Answers(p, q)'
    BY <1>2, <1>3, <1>6, <1>7, <1>8, <2>2, AnswersKept DEF Hears
  <2>5. Recent(q, p)'
    BY <1>2, <1>3, <2>1, SentRecently DEF Waiting
  <2>6. Answers(q, p)'
    BY <1>1, <1>2, <1>3, <1>6, <1>7, <1>8, <2>3, <2>5, AnswersKept DEF Hears
  <2>7. Own(q)'
    BY <1>2, <1>3, <1>8, OwnKept DEF Hears
  <2>8. InTime(q)'
    BY <1>2, <1>3, <1>8, <2>1, SentInTime
  <2>9. Parting(q, p)'
    BY <1>1, <1>2, <1>3, <1>8, <2>1, PartingKept DEF Hears, Live
  <2>10. QED
    BY <2>4, <2>6, <2>7, <2>8, <2>9 DEF Hears
<1>9. Hears(p, q)'
  BY <1>4, <1>5, <1>6, <1>8 DEF Hears
<1>10. Live(q)' => Hears(q, p)'
  BY <1>6, <1>8
<1>11. QED
  BY <1>9, <1>10, HearingAfter

\* Whoever hears keepalive traffic has heard something, and may answer.
LEMMA TakeKeepaliveHearing ==
  ASSUME Swift, Base, Timing, Hearing, stopped = {}, NEW p \in Peers, take_keepalive(p)
  PROVE  Hearing'
<1> DEFINE q == other(p)
<1>1. Live(p) /\ Typed /\ q \in Peers
  BY OtherPeer DEF take_keepalive, Listening, Waiting, Live, Base
<1>2. /\ Typed /\ q \in Peers /\ q # p /\ p = other(q)
      /\ InOrder(inbox[p]) /\ InOrder(inbox[q]) /\ Hears(p, q)
      /\ Live(q) => Hears(q, p) /\ Lock(p, q) /\ Lock(q, p)
  BY <1>1, HearingOf
<1>3. /\ Typed' /\ Steady(q) /\ Listening(p) /\ quiet'[p] = 0
      /\ pc'[p] = pc[p] /\ phase'[p] = phase[p] /\ since'[p] = since[p] /\ think'[p] = think[p]
      /\ commit'[p] = commit[p] /\ arrival'[p] = arrival[p] /\ ping_in'[p] = ping_in[p]
      /\ Takes(p, Keepalive)
      /\ inbox'[q] = inbox[q] \/ Gets(q, message("pong", {}))
  BY <1>1, TakeKeepaliveEffect
<1>4. InOrder(inbox'[p]) /\ \A k : Lefts(inbox'[p], k) \subseteq Lefts(inbox[p], k)
  BY <1>2, <1>3, Took
<1>5. /\ Live(q)' = Live(q) /\ quiet'[q] = quiet[q] /\ quiet[q] \in Nat /\ quiet[p] \in Nat
      /\ since[p] \in Nat
      /\ pc'[q] = pc[q] /\ phase'[q] = phase[q] /\ arrival'[q] = arrival[q]
      /\ commit'[q] = commit[q] /\ since'[q] = since[q] /\ ping_in'[q] = ping_in[q]
  BY <1>1, <1>2, <1>3, WatchTypes DEF Live, Steady
<1>6. Own(p)' /\ think[p] \in ThinkTimes
  BY <1>2, <1>3, <1>5 DEF Hears, Own, Deciding
<1>7. InTime(p)'
  BY <1>3, <1>4, <1>6, HeardInTime
<1>8. Parting(p, q)'
  BY <1>2, <1>3, <1>5, PartingTook DEF Hears, Keepalive
<1>9. /\ (Waiting(p)' => Waiting(p)) /\ (Deciding(q)' => Deciding(q))
      /\ (Waiting(q)' => Waiting(q)) /\ (Deciding(p)' => Deciding(p))
      /\ quiet'[p] <= quiet[p] /\ quiet'[q] <= quiet[q]
  BY <1>3, <1>5 DEF Waiting, Deciding
<1>10. Recent(p, q) => Recent(p, q)'
  BY <1>2, <1>3, <1>5, TookRecently
<1>11. ASSUME Live(q) PROVE Answers(p, q)' /\ Hears(q, p)'
  <2>1. CASE inbox'[q] = inbox[q]
    <3>1. /\ \A k \in {"slot", "reveal"} : Lefts(inbox'[q], k) \subseteq Lefts(inbox[q], k)
          /\ \A k \in {"slot", "reveal"} : Lefts(inbox'[p], k) \subseteq Lefts(inbox[p], k)
      BY <1>4, <2>1
    <3>2. Answers(p, q)'
      BY <1>2, <1>3, <1>5, <1>9, <1>10, <1>11, <3>1, AnswersKept DEF Hears
    <3>3. Recent(q, p) => Recent(q, p)'
      BY <1>3, <1>5, <2>1 DEF Recent, Sends, gap
    <3>4. Answers(q, p)'
      BY <1>1, <1>2, <1>3, <1>5, <1>9, <1>11, <3>1, <3>3, AnswersKept DEF Hears
    <3>5. Own(q)' /\ InTime(q)'
      BY <1>2, <1>3, <1>11, <2>1, OwnKept, InTimeKept DEF Hears
    <3>6. Parting(q, p)'
      BY <1>1, <1>2, <1>3, <1>11, <2>1, PartingKept DEF Hears, Live
    <3>7. QED
      BY <3>2, <3>4, <3>5, <3>6 DEF Hears
  <2>2. CASE Gets(q, message("pong", {}))
    <3>1. /\ inbox'[q] # <<>> /\ Last(inbox'[q]).left = Delay
          /\ \A k : k # "pong" => Lefts(inbox'[q], k) = Lefts(inbox[q], k)
          /\ inbox[q] # <<>> => Head(inbox'[q]) = Head(inbox[q])
          /\ inbox[q] = <<>> => Head(inbox'[q]).left = Delay
      BY <1>2, <1>3, <1>11, <2>2, GotOther DEF Keepalive
    <3>2. /\ \A k \in {"slot", "reveal"} : Lefts(inbox'[q], k) \subseteq Lefts(inbox[q], k)
          /\ \A k \in {"slot", "reveal"} : Lefts(inbox'[p], k) \subseteq Lefts(inbox[p], k)
      BY <1>4, <3>1
    <3>3. Answers(p, q)'
      BY <1>2, <1>3, <1>5, <1>9, <1>10, <1>11, <3>2, AnswersKept DEF Hears
    <3>4. pc[p] = "window" => Recent(q, p)'
      BY <1>2, <1>3, <3>1, SentRecently DEF Waiting, Listening
    <3>5. Answers(q, p)'
      BY <1>1, <1>2, <1>3, <1>5, <1>9, <1>11, <3>2, <3>4, AnswersKept DEF Hears
    <3>6. Own(q)'
      BY <1>2, <1>3, <1>11, OwnKept DEF Hears
    <3>7. InTime(q)'
      BY <1>2, <1>3, <1>11, <3>1, SentInTime
    <3>8. Parting(q, p)'
      BY <1>1, <1>2, <1>3, <1>11, <3>1, PartingKept DEF Hears, Live
    <3>9. QED
      BY <3>3, <3>5, <3>6, <3>7, <3>8 DEF Hears
  <2>3. QED
    BY <1>3, <2>1, <2>2
<1>12. Hears(p, q)'
  BY <1>5, <1>6, <1>7, <1>8, <1>11 DEF Hears
<1>13. Live(q)' => Hears(q, p)'
  BY <1>5, <1>11
<1>14. QED
  BY <1>12, <1>13, HearingAfter

\* Whoever has the slot pings no more, which the clock then tells.
LEMMA TakeSlotHearing ==
  ASSUME Swift, Base, Timing, Hearing, stopped = {}, NEW p \in Peers, take_slot(p)
  PROVE  Hearing'
<1> DEFINE q == other(p)
<1>1. Live(p) /\ Typed /\ q \in Peers
  BY OtherPeer DEF take_slot, Waiting, Live, Base
<1>2. /\ Typed /\ q \in Peers /\ q # p /\ p = other(q)
      /\ InOrder(inbox[p]) /\ InOrder(inbox[q]) /\ Hears(p, q)
      /\ Live(q) => Hears(q, p) /\ Lock(p, q) /\ Lock(q, p)
  BY <1>1, HearingOf
<1>3. /\ Typed' /\ Steady(q)
      /\ Waiting(p) /\ arrival'[p] = {since[p]} /\ quiet'[p] = 0 /\ ping_in'[p] = 0
      /\ pc'[p] = pc[p] /\ phase'[p] = phase[p] /\ since'[p] = since[p] /\ think'[p] = think[p]
      /\ commit'[p] = commit[p]
      /\ Takes(p, {"slot"}) /\ inbox'[q] = inbox[q]
  BY <1>1, TakeSlotEffect
<1>4. InOrder(inbox'[p]) /\ \A k : Lefts(inbox'[p], k) \subseteq Lefts(inbox[p], k)
  BY <1>2, <1>3, Took
<1>5. /\ Live(q)' = Live(q) /\ quiet'[q] = quiet[q] /\ quiet[q] \in Nat /\ quiet[p] \in Nat
      /\ since[p] \in Nat /\ ping_in[p] \in Nat
      /\ pc'[q] = pc[q] /\ phase'[q] = phase[q] /\ arrival'[q] = arrival[q]
      /\ commit'[q] = commit[q] /\ since'[q] = since[q] /\ ping_in'[q] = ping_in[q]
  BY <1>1, <1>2, <1>3, WatchTypes DEF Live, Steady
<1>6. Own(p)' /\ InTime(p)'
  <2>1. Own(p)'
    BY <1>2, <1>3, <1>5 DEF Hears, Own, Deciding
  <2>2. ~ Listening(p)'
    BY <1>3 DEF Listening, Waiting
  <2>3. QED
    BY <2>1, <2>2 DEF InTime
<1>7. Parting(p, q)'
  BY <1>2, <1>3, <1>5, PartingTook DEF Hears
<1>8. Answers(p, q)'
  BY <1>3 DEF Answers, Waiting, Leads
<1>9. ASSUME Live(q) PROVE Hears(q, p)'
  <2>1. \A k \in {"slot", "reveal"} : Lefts(inbox'[p], k) \subseteq Lefts(inbox[p], k)
    BY <1>4
  <2>2. (Waiting(q)' => Waiting(q)) /\ (Deciding(p)' => Deciding(p)) /\ quiet'[q] <= quiet[q]
    BY <1>3, <1>5 DEF Waiting, Deciding
  <2>3. Recent(q, p) => Recent(q, p)'
    <3>1. \A n \in Int : Sends(p, n) => Sends(p, n)'
      <4>1. SUFFICES ASSUME NEW n \in Int, n + ping_in[p] <= gap PROVE n + since[p] <= gap + since[p]
        BY <1>3 DEF Sends, Waiting, gap
      <4>2. QED
        BY <1>5, <4>1, GapIsShort
    <3>2. quiet[q] + Delay \in Int
      BY <1>5, Numbers
    <3>3. inbox[q] # <<>> => Delay - Last(inbox[q]).left \in Int
      BY <1>2, EndsOfBox, Numbers
    <3>4. CASE inbox[q] = <<>>
      BY <1>3, <1>5, <3>1, <3>2, <3>4 DEF Recent, Sends
    <3>5. CASE inbox[q] # <<>>
      BY <1>3, <1>5, <3>1, <3>3, <3>5 DEF Recent, Sends
    <3>6. QED
      BY <3>4, <3>5
  <2>4. Answers(q, p)'
    BY <1>1, <1>2, <1>3, <1>5, <1>9, <2>1, <2>2, <2>3, AnswersKept DEF Hears
  <2>5. Own(q)' /\ InTime(q)'
    BY <1>2, <1>3, <1>9, OwnKept, InTimeKept DEF Hears
  <2>6. Parting(q, p)'
    BY <1>1, <1>2, <1>3, <1>9, PartingKept DEF Hears, Live
  <2>7. QED
    BY <2>4, <2>5, <2>6 DEF Hears
<1>10. Hears(p, q)'
  BY <1>6, <1>7, <1>8 DEF Hears
<1>11. Live(q)' => Hears(q, p)'
  BY <1>5, <1>9
<1>12. QED
  BY <1>10, <1>11, HearingAfter

\* The reveal reaches a peer that waits for it, or that still waits for the slot.
LEMMA RevealHearing ==
  ASSUME Swift, Base, Timing, Hearing, stopped = {}, NEW p \in Peers, reveal(p)
  PROVE  Hearing'
<1> DEFINE q == other(p)
<1>1. Live(p) /\ Typed /\ q \in Peers
  BY OtherPeer DEF reveal, Live, Base
<1>2. /\ Typed /\ q \in Peers /\ q # p /\ p = other(q)
      /\ InOrder(inbox[p]) /\ InOrder(inbox[q]) /\ Hears(p, q)
      /\ Live(q) => Hears(q, p) /\ Lock(p, q) /\ Lock(q, p)
  BY <1>1, HearingOf
<1>3. /\ Typed' /\ Steady(q)
      /\ pc[p] = "window" /\ commit[p] # {} /\ arrival[p] # {}
      /\ pc'[p] = "revealing" /\ quiet'[p] = 0
      /\ phase'[p] = phase[p] /\ since'[p] = since[p] /\ think'[p] = think[p]
      /\ commit'[p] = commit[p] /\ arrival'[p] = arrival[p] /\ ping_in'[p] = ping_in[p]
      /\ inbox'[p] = inbox[p] /\ Gets(q, message("reveal", commit[p]))
  BY <1>1, RevealEffect
<1>4. /\ Live(q)' = Live(q) /\ pc'[q] = pc[q] /\ phase'[q] = phase[q]
      /\ commit[p] \in SUBSET (0..MaxWatch)
  BY <1>2, <1>3 DEF Live, Steady, Typed
<1>5. Own(p)' /\ think[p] \in ThinkTimes
  BY <1>2, <1>3 DEF Hears, Own, Deciding
<1>6. InTime(p)'
  BY <1>2, <1>3, <1>5, HeardInTime
<1>7. Parting(p, q)'
  BY <1>2, <1>3, <1>4 DEF Hears, Parting, Live
<1>8. ASSUME Live(q) PROVE Answers(p, q)' /\ Hears(q, p)'
  <2>1. Level(p, q) /\ Level(q, p)
    BY <1>2, <1>3, <1>8 DEF Lock, Leads
  <2>2. Lefts(inbox[q], "reveal") = {} /\ pc[q] # "acking"
    BY <1>3, <2>1 DEF Level
  <2>3. /\ \A k : k # "reveal" => Lefts(inbox'[q], k) = Lefts(inbox[q], k)
        /\ inbox[q] # <<>> => Head(inbox'[q]) = Head(inbox[q])
        /\ inbox[q] = <<>> => Head(inbox'[q]).left = Delay
    BY <1>2, <1>3, <1>4, <1>8, Got DEF Exchange
  <2>4. \A l \in Lefts(inbox'[q], "slot") : 0 <= Delay /\ 0 + l <= Delay
    <3>1. Lefts(inbox[q], "slot") \subseteq 0..Delay
      BY <1>2, BoxTypes
    <3>2. Lefts(inbox'[q], "slot") = Lefts(inbox[q], "slot")
      BY <2>3
    <3>3. QED
      BY <3>1, <3>2, Numbers
  <2>5. Answers(p, q)'
    BY <1>3, <2>4, Numbers DEF Answers, Waiting, Leads
  <2>6. Answers(q, p)'
    BY <1>3, <1>4, <2>2 DEF Answers, Deciding, Leads
  <2>7. Own(q)'
    BY <1>2, <1>3, <1>8, OwnKept DEF Hears
  <2>8. InTime(q)'
    BY <1>2, <1>3, <1>8, <2>3, SentInTime
  <2>9. Parting(q, p)'
    BY <1>1, <1>2, <1>3, <1>8, <2>3, PartingKept DEF Hears, Live
  <2>10. QED
    BY <2>5, <2>6, <2>7, <2>8, <2>9 DEF Hears
<1>9. Hears(p, q)'
  BY <1>4, <1>5, <1>6, <1>7, <1>8 DEF Hears
<1>10. Live(q)' => Hears(q, p)'
  BY <1>4, <1>8
<1>11. QED
  BY <1>9, <1>10, HearingAfter

\* A match that ends tells the other.
LEMMA EndsHearing ==
  ASSUME Swift, Base, Timing, Hearing, stopped = {}, NEW p \in Peers, NEW v, ends(p, v)
  PROVE  Hearing'
<1> DEFINE q == other(p)
<1>1. Typed /\ q \in Peers /\ q # p /\ p = other(q) /\ Shape
  BY OtherPeer DEF Base
<1>2. /\ Typed' /\ Steady(q) /\ pc'[p] = "over" /\ Gets(q, message("eof", {}))
  BY <1>1, EndsEffect
<1>3. InOrder(inbox[q])
  BY <1>1, ShapeOf
<1>4. ~ Live(p)' /\ Live(q)' = Live(q)
  BY <1>2 DEF Live, Steady
<1>5. ASSUME Live(q) PROVE Hears(q, p)'
  <2>1. Hears(q, p)
    BY <1>1, <1>5 DEF Hearing
  <2>2. /\ inbox'[q] # <<>> /\ Last(inbox'[q]).type = "eof"
        /\ inbox[q] # <<>> => Head(inbox'[q]) = Head(inbox[q])
        /\ inbox[q] = <<>> => Head(inbox'[q]).left = Delay
    BY <1>1, <1>2, <1>3, <1>5, GotOther
  <2>3. Own(q)'
    BY <1>2, <2>1, OwnKept DEF Hears
  <2>4. InTime(q)'
    BY <1>1, <1>2, <1>5, <2>2, SentInTime
  <2>5. Parting(q, p)'
    BY <1>4, <2>2 DEF Parting
  <2>6. QED
    BY <1>4, <2>3, <2>4, <2>5 DEF Hears
<1>6. QED
  BY <1>4, <1>5, HearingAfter

\* The ack reaches a peer that waits for it, or for the reveal.
LEMMA TakeRevealHearing ==
  ASSUME Swift, Base, Timing, Hearing, stopped = {}, NEW p \in Peers, take_reveal(p)
  PROVE  Hearing'
<1> DEFINE q == other(p)
<1>1. Live(p) /\ Typed /\ q \in Peers
  BY OtherPeer DEF take_reveal, Live, Base
<1>2. /\ Typed /\ q \in Peers /\ q # p /\ p = other(q)
      /\ InOrder(inbox[p]) /\ InOrder(inbox[q]) /\ Hears(p, q)
      /\ Live(q) => Hears(q, p) /\ Lock(p, q) /\ Lock(q, p)
  BY <1>1, HearingOf
<1>3. CASE ends(p, "out_of_tolerance")
  BY <1>3, EndsHearing
<1>4. CASE ~ ends(p, "out_of_tolerance")
  <2>1. /\ Typed' /\ Steady(q) /\ pc[p] = "revealing"
        /\ pc'[p] = "acking" /\ quiet'[p] = 0
        /\ phase'[p] = phase[p] /\ since'[p] = since[p] /\ think'[p] = think[p]
        /\ commit'[p] = commit[p] /\ arrival'[p] = arrival[p] /\ ping_in'[p] = ping_in[p]
        /\ Takes(p, {"reveal"}) /\ Gets(q, message("ack", {}))
    BY <1>1, <1>4, TakeRevealEffect
  <2>2. InOrder(inbox'[p]) /\ \A k : Lefts(inbox'[p], k) \subseteq Lefts(inbox[p], k)
    BY <1>2, <2>1, Took
  <2>3. Live(q)' = Live(q) /\ pc'[q] = pc[q] /\ phase'[q] = phase[q]
    BY <2>1 DEF Live, Steady
  <2>4. Own(p)' /\ think[p] \in ThinkTimes
    BY <1>2, <2>1 DEF Hears, Own, Deciding
  <2>5. InTime(p)'
    BY <2>1, <2>2, <2>4, HeardInTime
  <2>6. Parting(p, q)'
    BY <1>2, <2>1, <2>3, PartingTook DEF Hears
  <2>7. ASSUME Live(q) PROVE Answers(p, q)' /\ Hears(q, p)'
    <3>1. Level(p, q) /\ Level(q, p)
      BY <1>2, <2>1, <2>7 DEF Lock, Leads
    <3>2. Lefts(inbox[q], "ack") = {} /\ phase[p] \in Nat /\ phase[q] = phase[p]
      BY <1>2, <2>1, <3>1, WatchTypes DEF Level
    <3>3. /\ \A k : k # "ack" => Lefts(inbox'[q], k) = Lefts(inbox[q], k)
          /\ inbox[q] # <<>> => Head(inbox'[q]) = Head(inbox[q])
          /\ inbox[q] = <<>> => Head(inbox'[q]).left = Delay
      BY <1>2, <2>1, <2>7, <3>2, GotOne DEF Exchange
    <3>4. \A l \in Lefts(inbox'[q], "reveal") : 0 + l <= Delay
      <4>1. Lefts(inbox[q], "reveal") \subseteq 0..Delay
        BY <1>2, BoxTypes
      <4>2. Lefts(inbox'[q], "reveal") = Lefts(inbox[q], "reveal")
        BY <3>3
      <4>3. QED
        BY <4>1, <4>2, Numbers
    <3>5. ~ Leads(q, p)'
      BY <2>1, <2>3, <3>2 DEF Leads
    <3>6. Answers(p, q)'
      BY <2>1, <3>4, <3>5 DEF Answers, Waiting
    <3>7. Answers(q, p)'
      BY <2>1 DEF Answers, Deciding, Leads
    <3>8. Own(q)'
      BY <1>2, <2>1, <2>7, OwnKept DEF Hears
    <3>9. InTime(q)'
      BY <1>2, <2>1, <2>7, <3>3, SentInTime
    <3>10. Parting(q, p)'
      BY <1>1, <1>2, <2>1, <2>7, <3>3, PartingKept DEF Hears, Live
    <3>11. QED
      BY <3>6, <3>7, <3>8, <3>9, <3>10 DEF Hears
  <2>8. Hears(p, q)'
    BY <2>3, <2>4, <2>5, <2>6, <2>7 DEF Hears
  <2>9. Live(q)' => Hears(q, p)'
    BY <2>3, <2>7
  <2>10. QED
    BY <2>8, <2>9, HearingAfter
<1>5. QED
  BY <1>3, <1>4

\* What a peer sent in the last phase was sent at most two delays before its next.
LEMMA BeginsRecently ==
  ASSUME NEW p \in Peers, NEW q \in Peers, Typed, InOrder(inbox[q]),
         arrival'[p] = {}, ping_in'[p] = 0,
         inbox'[q] = inbox[q], quiet'[q] = quiet[q], inbox[q] = <<>> => quiet[q] <= Delay
  PROVE  Recent(q, p)'
<1>1. gap \in Nat /\ 2 * Delay <= gap /\ quiet[q] \in Nat
  BY GapIsShort, WatchTypes
<1>2. CASE inbox[q] = <<>>
  <2>1. quiet[q] + Delay + 0 <= gap
    BY <1>1, <1>2, Numbers
  <2>2. QED
    BY <1>2, <2>1 DEF Recent, Sends, gap
<1>3. CASE inbox[q] # <<>>
  <2>1. (Delay - Last(inbox[q]).left) + 0 <= gap
    BY <1>1, <1>3, EndsOfBox, Numbers
  <2>2. QED
    BY <1>3, <2>1 DEF Recent, Sends, gap
<1>4. QED
  BY <1>2, <1>3

\* A phase begins with a ping.
LEMMA TakeAckHearing ==
  ASSUME Swift, Base, Timing, Hearing, stopped = {}, NEW p \in Peers, take_ack(p)
  PROVE  Hearing'
<1> DEFINE q == other(p)
<1>1. Live(p) /\ Typed /\ q \in Peers
  BY OtherPeer DEF take_ack, Live, Base
<1>2. /\ Typed /\ q \in Peers /\ q # p /\ p = other(q)
      /\ InOrder(inbox[p]) /\ InOrder(inbox[q]) /\ Hears(p, q)
      /\ Live(q) => Hears(q, p) /\ Lock(p, q) /\ Lock(q, p) /\ Clocks(p, q)
  BY <1>1, HearingOf
<1>3. CASE ends(p, "result")
  BY <1>3, EndsHearing
<1>4. CASE ~ ends(p, "result")
  <2>1. /\ Typed' /\ Steady(q) /\ pc[p] = "acking"
        /\ pc'[p] = "window" /\ phase'[p] = phase[p] + 1 /\ since'[p] = 0
        /\ think'[p] \in ThinkTimes /\ commit'[p] = {} /\ arrival'[p] = {}
        /\ quiet'[p] = 0 /\ ping_in'[p] = 0
        /\ Takes(p, {"ack"}) /\ inbox'[q] = inbox[q]
    BY <1>1, <1>4, TakeAckEffect
  <2>2. InOrder(inbox'[p]) /\ Lefts(inbox[p], "ack") = {0}
    BY <1>2, <2>1, TookOne DEF Exchange
  <2>3. /\ Live(q)' = Live(q) /\ pc'[q] = pc[q] /\ phase'[q] = phase[q] /\ quiet'[q] = quiet[q]
        /\ arrival'[q] = arrival[q] /\ ping_in'[q] = ping_in[q] /\ since'[q] = since[q]
        /\ commit'[q] = commit[q]
        /\ phase[p] \in Nat /\ phase[q] \in Nat /\ quiet[q] \in Nat /\ since[q] \in Nat
    BY <1>2, <2>1, WatchTypes DEF Live, Steady
  <2>4. Own(p)'
    <3>1. \A t \in ThinkTimes : 0 <= t
      BY Numbers
    <3>2. QED
      BY <2>1, <3>1 DEF Own, Deciding
  <2>5. InTime(p)'
    <3>1. think[p] \in ThinkTimes
      BY <1>2 DEF Hears, Own
    <3>2. QED
      BY <2>1, <2>2, <3>1, HeardInTime
  <2>6. Parting(p, q)'
    BY <1>2, <2>1, <2>3, PartingTook DEF Hears
  <2>7. ASSUME Live(q) PROVE Answers(p, q)' /\ Answers(q, p)'
    <3>1. CASE Level(p, q) /\ Level(q, p)
      <4>1. ~ Level(p, q)' /\ ~ Level(q, p)' /\ ~ Leads(q, p)'
        BY <2>1, <2>3, <3>1 DEF Level, Leads
      <4>2. Lefts(inbox[q], "ack") # {}
        BY <2>1, <3>1 DEF Level
      <4>3. inbox[q] # <<>>
        <5>1. Lefts(<<>>, "ack") = {}
          BY DEF Lefts
        <5>2. QED
          BY <4>2, <5>1
      <4>4. Recent(q, p)'
        BY <1>2, <2>1, <2>3, <4>3, BeginsRecently
      <4>5. QED
        BY <4>1, <4>4 DEF Answers
    <3>2. CASE Leads(q, p)
      <4>1. ~ Leads(p, q)' /\ ~ Leads(q, p)' /\ pc'[q] = "window" /\ pc[q] = "window"
        BY <2>1, <2>3, <3>2 DEF Leads
      <4>2. Recent(p, q)
        BY <1>2, <2>7, <3>2 DEF Hears, Answers
      <4>3. Recent(p, q)'
        BY <1>2, <2>1, <2>3, <4>2, TookRecently
      <4>4. since[q] <= Delay
        <5>1. \A a \in {0} : since[q] + a <= Delay
          BY <1>2, <2>2, <2>7, <3>2 DEF Clocks
        <5>2. QED
          BY <2>3, <5>1
      <4>5. quiet[q] <= Delay
        BY <1>2, <2>3, <2>7, <4>1, <4>4, Numbers DEF Hears, Own
      <4>6. Recent(q, p)'
        BY <1>2, <2>1, <2>3, <4>5, BeginsRecently
      <4>7. QED
        BY <2>1, <4>1, <4>3, <4>6 DEF Answers
    <3>3. QED
      BY <1>2, <2>1, <2>7, <3>1, <3>2 DEF Lock, Leads
  <2>8. ASSUME Live(q) PROVE Hears(q, p)'
    <3>1. Own(q)' /\ InTime(q)'
      BY <1>2, <2>1, <2>8, OwnKept, InTimeKept DEF Hears
    <3>2. Live(p)'
      BY <2>1 DEF Live
    <3>3. Parting(q, p)'
      BY <1>1, <1>2, <2>1, <2>8, <3>2, PartingKept DEF Hears
    <3>4. QED
      BY <2>7, <2>8, <3>1, <3>3 DEF Hears
  <2>9. Hears(p, q)'
    BY <2>3, <2>4, <2>5, <2>6, <2>7 DEF Hears
  <2>10. Live(q)' => Hears(q, p)'
    BY <2>3, <2>8
  <2>11. QED
    BY <2>9, <2>10, HearingAfter
<1>5. QED
  BY <1>3, <1>4

\* With a tick everything comes one tick nearer, and nobody waits longer than that.
LEMMA TickHearing ==
  ASSUME Swift, Base, Timing, Hearing, stopped = {}, tick
  PROVE  Hearing'
<1>1. Typed /\ Shape /\ \A x \in Peers : InOrder(inbox[x])
  BY DEF Base, Shape
<1>2. Typed'
  BY <1>1, TickEffect
<1>3. SUFFICES ASSUME NEW p \in Peers, Live(p)' PROVE Hears(p, other(p))'
  BY DEF Hearing
<1> DEFINE q == other(p)
<1>4. /\ q \in Peers /\ q # p
      /\ \A x \in {p, q} :
           /\ pc'[x] = pc[x] /\ phase'[x] = phase[x] /\ think'[x] = think[x]
           /\ commit'[x] = commit[x] /\ arrival'[x] = arrival[x]
           /\ inbox'[x] = aged(inbox[x])
           /\ since'[x] = IF Running(x) THEN advanced(since[x]) ELSE since[x]
           /\ quiet'[x] = IF Running(x) /\ Listening(x) THEN advanced(quiet[x]) ELSE quiet[x]
           /\ ping_in'[x] = IF Running(x) /\ Waiting(x) THEN ping_in[x] - 1 ELSE ping_in[x]
           /\ Running(x) => ~ Due(x)
           /\ Live(x) => Running(x)
           /\ Live(x)' = Live(x)
  <2>1. q \in Peers /\ q # p
    BY OtherPeer
  <2>2. \A x \in Peers :
           /\ pc'[x] = pc[x] /\ phase'[x] = phase[x] /\ think'[x] = think[x]
           /\ commit'[x] = commit[x] /\ arrival'[x] = arrival[x]
           /\ inbox'[x] = aged(inbox[x])
           /\ since'[x] = IF Running(x) THEN advanced(since[x]) ELSE since[x]
           /\ quiet'[x] = IF Running(x) /\ Listening(x) THEN advanced(quiet[x]) ELSE quiet[x]
           /\ ping_in'[x] = IF Running(x) /\ Waiting(x) THEN ping_in[x] - 1 ELSE ping_in[x]
           /\ Running(x) => ~ Due(x)
    BY <1>1, TickEffect
  <2>3. \A x \in Peers : (Live(x) => Running(x)) /\ (Live(x)' = Live(x))
    BY <2>2 DEF Live, Running, Awake
  <2>4. QED
    BY <2>1, <2>2, <2>3
<1>5. /\ Live(p) /\ Hears(p, q) /\ Keeps(p)
      /\ Live(q) => Hears(q, p) /\ Lock(p, q) /\ Lock(q, p)
  BY <1>3, <1>4, HearingOf
<1>6. /\ since[p] \in Nat /\ quiet[p] \in Nat /\ since[p] <= MaxWatch /\ quiet[p] <= MaxWatch
      /\ think[p] \in ThinkTimes /\ think[p] \in Nat /\ think[p] <= MaxWatch
      /\ since[q] \in Nat /\ since[q] <= MaxWatch /\ ping_in[q] \in Nat
      /\ pc[p] \in Places
  BY <1>1, <1>4, <1>5, WatchTypes DEF Hears, Own, Swift
<1>7. \A n \in Nat : /\ advanced(n) \in Nat /\ n <= advanced(n) /\ advanced(n) <= n + 1
                     /\ n < MaxWatch => advanced(n) = n + 1
                     /\ \A m \in Nat : m <= n /\ n <= MaxWatch => advanced(m) <= advanced(n)
  BY Numbers DEF advanced
<1>8. /\ since'[p] = advanced(since[p]) /\ ~ Due(p)
      /\ quiet'[p] \in Nat /\ quiet'[p] <= quiet[p] + 1 /\ quiet'[p] <= advanced(quiet[p])
  BY <1>4, <1>5, <1>6, <1>7
<1>9. \A x \in {p, q}, k \in {"slot", "reveal"} :
        Live(x) /\ Listening(x) =>
          /\ \A l \in Lefts(inbox[x], k) : l \in 1..Delay
          /\ Lefts(inbox'[x], k) = {l - 1 : l \in Lefts(inbox[x], k)}
  BY <1>1, <1>4, AllNearer DEF Due
<1>10. /\ inbox'[p] = <<>> <=> inbox[p] = <<>>
       /\ Lefts(inbox'[p], "eof") = {Nearer(l) : l \in Lefts(inbox[p], "eof")}
       /\ inbox[p] # <<>> => /\ Head(inbox'[p]).left = Nearer(Head(inbox[p]).left)
                             /\ Last(inbox'[p]).left = Nearer(Last(inbox[p]).left)
                             /\ Last(inbox'[p]).type = Last(inbox[p]).type
                             /\ Head(inbox[p]).left \in 0..Delay /\ Last(inbox[p]).left \in 0..Delay
  <2>1. inbox[p] \in Seq(Messages) /\ InOrder(inbox[p]) /\ inbox'[p] = aged(inbox[p])
    BY <1>1, <1>4 DEF Typed
  <2>2. inbox[p] # <<>> => Head(inbox[p]).left \in 0..Delay /\ Last(inbox[p]).left \in 0..Delay
    BY <1>1, EndsOfBox
  <2>3. /\ aged(inbox[p]) = <<>> <=> inbox[p] = <<>>
        /\ \A k : Lefts(aged(inbox[p]), k) = {Nearer(l) : l \in Lefts(inbox[p], k)}
        /\ inbox[p] # <<>> => /\ Head(aged(inbox[p])).left = Nearer(Head(inbox[p]).left)
                              /\ Last(aged(inbox[p])).left = Nearer(Last(inbox[p]).left)
                              /\ Last(aged(inbox[p])).type = Last(inbox[p]).type
    BY <2>1, Ageing
  <2>4. Lefts(aged(inbox[p]), "eof") = {Nearer(l) : l \in Lefts(inbox[p], "eof")}
    BY <2>3
  <2>5. QED
    BY <2>1, <2>2, <2>3, <2>4
<1>11. Own(p)'
  <2>1. pc'[p] = "window" => quiet'[p] <= since'[p]
    <3>1. pc[p] = "window" => quiet[p] <= since[p]
      BY <1>5 DEF Hears, Own
    <3>2. pc[p] = "window" => advanced(quiet[p]) <= advanced(since[p])
      BY <1>6, <3>1, Numbers DEF advanced
    <3>3. advanced(since[p]) \in Nat /\ advanced(quiet[p]) \in Nat
      BY <1>6, <1>7
    <3>4. QED
      BY <1>4, <1>8, <3>2, <3>3
  <2>2. Deciding(p)' => since'[p] <= think'[p]
    <3>1. Deciding(p) => since[p] # think[p] /\ since[p] <= think[p]
      BY <1>5, <1>8 DEF Due, Deciding, Hears, Own
    <3>2. Deciding(p)' => Deciding(p)
      BY <1>4 DEF Deciding
    <3>3. QED
      BY <1>4, <1>6, <1>8, <3>1, <3>2, Numbers DEF advanced
  <2>3. QED
    BY <1>4, <1>5, <2>1, <2>2 DEF Hears, Own
<1>12. InTime(p)'
  <2>1. SUFFICES ASSUME Listening(p)', inbox'[p] # <<>>
                 PROVE  quiet'[p] + Head(inbox'[p]).left < limit(p)'
    BY DEF InTime
  <2>2. Listening(p) /\ inbox[p] # <<>> /\ limit(p)' = limit(p) /\ limit(p) \in Nat
    BY <1>4, <1>10, <2>1, Numbers DEF Listening, Waiting, limit
  <2>3. quiet[p] + Head(inbox[p]).left < limit(p) /\ Head(inbox[p]).left # 0
    BY <1>5, <1>8, <2>2 DEF Hears, InTime, Due, due
  <2>4. Head(inbox'[p]).left = Head(inbox[p]).left - 1
    BY <1>10, <2>2, <2>3, Numbers DEF Nearer
  <2>5. QED
    BY <1>6, <1>8, <1>10, <2>2, <2>3, <2>4, Numbers
<1>13. Parting(p, q)'
  <2>1. Lefts(inbox'[p], "eof") # {} => Lefts(inbox[p], "eof") # {}
    BY <1>10
  <2>2. QED
    BY <1>4, <1>5, <1>10, <2>1 DEF Hears, Parting
<1>14. ASSUME Live(q) PROVE Answers(p, q)'
  <2>1. /\ Level(p, q)' => Level(p, q) /\ Level(q, p)
        /\ Leads(q, p)' => Leads(q, p)
    BY <1>1, <1>4, <1>5, <1>14, LockByPhase
  <2>2. Answers(p, q) /\ Hears(q, p) /\ Running(q) /\ ~ Due(q)
    BY <1>4, <1>5, <1>14 DEF Hears
  <2>3. ASSUME Recent(p, q), Waiting(q) \/ Deciding(q) PROVE Recent(p, q)'
    <3>1. ASSUME NEW m \in Int, NEW n \in Int, m <= n + 1, Sends(q, n)
          PROVE  IF arrival'[q] = {} THEN m + ping_in'[q] <= gap
                 ELSE \A o \in arrival'[q] : m + o <= gap + since'[q]
      <4>1. CASE arrival[q] = {}
        <5>1. Waiting(q) /\ pc[q] = "window"
          BY <2>3, <4>1 DEF Waiting, Deciding
        <5>2. ping_in[q] # 0 /\ ping_in'[q] = ping_in[q] - 1
          BY <1>4, <2>2, <5>1 DEF Due
        <5>3. m + ping_in'[q] <= gap
          BY <1>6, <3>1, <4>1, <5>2, GapIsShort DEF Sends
        <5>4. QED
          BY <1>4, <4>1, <5>3
      <4>2. CASE arrival[q] # {}
        <5>1. Deciding(q)
          BY <2>3, <4>2 DEF Waiting
        <5>2. since[q] # think[q] /\ since[q] <= think[q] /\ think[q] \in Nat /\ think[q] <= MaxWatch
          BY <1>1, <1>4, <2>2, <5>1, WatchTypes DEF Due, Deciding, Hears, Own, Swift
        <5>3. since'[q] = since[q] + 1
          <6>1. since'[q] = advanced(since[q])
            BY <1>4, <2>2
          <6>2. QED
            BY <1>6, <5>2, <6>1, Numbers DEF advanced
        <5>4. \A o \in arrival[q] : o \in Nat
          BY <1>1, <1>4, WatchTypes
        <5>5. \A o \in arrival[q] : m + o <= gap + since'[q]
          BY <1>6, <3>1, <4>2, <5>3, <5>4, GapIsShort DEF Sends
        <5>6. QED
          BY <1>4, <4>2, <5>5
      <4>3. QED
        BY <4>1, <4>2
    <3>2. CASE inbox[p] = <<>>
      <4>1. /\ quiet[p] + Delay \in Int /\ quiet'[p] + Delay \in Int
            /\ quiet'[p] + Delay <= quiet[p] + Delay + 1
        BY <1>6, <1>8, Numbers
      <4>2. Sends(q, quiet[p] + Delay)
        BY <2>3, <3>2 DEF Recent
      <4>3. IF arrival'[q] = {} THEN quiet'[p] + Delay + ping_in'[q] <= gap
            ELSE \A o \in arrival'[q] : quiet'[p] + Delay + o <= gap + since'[q]
        BY <3>1, <4>1, <4>2
      <4>4. QED
        BY <1>10, <3>2, <4>3 DEF Recent, Sends, gap
    <3>3. CASE inbox[p] # <<>>
      <4>1. /\ Delay - Last(inbox[p]).left \in Int /\ Delay - Last(inbox'[p]).left \in Int
            /\ Delay - Last(inbox'[p]).left <= (Delay - Last(inbox[p]).left) + 1
        BY <1>10, <3>3, Numbers DEF Nearer
      <4>2. Sends(q, Delay - Last(inbox[p]).left)
        BY <2>3, <3>3 DEF Recent
      <4>3. IF arrival'[q] = {} THEN (Delay - Last(inbox'[p]).left) + ping_in'[q] <= gap
            ELSE \A o \in arrival'[q] : (Delay - Last(inbox'[p]).left) + o <= gap + since'[q]
        BY <3>1, <4>1, <4>2
      <4>4. QED
        BY <1>10, <3>3, <4>3 DEF Recent, Sends, gap
    <3>4. QED
      BY <3>2, <3>3
  <2>4. Level(p, q)' /\ Waiting(p)' /\ Deciding(q)' => Recent(p, q)'
    <3>1. (Waiting(p)' => Waiting(p)) /\ (Deciding(q)' => Deciding(q))
      BY <1>4 DEF Waiting, Deciding
    <3>2. QED
      BY <2>1, <2>2, <2>3, <3>1 DEF Answers
  <2>5. Leads(q, p)' => Recent(p, q)'
    <3>1. Leads(q, p) => Waiting(q)
      BY DEF Leads, Waiting
    <3>2. QED
      BY <2>1, <2>2, <2>3, <3>1 DEF Answers
  <2>6. ASSUME Level(p, q)', pc[p] = "revealing", pc[q] = "window"
        PROVE  /\ quiet'[p] <= Delay
               /\ \A l \in Lefts(inbox'[q], "slot") : quiet'[p] + l <= Delay
    <3>1. commit[p] # {} /\ arrival[p] # {} /\ commit[q] # {}
      BY <1>5, <2>1, <2>6 DEF Keeps, Level
    <3>2. arrival[q] = {} /\ Lefts(inbox[q], "slot") # {}
      BY <2>1, <2>2, <2>6, <3>1 DEF Level, Due
    <3>3. Listening(q)
      BY <2>6, <3>2 DEF Listening, Waiting
    <3>4. /\ \A l \in Lefts(inbox[q], "slot") : l \in 1..Delay
          /\ Lefts(inbox'[q], "slot") = {l - 1 : l \in Lefts(inbox[q], "slot")}
      BY <1>9, <1>14, <3>3
    <3>5. \A l \in Lefts(inbox[q], "slot") : quiet[p] + l <= Delay
      BY <2>1, <2>2, <2>6 DEF Answers
    <3>6. \A l \in Lefts(inbox[q], "slot") : quiet'[p] <= Delay /\ quiet'[p] + (l - 1) <= Delay
      BY <1>6, <1>8, <3>4, <3>5, Numbers
    <3>7. QED
      BY <3>2, <3>4, <3>6
  <2>7. ASSUME Level(p, q)', pc[p] = "acking", pc[q] = "revealing"
        PROVE  \A l \in Lefts(inbox'[q], "reveal") : quiet'[p] + l <= Delay
    <3>1. Listening(q)
      BY <2>7 DEF Listening
    <3>2. /\ \A l \in Lefts(inbox[q], "reveal") : l \in 1..Delay
          /\ Lefts(inbox'[q], "reveal") = {l - 1 : l \in Lefts(inbox[q], "reveal")}
      BY <1>9, <1>14, <3>1
    <3>3. \A l \in Lefts(inbox[q], "reveal") : quiet[p] + l <= Delay
      BY <2>1, <2>2, <2>7 DEF Answers
    <3>4. \A l \in Lefts(inbox[q], "reveal") : quiet'[p] + (l - 1) <= Delay
      BY <1>6, <1>8, <3>2, <3>3, Numbers
    <3>5. QED
      BY <3>2, <3>4
  <2>8. QED
    BY <1>4, <2>4, <2>5, <2>6, <2>7 DEF Answers
<1>15. QED
  BY <1>4, <1>11, <1>12, <1>13, <1>14 DEF Hears

\* At first both send a ping.
LEMMA InitHearing == Init => Hearing
<1>1. SUFFICES ASSUME Init, NEW p \in Peers PROVE Hears(p, other(p))
  BY DEF Hearing
<1> DEFINE q == other(p)
<1>2. q \in Peers
  BY OtherPeer
<1>3. \A x \in {p, q} :
        /\ pc[x] = "window" /\ phase[x] = 0 /\ since[x] = 0 /\ think[x] \in ThinkTimes
        /\ commit[x] = {} /\ arrival[x] = {} /\ quiet[x] = 0 /\ ping_in[x] = 0
        /\ inbox[x] = <<>>
  BY <1>1, <1>2 DEF Init
<1>4. Lefts(<<>>, "eof") = {}
  BY DEF Lefts
<1>5. Own(p)
  <2>1. \A t \in ThinkTimes : 0 <= t
    BY Numbers
  <2>2. QED
    BY <1>3, <2>1 DEF Own, Deciding
<1>6. InTime(p) /\ Parting(p, q)
  BY <1>3, <1>4 DEF InTime, Parting, Live
<1>7. Answers(p, q)
  <2>1. 0 + Delay + 0 <= gap
    BY GapIsShort, Numbers
  <2>2. Recent(p, q)
    BY <1>3, <2>1 DEF Recent, Sends
  <2>3. QED
    BY <1>3, <2>2 DEF Answers
<1>8. QED
  BY <1>5, <1>6, <1>7 DEF Hears

\* Every step of a peer keeps it so.
LEMMA StepHearing ==
  ASSUME Swift, Base, Timing, Hearing, stopped = {}, NEW p \in Peers, Works(p)
  PROVE  Hearing'
BY ActionCases, SendSlotHearing, SendPingHearing, TakeKeepaliveHearing, TakeSlotHearing,
   RevealHearing, TakeRevealHearing, TakeAckHearing, EndsHearing

\* session.py:299: "a peer may think as long as it likes".  A peer that runs is not
\* taken for dead, provided that its decision takes longer than the other's by no
\* more than the deadline leaves beside the gap: with the other's slot in hand it
\* sends nothing until its own is there.
THEOREM PaceNeverTakenForDead ==
  ASSUME 2 * Delay < TransportTimeout,
         \A x, y \in ThinkTimes : x <= MaxWatch /\ gap + x - y < LivenessDeadline
  PROVE  Spec => []NeverTakenForDead
<1> DEFINE Inv == /\ Base /\ Timing
                  /\ stopped = {} => Hearing
                  /\ NeverTakenForDead
<1>1. Swift
  BY DEF Swift
<1>2. Init => Inv
  BY InitBase, InitTiming, InitHearing DEF Init, NeverTakenForDead
<1>3. Inv /\ [Next]_vars => Inv'
  <2>1. SUFFICES ASSUME Inv, [Next]_vars
                 PROVE  (stopped' = {} => Hearing') /\ NeverTakenForDead'
    BY NextBase, NextTiming
  <2>2. Typed /\ \A x \in Peers : InOrder(inbox[x])
    BY <2>1 DEF Base, Shape
  <2>3. CASE tick
    <3>1. stopped' = stopped /\ verdict' = verdict
      BY <2>2, <2>3, TickEffect
    <3>2. QED
      BY <1>1, <2>1, <2>3, <3>1, TickHearing DEF NeverTakenForDead
  <2>4. ASSUME NEW p \in Awake, Works(p)
        PROVE  (stopped' = {} => Hearing') /\ NeverTakenForDead'
    <3>1. p \in Peers
      BY DEF Awake
    <3>2. stopped' = stopped
      BY <2>4 DEF Works, send_slot, send_ping, unresponsive, take_slot, reveal, take_keepalive,
         take_reveal, take_ack, next_phase, timed_out, hear_end, ends
    <3>3. ASSUME stopped = {}, NEW x \in Peers
          PROVE  verdict'[x] \notin {"unresponsive", "TransportTimeout"}
      <4>1. ~ unresponsive(p) /\ ~ timed_out(p)
        BY <1>1, <2>1, <3>1, <3>3, NeverGivesUp
      <4>2. verdict[x] \notin {"unresponsive", "TransportTimeout"}
        BY <2>1, <3>3 DEF NeverTakenForDead
      <4>3. \/ verdict'[x] = verdict[x]
            \/ verdict'[p] \in {"out_of_tolerance", "result", "closed"} /\ x = p
        BY <2>2, <2>4, <3>1, <4>1, Verdicts
      <4>4. QED
        BY <4>2, <4>3
    <3>4. stopped = {} => Hearing'
      BY <1>1, <2>1, <2>4, <3>1, StepHearing
    <3>5. QED
      BY <3>2, <3>3, <3>4 DEF NeverTakenForDead
  <2>5. ASSUME NEW p \in Awake, stop(p)
        PROVE  (stopped' = {} => Hearing') /\ NeverTakenForDead'
    <3>1. stopped' # {}
      BY <2>5 DEF stop
    <3>2. QED
      BY <3>1 DEF NeverTakenForDead
  <2>6. CASE UNCHANGED vars
    <3>1. \A x, y \in Peers : /\ Own(x)' = Own(x) /\ InTime(x)' = InTime(x)
                              /\ Parting(x, y)' = Parting(x, y) /\ Live(x)' = Live(x)
      BY <2>6 DEF vars, Own, Deciding, InTime, Listening, Waiting, limit, Parting, Live
    <3>2. \A x, y \in Peers : /\ Level(x, y)' = Level(x, y) /\ Leads(x, y)' = Leads(x, y)
                              /\ Recent(x, y)' = Recent(x, y)
      BY <2>6 DEF vars, Level, Leads, Recent, Sends, gap
    <3>3. \A x, y \in Peers : Answers(x, y)' = Answers(x, y)
      BY <2>6, <3>2 DEF vars, Answers, Waiting, Deciding
    <3>4. \A x \in Peers : other(x) \in Peers
      BY OtherPeer
    <3>5. Hearing' = Hearing
      BY <3>1, <3>3, <3>4 DEF Hearing, Hears
    <3>6. QED
      BY <2>1, <2>6, <3>5 DEF vars, NeverTakenForDead
  <2>7. QED
    BY <2>1, <2>3, <2>4, <2>5, <2>6 DEF Next
<1>4. QED
  BY <1>2, <1>3, PTL DEF Spec
=============================================================================
