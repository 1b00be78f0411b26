---------------------------- MODULE RelayProofs -----------------------------
(***************************************************************************)
(* Proof that the relay pipes verbatim, for any number of connections,     *)
(* rooms and bytes and any size of its buffers.                            *)
(*                                                                         *)
(* Verbatim speaks of what a client was given; whether the next byte it is *)
(* given continues the stream depends on what its partner still has on its *)
(* way to the relay.  The inductive invariant therefore follows a stream   *)
(* from end to end (Flow): the bytes between a sender and the relay are    *)
(* consecutive, they end with the last one sent unless the sender's        *)
(* connection was closed, and the partner was given precisely the ones     *)
(* before them unless its own was.  It relies on the table (Wired): two    *)
(* partners have one another, only, and a waiting connection has none.     *)
(***************************************************************************)
EXTENDS Relay, SequenceTheorems, TLAPS

given(c) == received[c] \o down[c]

\* The n bytes of c after its first m.
stretch(c, m, n) == [i \in 1..n |-> <<c, m + i>>]
Bytes == Clients \X Nat

Types ==
  /\ room \in [Clients -> SUBSET (Rooms \cup {NoRoom})]
  /\ \A c \in Clients : \A q, r \in room[c] : q = r
  /\ served \subseteq Clients
  /\ \A r \in DOMAIN waiting : waiting[r] \in Clients
  /\ partner \in [Clients -> SUBSET Clients]
  /\ pipes \subseteq Clients \X Clients
  /\ up \in [Clients -> Seq(Bytes)]
  /\ down \in [Clients -> Seq(Bytes)]
  /\ sent \in [Clients -> Nat]
  /\ received \in [Clients -> Seq(Bytes)]
  /\ gone \subseteq Clients
  /\ closed \subseteq Clients

Wired ==
  /\ \A c \in Clients : c \notin served => partner[c] = {}
  /\ \A r \in DOMAIN waiting :
       /\ waiting[r] \in served
       /\ room[waiting[r]] = {r}
       /\ partner[waiting[r]] = {}
  /\ \A c \in Clients : \A d \in partner[c] :
       /\ d # c
       /\ partner[d] = {c}
       /\ room[d] = room[c]
       /\ room[c] # {}
  /\ \A c \in Clients, d \in Clients : <<c, d>> \in pipes => d \in partner[c]

\* m bytes of c have left its stream to the relay, n are still in it.
FlowAt(c, m, n) ==
  /\ up[c] = stretch(c, m, n)
  /\ ~ ended(c) => m + n = sent[c]
  /\ partner[c] = {} => m = 0 /\ given(c) = <<>>
  /\ \A d \in partner[c] :
       /\ ended(d) \/ given(d) = stretch(c, 0, m)
       /\ \E k \in Nat : given(d) = stretch(c, 0, k)
Flow == \A c \in Clients : \E m \in Nat, n \in Nat : FlowAt(c, m, n)

IInv == Types /\ Wired /\ Flow

-----------------------------------------------------------------------------
(***************************************************************************)
(* Stretches of bytes.                                                     *)
(***************************************************************************)
\* A stretch is a sequence of bytes of its length.
LEMMA StretchIsSequence ==
  ASSUME NEW c \in Clients, NEW m \in Nat, NEW n \in Nat
  PROVE  /\ stretch(c, m, n) \in Seq(Bytes)
         /\ Len(stretch(c, m, n)) = n
         /\ \A i \in 1..n : stretch(c, m, n)[i] = <<c, m + i>>
<1>1. \A i \in 1..n : <<c, m + i>> \in Bytes
  BY DEF Bytes
<1>2. stretch(c, m, n) \in [1..n -> Bytes]
  BY <1>1 DEF stretch
<1>3. QED
  BY <1>2 DEF stretch

\* The next byte makes it longer.
LEMMA StretchGrows ==
  ASSUME NEW c \in Clients, NEW m \in Nat, NEW n \in Nat
  PROVE  Append(stretch(c, m, n), <<c, m + n + 1>>) = stretch(c, m, n + 1)
<1>1. <<c, m + n + 1>> \in Bytes
  BY DEF Bytes
<1>2. QED
  BY <1>1, StretchIsSequence DEF stretch

\* Its first byte leaves the bytes after it.
LEMMA StretchShrinks ==
  ASSUME NEW c \in Clients, NEW m \in Nat, NEW n \in Nat, stretch(c, m, n) # <<>>
  PROVE  /\ n - 1 \in Nat
         /\ Head(stretch(c, m, n)) = <<c, m + 1>>
         /\ Tail(stretch(c, m, n)) = stretch(c, m + 1, n - 1)
<1> DEFINE s == stretch(c, m, n)
           t == stretch(c, m + 1, n - 1)
<1>1. s \in Seq(Bytes) /\ Len(s) = n /\ \A i \in 1..n : s[i] = <<c, m + i>>
  BY StretchIsSequence
<1>2. n # 0
  BY <1>1
<1>3. n - 1 \in Nat
  BY <1>2
<1>4. t \in Seq(Bytes) /\ Len(t) = n - 1 /\ \A i \in 1..(n - 1) : t[i] = <<c, m + 1 + i>>
  <2>1. m + 1 \in Nat
    OBVIOUS
  <2> HIDE DEF s
  <2>2. QED
    BY <1>3, <2>1, StretchIsSequence, Zenon
<1> HIDE DEF s, t
<1>5. s # <<>>
  BY <1>1, <1>2
<1>6. Head(s) = <<c, m + 1>>
  BY <1>1, <1>2, <1>5
<1>7. /\ Tail(s) \in Seq(Bytes) /\ Len(Tail(s)) = n - 1
      /\ \A i \in 1..(n - 1) : Tail(s)[i] = s[i + 1]
  BY <1>1, <1>5, HeadTailProperties
<1>8. \A i \in 1..(n - 1) : Tail(s)[i] = t[i]
  <2>1. SUFFICES ASSUME NEW i \in 1..(n - 1)
                 PROVE  Tail(s)[i] = t[i]
    OBVIOUS
  <2>2. i + 1 \in 1..n /\ m + (i + 1) = m + 1 + i
    BY <1>3
  <2>3. Tail(s)[i] = <<c, m + (i + 1)>>
    BY <1>1, <1>7, <2>2
  <2>4. QED
    BY <1>4, <2>2, <2>3
<1>9. Tail(s) = t
  BY <1>4, <1>7, <1>8, SeqEqual
<1>10. QED
  BY <1>3, <1>6, <1>9 DEF s, t

\* A part of it from its beginning is a stretch.
LEMMA StretchCut ==
  ASSUME NEW c \in Clients, NEW m \in Nat, NEW n \in Nat, NEW k \in 0..n
  PROVE  SubSeq(stretch(c, m, n), 1, k) = stretch(c, m, k)
BY StretchIsSequence DEF stretch

-----------------------------------------------------------------------------
(***************************************************************************)
(* What a client was given: the bytes it read and those on their way.      *)
(***************************************************************************)
\* A stream that moves on by one byte.
LEMMA Handed ==
  ASSUME NEW s \in Seq(Bytes), NEW t \in Seq(Bytes), NEW x \in Bytes
  PROVE  /\ s \o Append(t, x) = Append(s \o t, x)
         /\ t # <<>> => Append(s, Head(t)) \o Tail(t) = s \o t
<1>1. s \o Append(t, x) = Append(s \o t, x)
  <2>1. Append(t, x) = t \o <<x>> /\ Append(s \o t, x) = (s \o t) \o <<x>>
    BY AppendIsConcat, ConcatProperties
  <2>2. <<x>> \in Seq(Bytes)
    OBVIOUS
  <2>3. QED
    BY <2>1, <2>2, ConcatAssociative
<1>2. ASSUME t # <<>>
      PROVE  Append(s, Head(t)) \o Tail(t) = s \o t
  <2> DEFINE h == Head(t)
             r == Tail(t)
  <2>1. h \in Bytes /\ r \in Seq(Bytes) /\ Len(r) = Len(t) - 1
        /\ (\A i \in 1..Len(r) : r[i] = t[i + 1]) /\ h = t[1]
    BY <1>2, HeadTailProperties
  <2> HIDE DEF h, r
  <2>2. Append(s, h) = s \o <<h>> /\ <<h>> \in Seq(Bytes)
    BY <2>1, AppendIsConcat
  <2>3. (s \o <<h>>) \o r = s \o (<<h>> \o r)
    BY <2>1, <2>2, ConcatAssociative
  <2>4. <<h>> \o r = t
    <3>1. <<h>> \o r \in Seq(Bytes) /\ Len(<<h>> \o r) = Len(t)
      BY <2>1, <2>2, ConcatProperties
    <3>2. \A i \in 1..Len(t) : (<<h>> \o r)[i] = t[i]
      BY <2>1, <2>2, ConcatProperties
    <3>3. QED
      BY <3>1, <3>2, SeqEqual
  <2>5. QED
    BY <2>2, <2>3, <2>4 DEF h, r
<1>3. QED
  BY <1>1, <1>2

\* Of a stretch, what was read already is a stretch.
LEMMA ReadPart ==
  ASSUME NEW s \in Seq(Bytes), NEW t \in Seq(Bytes), NEW c \in Clients, NEW k \in Nat,
         s \o t = stretch(c, 0, k)
  PROVE  \E j \in Nat : s = stretch(c, 0, j)
<1>0. /\ Len(stretch(c, 0, k)) = k
      /\ \A i \in 1..k : stretch(c, 0, k)[i] = <<c, 0 + i>>
  BY StretchIsSequence
<1>1. Len(s) \in Nat /\ Len(t) \in Nat /\ Len(s) + Len(t) = k
  BY <1>0, ConcatProperties
<1>2. \A i \in 1..Len(s) : s[i] = <<c, 0 + i>>
  <2>1. \A i \in 1..Len(s) : s[i] = (s \o t)[i]
    BY <1>1, ConcatProperties
  <2>2. QED
    BY <1>0, <1>1, <2>1
<1>3. s = stretch(c, 0, Len(s))
  <2>1. /\ stretch(c, 0, Len(s)) \in Seq(Bytes) /\ Len(stretch(c, 0, Len(s))) = Len(s)
        /\ \A i \in 1..Len(s) : stretch(c, 0, Len(s))[i] = <<c, 0 + i>>
    BY <1>1, StretchIsSequence
  <2>2. QED
    BY <1>2, <2>1, SeqEqual
<1>4. QED
  BY <1>1, <1>3

\* What was sent to one byte after the other and not cut off.
LEMMA CutOff ==
  ASSUME NEW s \in Seq(Bytes), NEW left \in cut_off(s)
  PROVE  left \in Seq(Bytes)
<1>1. PICK n \in 0..Len(s) : left = SubSeq(s, 1, n)
  BY DEF cut_off
<1>2. n \in Int /\ \A i \in 1..n : s[i] \in Bytes
  BY ElementOfSeq
<1>3. QED
  BY <1>1, <1>2, SubSeqProperties

\* ... and what is left of a stretch is one.
LEMMA StretchCutOff ==
  ASSUME NEW c \in Clients, NEW m \in Nat, NEW n \in Nat, NEW left \in cut_off(stretch(c, m, n))
  PROVE  \E k \in Nat : left = stretch(c, m, k)
<1>1. Len(stretch(c, m, n)) = n
  BY StretchIsSequence
<1>2. PICK k \in 0..n : left = SubSeq(stretch(c, m, n), 1, k)
  BY <1>1 DEF cut_off
<1>3. QED
  BY <1>2, StretchCut

-----------------------------------------------------------------------------
(***************************************************************************)
(* The invariant holds at first and is kept.                               *)
(***************************************************************************)
LEMMA InitIInv ==
  Init => IInv
<1>1. SUFFICES ASSUME Init PROVE IInv
  OBVIOUS
<1>2. Types
  BY <1>1 DEF Init, Types
<1>3. Wired
  BY <1>1 DEF Init, Wired
<1>4. Flow
  <2>1. SUFFICES ASSUME NEW c \in Clients PROVE FlowAt(c, 0, 0)
    BY DEF Flow
  <2>2. stretch(c, 0, 0) = <<>>
    BY DEF stretch
  <2>3. given(c) = <<>>
    BY <1>1 DEF Init, given
  <2>4. QED
    BY <1>1, <2>2, <2>3 DEF Init, FlowAt
<1>5. QED
  BY <1>2, <1>3, <1>4 DEF IInv

\* Types are kept by every step.
LEMMA TypesKept ==
  ASSUME Types, Next
  PROVE  Types'
<1>1. ASSUME NEW c \in Clients, NEW r \in Rooms \cup {NoRoom}, connect(c, r)
      PROVE  Types'
  BY <1>1 DEF Types, connect, relay, streams
<1>2. ASSUME NEW c \in Clients, send(c)
      PROVE  Types'
  <2>1. <<c, sent[c] + 1>> \in Bytes
    BY DEF Types, Bytes
  <2>2. up' \in [Clients -> Seq(Bytes)] /\ sent' \in [Clients -> Nat]
    BY <1>2, <2>1 DEF Types, send
  <2>3. QED
    BY <1>2, <2>2 DEF Types, send, relay
<1>3. ASSUME NEW c \in Clients, receive(c)
      PROVE  Types'
  <2>1. Head(down[c]) \in Bytes /\ Tail(down[c]) \in Seq(Bytes)
    BY <1>3, HeadTailProperties DEF Types, receive
  <2>2. received' \in [Clients -> Seq(Bytes)] /\ down' \in [Clients -> Seq(Bytes)]
    BY <1>3, <2>1 DEF Types, receive
  <2>3. QED
    BY <1>3, <2>2 DEF Types, receive, relay
<1>4. ASSUME NEW c \in Clients, hang_up(c)
      PROVE  Types'
  <2>1. PICK left \in cut_off(up[c]) : up' = [up EXCEPT ![c] = left]
    BY <1>4 DEF hang_up
  <2>2. left \in Seq(Bytes)
    BY CutOff DEF Types
  <2>3. up' \in [Clients -> Seq(Bytes)] /\ down' \in [Clients -> Seq(Bytes)]
    BY <1>4, <2>1, <2>2, EmptySeq DEF Types, hang_up
  <2>4. QED
    BY <1>4, <2>3 DEF Types, hang_up, relay
<1>5. ASSUME NEW c \in Clients, refuse(c)
      PROVE  Types'
  <2>1. PICK left \in cut_off(up[c]) : up' = [up EXCEPT ![c] = left]
    BY <1>5 DEF refuse
  <2>2. left \in Seq(Bytes)
    BY CutOff DEF Types
  <2>3. up' \in [Clients -> Seq(Bytes)]
    BY <2>1, <2>2 DEF Types
  <2>4. QED
    BY <1>5, <2>3 DEF Types, refuse, arrives
<1>6. ASSUME NEW c \in Clients, wait(c)
      PROVE  Types'
  BY <1>6 DEF Types, wait, arrives, streams
<1>7. ASSUME NEW c \in Clients, pair(c)
      PROVE  Types'
  <2>1. PICK r \in room[c] \cap DOMAIN waiting :
          /\ waiting' = popped(r)
          /\ partner' = [partner EXCEPT ![c] = @ \cup {waiting[r]}, ![waiting[r]] = @ \cup {c}]
          /\ pipes' = pipes \cup both_ways(c, waiting[r])
    BY <1>7 DEF pair
  <2>2. waiting[r] \in Clients /\ \A q \in DOMAIN waiting' : waiting'[q] \in Clients
    BY <2>1 DEF Types, popped
  <2>3. partner' \in [Clients -> SUBSET Clients] /\ pipes' \subseteq Clients \X Clients
    <3>1. partner \in [Clients -> SUBSET Clients] /\ pipes \subseteq Clients \X Clients
      BY DEF Types
    <3>2. QED
      BY <2>1, <2>2, <3>1 DEF both_ways
  <2>4. QED
    BY <1>7, <2>2, <2>3, ZenonT(30) DEF Types, pair, arrives, streams
<1>8. ASSUME NEW c \in Clients, NEW d \in partner[c], copy(c, d)
      PROVE  Types'
  <2>1. Head(up[c]) \in Bytes /\ Tail(up[c]) \in Seq(Bytes) /\ d \in Clients
    BY <1>8, HeadTailProperties DEF Types, copy
  <2>2. up' \in [Clients -> Seq(Bytes)] /\ down' \in [Clients -> Seq(Bytes)]
    BY <1>8, <2>1 DEF Types, copy
  <2>3. QED
    BY <1>8, <2>2 DEF Types, copy, relay
<1>9. ASSUME NEW c \in Clients, NEW d \in partner[c], end_pipe(c, d)
      PROVE  Types'
  <2>1. PICK left \in cut_off(up[d]) : up' = [up EXCEPT ![d] = left]
    BY <1>9 DEF end_pipe
  <2>2. left \in Seq(Bytes) /\ d \in Clients
    BY CutOff DEF Types
  <2>3. up' \in [Clients -> Seq(Bytes)]
    BY <2>1, <2>2 DEF Types
  <2>4. QED
    BY <1>9, <2>2, <2>3 DEF Types, end_pipe, writer_closed
<1>10. QED
  BY <1>1, <1>2, <1>3, <1>4, <1>5, <1>6, <1>7, <1>8, <1>9
     DEF Next, loop, handles, pumps

\* Partners have one another only, and whoever waits has none.
LEMMA WiredKept ==
  ASSUME Types, Wired, Next
  PROVE  Wired'
<1>1. ASSUME NEW c \in Clients, NEW r \in Rooms \cup {NoRoom}, connect(c, r)
      PROVE  Wired'
  <2>1. /\ \A x \in Clients : room'[x] = IF x = c THEN {r} ELSE room[x]
        /\ room[c] = {} /\ partner' = partner /\ waiting' = waiting /\ served' = served /\ pipes' = pipes
    BY <1>1 DEF connect, relay, Types
  <2>2. \A q \in DOMAIN waiting : waiting[q] # c /\ waiting[q] \in Clients
    <3>1. SUFFICES ASSUME NEW q \in DOMAIN waiting
                   PROVE  waiting[q] # c /\ waiting[q] \in Clients
      OBVIOUS
    <3>2. room[waiting[q]] = {q}
      BY DEF Wired
    <3>3. QED
      BY <2>1, <3>2 DEF Types
  <2>3. \A x \in Clients : \A y \in partner[x] : x # c /\ y # c /\ y \in Clients
    BY <2>1 DEF Wired, Types
  <2>4. \A q \in DOMAIN waiting' :
          waiting'[q] \in served' /\ room'[waiting'[q]] = {q} /\ partner'[waiting'[q]] = {}
    BY <2>1, <2>2 DEF Wired
  <2>5. \A x \in Clients : \A y \in partner'[x] :
          y # x /\ partner'[y] = {x} /\ room'[y] = room'[x] /\ room'[x] # {}
    BY <2>1, <2>3 DEF Wired
  <2>6. QED
    BY <2>1, <2>4, <2>5 DEF Wired
<1>2. ASSUME UNCHANGED <<room, relay>>
      PROVE  Wired'
  BY <1>2 DEF Wired, relay
<1>3. ASSUME UNCHANGED <<room, waiting, partner>>, served \subseteq served', pipes' \subseteq pipes
      PROVE  Wired'
  BY <1>3 DEF Wired
<1>4. ASSUME NEW c \in Clients, wait(c)
      PROVE  Wired'
  <2>1. PICK r \in room[c] \ ({NoRoom} \cup DOMAIN waiting) :
          waiting' = [x \in DOMAIN waiting \cup {r} |-> IF x = r THEN c ELSE waiting[x]]
    BY <1>4 DEF wait
  <2>2. \A q \in DOMAIN waiting' :
          waiting'[q] \in served' /\ room'[waiting'[q]] = {q} /\ partner'[waiting'[q]] = {}
    <3>1. room[c] = {r} /\ partner[c] = {} /\ c \in served'
      <4>1. r \in room[c] /\ \A q \in room[c] : q = r
        BY <2>1 DEF Types
      <4>2. QED
        BY <1>4, <4>1 DEF wait, arrives, Wired
    <3>2. served \subseteq served' /\ room' = room /\ partner' = partner
      BY <1>4 DEF wait, arrives
    <3>3. QED
      BY <2>1, <3>1, <3>2 DEF Wired
  <2>3. QED
    BY <1>4, <2>2 DEF Wired, wait, arrives
<1>5. ASSUME NEW c \in Clients, pair(c)
      PROVE  Wired'
  <2>1. PICK r \in room[c] \cap DOMAIN waiting :
          /\ waiting' = popped(r)
          /\ partner' = [partner EXCEPT ![c] = @ \cup {waiting[r]}, ![waiting[r]] = @ \cup {c}]
          /\ pipes' = pipes \cup both_ways(c, waiting[r])
    BY <1>5 DEF pair
  <2>2. PICK d : d = waiting[r]
    OBVIOUS
  <2>3. /\ d \in Clients /\ d \in served /\ room[d] = {r} /\ partner[d] = {}
        /\ c \notin served /\ partner[c] = {} /\ c # d
    BY <1>5, <2>2 DEF pair, arrives, Wired, Types
  <2>4. room[c] = {r}
    <3>1. r \in room[c] /\ \A q \in room[c] : q = r
      BY <2>1 DEF Types
    <3>2. QED
      BY <3>1
  <2>5. served' = served \cup {c} /\ room' = room
    BY <1>5 DEF pair, arrives
  <2>6. \A x \in Clients : partner'[x] = IF x = c THEN {d} ELSE IF x = d THEN {c} ELSE partner[x]
    <3>1. partner \in [Clients -> SUBSET Clients]
      BY DEF Types
    <3>2. partner' = [partner EXCEPT ![c] = @ \cup {d}, ![d] = @ \cup {c}]
      BY <2>1, <2>2
    <3>3. QED
      BY <2>3, <3>1, <3>2
  <2>7. \A x \in Clients : \A y \in partner[x] :
          y \notin {c, d} /\ x \notin {c, d} /\ y \in Clients
    <3>1. SUFFICES ASSUME NEW x \in Clients, NEW y \in partner[x]
                   PROVE  y \notin {c, d} /\ x \notin {c, d} /\ y \in Clients
      OBVIOUS
    <3>2. y \in Clients
      BY DEF Types
    <3>3. partner[y] # {} /\ partner[x] # {}
      BY DEF Wired
    <3>4. QED
      BY <2>3, <3>2, <3>3
  <2>8. \A x \in Clients : x \notin served' => partner'[x] = {}
    BY <2>3, <2>5, <2>6 DEF Wired
  <2>9. \A q \in DOMAIN waiting' :
          waiting'[q] \in served' /\ room'[waiting'[q]] = {q} /\ partner'[waiting'[q]] = {}
    <3>1. SUFFICES ASSUME NEW q \in DOMAIN waiting'
                   PROVE  waiting'[q] \in served' /\ room'[waiting'[q]] = {q} /\ partner'[waiting'[q]] = {}
      OBVIOUS
    <3>2. q \in DOMAIN waiting /\ q # r /\ waiting'[q] = waiting[q]
      BY <2>1 DEF popped
    <3>3. waiting[q] \in served /\ room[waiting[q]] = {q} /\ partner[waiting[q]] = {} /\ waiting[q] \in Clients
      BY <3>2 DEF Wired, Types
    <3>4. waiting[q] # c /\ waiting[q] # d
      BY <2>3, <2>4, <3>2, <3>3
    <3>5. QED
      BY <2>5, <2>6, <3>2, <3>3, <3>4
  <2>10. \A x \in Clients : \A y \in partner'[x] :
           y # x /\ partner'[y] = {x} /\ room'[y] = room'[x] /\ room'[x] # {}
    <3>1. SUFFICES ASSUME NEW x \in Clients, NEW y \in partner'[x]
                   PROVE  y # x /\ partner'[y] = {x} /\ room'[y] = room'[x] /\ room'[x] # {}
      OBVIOUS
    <3>2. CASE x = c
      BY <2>3, <2>4, <2>5, <2>6, <3>2
    <3>3. CASE x = d
      BY <2>3, <2>4, <2>5, <2>6, <3>3
    <3>4. CASE x \notin {c, d}
      <4>1. y \in partner[x]
        BY <2>6, <3>4
      <4>2. y \notin {c, d} /\ y \in Clients
        BY <2>7, <4>1
      <4>3. y # x /\ partner[y] = {x} /\ room[y] = room[x] /\ room[x] # {}
        BY <4>1 DEF Wired
      <4>4. QED
        BY <2>5, <2>6, <4>2, <4>3
    <3>5. QED
      BY <3>2, <3>3, <3>4
  <2>11. \A x \in Clients, y \in Clients : <<x, y>> \in pipes' => y \in partner'[x]
    <3>1. SUFFICES ASSUME NEW x \in Clients, NEW y \in Clients, <<x, y>> \in pipes'
                   PROVE  y \in partner'[x]
      OBVIOUS
    <3>2. CASE <<x, y>> \in pipes
      <4>1. y \in partner[x]
        BY <3>2 DEF Wired
      <4>2. QED
        BY <2>6, <2>7, <4>1
    <3>3. CASE <<x, y>> \in {<<c, d>>, <<d, c>>}
      BY <2>3, <2>6, <3>3
    <3>4. QED
      BY <2>1, <2>2, <3>1, <3>2, <3>3 DEF both_ways
  <2>12. QED
    BY <2>8, <2>9, <2>10, <2>11 DEF Wired
<1>6. QED
  BY <1>1, <1>2, <1>3, <1>4, <1>5
     DEF Next, loop, handles, pumps, send, receive, hang_up, refuse, copy, end_pipe, arrives, relay

-----------------------------------------------------------------------------
\* A step that leaves the streams alone leaves them as they are for Flow.
LEMMA FlowUnmoved ==
  ASSUME Flow, UNCHANGED <<partner, streams, gone, closed>>
  PROVE  Flow'
BY DEF Flow, FlowAt, given, ended, streams

\* One more byte is sent.
LEMMA SendFlow ==
  ASSUME Types, Flow, NEW c \in Clients, send(c)
  PROVE  Flow'
<1>1. SUFFICES ASSUME NEW x \in Clients
               PROVE  \E m \in Nat, n \in Nat : FlowAt(x, m, n)'
  BY DEF Flow
<1>2. PICK m \in Nat, n \in Nat : FlowAt(x, m, n)
  BY DEF Flow
<1>3. UNCHANGED <<partner, down, received, gone, closed>>
  BY DEF send, relay
<1>4. CASE x = c /\ c \notin closed
  <2>1. m + n = sent[c] /\ up[c] = stretch(c, m, n)
    BY <1>2, <1>4 DEF FlowAt, send, ended
  <2>2. sent'[c] = m + (n + 1) /\ up'[c] = Append(stretch(c, m, n), <<c, m + n + 1>>)
    BY <1>4, <2>1 DEF send, Types
  <2>3. FlowAt(c, m, n + 1)'
    BY <1>2, <1>3, <1>4, <2>1, <2>2, StretchGrows DEF FlowAt, given, ended
  <2>4. QED
    BY <1>4, <2>3
<1>5. CASE x # c \/ c \in closed
  <2>1. up'[x] = up[x] /\ (x # c => sent'[x] = sent[x])
    BY <1>5 DEF send, Types
  <2>2. QED
    BY <1>2, <1>3, <1>5, <2>1 DEF FlowAt, given, ended
<1>6. QED
  BY <1>4, <1>5

\* A byte that is read was given before.
LEMMA ReceiveFlow ==
  ASSUME Types, Flow, NEW c \in Clients, receive(c)
  PROVE  Flow'
<1>1. UNCHANGED <<partner, up, sent, gone, closed>>
  BY DEF receive, relay
<1>2. Head(down[c]) \in Bytes
  BY HeadTailProperties DEF Types, receive
<1>3. \A x \in Clients : given(x)' = given(x)
  <2>1. received'[c] \o down'[c] = received[c] \o down[c]
    BY <1>2, Handed DEF receive, Types
  <2>2. QED
    BY <2>1 DEF receive, Types, given
<1>4. \A x \in Clients : partner[x] \subseteq Clients
  BY DEF Types
<1>5. ASSUME NEW x \in Clients, NEW m \in Nat, NEW n \in Nat, FlowAt(x, m, n)
      PROVE  FlowAt(x, m, n)'
  <2>1. \A d \in partner[x] : given(d)' = given(d)
    BY <1>3, <1>4
  <2>2. \A d \in partner[x] : ended(d)' \/ given(d)' = stretch(x, 0, m)
    BY <1>1, <1>5, <2>1 DEF FlowAt, ended
  <2>3. \A d \in partner[x] : \E k \in Nat : given(d)' = stretch(x, 0, k)
    BY <1>5, <2>1 DEF FlowAt
  <2>4. QED
    BY <1>1, <1>3, <1>5, <2>2, <2>3 DEF FlowAt, ended
<1>6. QED
  BY <1>5 DEF Flow

\* A connection ends: what was given to others, and is still given, is not touched.
LEMMA EndFlow ==
  ASSUME Types, Wired, Flow, NEW c \in Clients,
         UNCHANGED <<partner, sent>>,
         c \in gone' \cup closed',
         gone' \cup closed' = gone \cup closed \cup {c},
         \E left \in cut_off(up[c]) : up' = [up EXCEPT ![c] = left],
         \A x \in Clients : x # c => given(x)' = given(x),
         given(c)' \in {given(c), received[c]}
  PROVE  Flow'
<1>1. SUFFICES ASSUME NEW x \in Clients
               PROVE  \E m \in Nat, n \in Nat : FlowAt(x, m, n)'
  BY DEF Flow
<1>2. PICK m \in Nat, n \in Nat : FlowAt(x, m, n)
  BY DEF Flow
<1>3. \E k \in Nat : up'[x] = stretch(x, m, k) /\ (x # c => k = n)
  <2>1. PICK left \in cut_off(up[c]) : up' = [up EXCEPT ![c] = left]
    OBVIOUS
  <2>2. up'[x] = IF x = c THEN left ELSE up[x]
    BY <2>1 DEF Types
  <2>3. CASE x = c
    <3>1. PICK k \in Nat : left = stretch(x, m, k)
      BY <1>2, <2>3, StretchCutOff DEF FlowAt
    <3>2. QED
      BY <2>2, <2>3, <3>1
  <2>4. CASE x # c
    BY <1>2, <2>2, <2>4 DEF FlowAt
  <2>5. QED
    BY <2>3, <2>4
<1>4. PICK k \in Nat : up'[x] = stretch(x, m, k) /\ (x # c => k = n)
  BY <1>3
<1>5. ASSUME NEW d \in partner[x]
      PROVE  \E j \in Nat : given(d)' = stretch(x, 0, j)
  <2>1. d \in Clients /\ received[d] \in Seq(Bytes) /\ down[d] \in Seq(Bytes)
    BY DEF Types
  <2>2. PICK j \in Nat : given(d) = stretch(x, 0, j)
    BY <1>2 DEF FlowAt
  <2>3. CASE given(d)' = given(d)
    BY <2>2, <2>3
  <2>4. CASE given(d)' = received[d]
    <3>1. received[d] \o down[d] = stretch(x, 0, j)
      BY <2>2 DEF given
    <3>2. PICK i \in Nat : received[d] = stretch(x, 0, i)
      <4>1. PICK s \in Seq(Bytes) : s = received[d]
        BY <2>1
      <4>2. PICK t \in Seq(Bytes) : t = down[d]
        BY <2>1
      <4>3. s \o t = stretch(x, 0, j)
        BY <3>1, <4>1, <4>2
      <4>4. \E i \in Nat : s = stretch(x, 0, i)
        BY ONLY <4>3, ReadPart, x \in Clients, s \in Seq(Bytes), t \in Seq(Bytes), j \in Nat, ZenonT(60)
      <4>5. QED
        BY <4>1, <4>4
    <3>3. QED
      BY <2>4, <3>2
  <2>5. QED
    BY <2>1, <2>3, <2>4
<1>6. partner[x] = {} => given(x)' = <<>>
  <2>1. SUFFICES ASSUME partner[x] = {}
                 PROVE  given(x)' = <<>>
    OBVIOUS
  <2>2. given(x) = <<>> /\ received[x] \in Seq(Bytes) /\ down[x] \in Seq(Bytes)
    BY <1>2, <2>1 DEF FlowAt, Types
  <2>3. received[x] = <<>>
    BY <2>2, ConcatEqualIffEmpty, ConcatProperties DEF given
  <2>4. QED
    BY <2>2, <2>3
<1>7. \A y \in Clients : ended(y)' <=> ended(y) \/ y = c
  BY DEF ended
<1>8. partner[x] \subseteq Clients
  BY DEF Types
<1>9. FlowAt(x, m, k)'
  <2>1. ~ ended(x)' => m + k = sent'[x]
    BY <1>2, <1>4, <1>7 DEF FlowAt
  <2>2. \A d \in partner[x] : ended(d)' \/ given(d)' = stretch(x, 0, m)
    BY <1>2, <1>7, <1>8 DEF FlowAt
  <2>3. QED
    BY <1>2, <1>4, <1>5, <1>6, <2>1, <2>2 DEF FlowAt
<1>10. QED
  BY <1>9

\* A byte goes from one stream to the other, or is thrown away at the end of it.
LEMMA CopyFlow ==
  ASSUME Types, Wired, Flow, NEW c \in Clients, NEW d \in partner[c], copy(c, d)
  PROVE  Flow'
<1>1. UNCHANGED <<partner, sent, received, gone, closed>>
  BY DEF copy, relay
<1>2. d \in Clients /\ d # c /\ partner[d] = {c} /\ partner[c] = {d}
  <2>1. d \in Clients
    BY DEF Types
  <2>2. d # c /\ partner[d] = {c}
    BY DEF Wired
  <2>3. c \in partner[d]
    BY <2>2
  <2>4. QED
    BY <2>1, <2>2, <2>3 DEF Wired
<1>3. /\ up' = [up EXCEPT ![c] = Tail(@)] /\ up[c] # <<>>
      /\ down' = IF ended(d) THEN down ELSE [down EXCEPT ![d] = Append(@, Head(up[c]))]
  BY DEF copy
<1>4. \A x \in Clients : /\ up'[x] = IF x = c THEN Tail(up[x]) ELSE up[x]
                         /\ x # d \/ ended(d) => given(x)' = given(x)
  BY <1>1, <1>2, <1>3, ZenonT(30) DEF Types, given
<1>5. PICK m \in Nat, n \in Nat : FlowAt(c, m, n)
  BY DEF Flow
<1>6. /\ n - 1 \in Nat /\ m + 1 \in Nat
      /\ Head(up[c]) = <<c, m + 1>>
      /\ up'[c] = stretch(c, m + 1, n - 1)
  <2>1. up[c] = stretch(c, m, n)
    BY <1>5 DEF FlowAt
  <2>2. up'[c] = Tail(stretch(c, m, n)) /\ stretch(c, m, n) # <<>>
    BY <1>3, <1>4, <2>1
  <2>3. /\ n - 1 \in Nat
        /\ Head(stretch(c, m, n)) = <<c, m + 1>>
        /\ Tail(stretch(c, m, n)) = stretch(c, m + 1, n - 1)
    BY <2>2, StretchShrinks
  <2>4. QED
    BY <2>1, <2>2, <2>3
<1>7. ended(d) \/ given(d)' = stretch(c, 0, m + 1)
  <2>1. SUFFICES ASSUME ~ ended(d)
                 PROVE  given(d)' = stretch(c, 0, m + 1)
    OBVIOUS
  <2>2. <<c, m + 1>> \in Bytes /\ <<c, 0 + m + 1>> = <<c, m + 1>>
    BY <1>6 DEF Bytes
  <2>3. given(d)' = received[d] \o Append(down[d], <<c, m + 1>>)
    BY <1>1, <1>2, <1>3, <1>6, <2>1, ZenonT(30) DEF given, Types
  <2>4. given(d)' = Append(given(d), <<c, m + 1>>)
    BY <1>2, <2>2, <2>3, Handed, SMTT(30) DEF given, Types
  <2>5. given(d) = stretch(c, 0, m)
    BY <1>2, <1>5, <2>1 DEF FlowAt
  <2>6. Append(stretch(c, 0, m), <<c, 0 + m + 1>>) = stretch(c, 0, m + 1)
    BY StretchGrows
  <2>7. QED
    BY <2>2, <2>4, <2>5, <2>6
<1>8. FlowAt(c, m + 1, n - 1)'
  <2>1. ~ ended(c)' => m + 1 + (n - 1) = sent'[c]
    BY <1>1, <1>5, <1>6 DEF FlowAt, ended, Types
  <2>2. \E k \in Nat : given(d)' = stretch(c, 0, k)
    BY <1>2, <1>4, <1>5, <1>6, <1>7 DEF FlowAt
  <2>3. ended(d)' = ended(d)
    BY <1>1 DEF ended
  <2>4. partner'[c] = {d}
    BY <1>1, <1>2
  <2>5. QED
    BY <1>6, <1>7, <2>1, <2>2, <2>3, <2>4 DEF FlowAt
<1>9. ASSUME NEW x \in Clients, x # c
      PROVE  \E i \in Nat, j \in Nat : FlowAt(x, i, j)'
  <2>1. PICK i \in Nat, j \in Nat : FlowAt(x, i, j)
    BY DEF Flow
  <2>2. \A y \in partner[x] : y # d /\ y \in Clients
    <3>1. SUFFICES ASSUME NEW y \in partner[x]
                   PROVE  y # d /\ y \in Clients
      OBVIOUS
    <3>2. y \in Clients
      BY DEF Types
    <3>3. partner[y] = {x}
      BY DEF Wired
    <3>4. QED
      BY <1>2, <1>9, <3>2, <3>3
  <2>3. partner[x] = {} => x # d
    BY <1>2
  <2>4. up'[x] = up[x] /\ (\A y \in partner[x] : given(y)' = given(y))
        /\ (partner[x] = {} => given(x)' = given(x))
    BY <1>4, <1>9, <2>2, <2>3
  <2>5. FlowAt(x, i, j)'
    BY <1>1, <2>1, <2>4 DEF FlowAt, ended
  <2>6. QED
    BY <2>5
<1>10. QED
  BY <1>6, <1>8, <1>9 DEF Flow

\* Two connections meet: nothing was copied from either yet.
LEMMA PairFlow ==
  ASSUME Types, Wired, Flow, NEW c \in Clients, pair(c)
  PROVE  Flow'
<1>1. PICK r \in room[c] \cap DOMAIN waiting :
        partner' = [partner EXCEPT ![c] = @ \cup {waiting[r]}, ![waiting[r]] = @ \cup {c}]
  BY DEF pair
<1>2. PICK d : d = waiting[r]
  OBVIOUS
<1>3. d \in Clients /\ partner[d] = {} /\ partner[c] = {} /\ c # d
  BY <1>2 DEF pair, arrives, Wired, Types
<1>4. \A x \in Clients : partner'[x] = IF x = c THEN {d} ELSE IF x = d THEN {c} ELSE partner[x]
  <2>1. partner \in [Clients -> SUBSET Clients]
    BY DEF Types
  <2>2. partner' = [partner EXCEPT ![c] = @ \cup {d}, ![d] = @ \cup {c}]
    BY <1>1, <1>2
  <2>3. QED
    BY <1>3, <2>1, <2>2
<1>5. UNCHANGED <<up, down, sent, received, gone, closed>>
  BY DEF pair, streams
<1>6. \A x \in Clients : stretch(x, 0, 0) = <<>>
  BY DEF stretch
<1>7. given(c) = <<>> /\ given(d) = <<>>
  BY <1>3 DEF Flow, FlowAt
<1>8. SUFFICES ASSUME NEW x \in Clients
               PROVE  \E m \in Nat, n \in Nat : FlowAt(x, m, n)'
  BY DEF Flow
<1>9. PICK m \in Nat, n \in Nat : FlowAt(x, m, n)
  BY DEF Flow
<1>10. CASE x \in {c, d}
  <2>1. m = 0 /\ partner[x] = {}
    BY <1>3, <1>9, <1>10 DEF FlowAt
  <2>2. partner'[x] # {} /\ \A y \in partner'[x] : given(y) = stretch(x, 0, 0)
    BY <1>3, <1>4, <1>6, <1>7, <1>10
  <2>3. FlowAt(x, 0, n)'
    BY <1>5, <1>9, <2>1, <2>2 DEF FlowAt, given, ended
  <2>4. QED
    BY <2>3
<1>11. CASE x \notin {c, d}
  BY <1>4, <1>5, <1>9, <1>11 DEF FlowAt, given, ended
<1>12. QED
  BY <1>10, <1>11

\* The streams are kept in order by every step.
LEMMA FlowKept ==
  ASSUME Types, Wired, Flow, Next
  PROVE  Flow'
<1>1. ASSUME NEW c \in Clients, hang_up(c)
      PROVE  Flow'
  <2>1. UNCHANGED <<partner, sent>> /\ gone' \cup closed' = gone \cup closed \cup {c}
        /\ c \in gone' \cup closed'
        /\ \E left \in cut_off(up[c]) : up' = [up EXCEPT ![c] = left]
    BY <1>1 DEF hang_up, relay
  <2>2. \A x \in Clients : x # c => given(x)' = given(x)
    BY <1>1 DEF hang_up, Types, given
  <2>3. given(c)' = received[c]
    <3>1. given(c)' = received[c] \o <<>>
      BY <1>1 DEF hang_up, Types, given
    <3>2. QED
      BY <3>1, ConcatEmptySeq DEF Types
  <2>4. QED
    BY <2>1, <2>2, <2>3, EndFlow
<1>2. ASSUME NEW c \in Clients, refuse(c)
      PROVE  Flow'
  <2>1. UNCHANGED <<partner, sent>> /\ gone' \cup closed' = gone \cup closed \cup {c}
        /\ c \in gone' \cup closed'
        /\ (\E left \in cut_off(up[c]) : up' = [up EXCEPT ![c] = left])
        /\ \A x \in Clients : given(x)' = given(x)
    BY <1>2 DEF refuse, given
  <2>2. QED
    BY <2>1, EndFlow
<1>3. ASSUME NEW c \in Clients, NEW d \in partner[c], end_pipe(c, d)
      PROVE  Flow'
  <2>1. UNCHANGED <<partner, sent>> /\ gone' \cup closed' = gone \cup closed \cup {d}
        /\ d \in gone' \cup closed'
        /\ (\E left \in cut_off(up[d]) : up' = [up EXCEPT ![d] = left])
        /\ \A x \in Clients : given(x)' = given(x)
    BY <1>3 DEF end_pipe, writer_closed, given
  <2>2. d \in Clients
    BY DEF Types
  <2>3. QED
    BY <2>1, <2>2, EndFlow
<1>4. ASSUME NEW c \in Clients, NEW r \in Rooms \cup {NoRoom}, connect(c, r)
      PROVE  Flow'
  BY <1>4, FlowUnmoved DEF connect, relay
<1>5. ASSUME NEW c \in Clients, wait(c)
      PROVE  Flow'
  BY <1>5, FlowUnmoved DEF wait
<1>6. QED
  BY <1>1, <1>2, <1>3, <1>4, <1>5, SendFlow, ReceiveFlow, CopyFlow, PairFlow
     DEF Next, loop, handles, pumps

-----------------------------------------------------------------------------
\* The invariant says what Verbatim says.
LEMMA FlowIsVerbatim ==
  IInv => Verbatim
<1>1. SUFFICES ASSUME IInv, NEW c \in Clients, given(c) # <<>>
               PROVE  \E d \in Clients \ {c} :
                        /\ room[d] = room[c]
                        /\ given(c) = [k \in DOMAIN given(c) |-> <<d, k>>]
  BY DEF Verbatim, given
<1>2. partner[c] # {}
  BY <1>1 DEF IInv, Flow, FlowAt
<1>3. PICK d \in partner[c] : TRUE
  BY <1>2
<1>4. d \in Clients \ {c} /\ partner[d] = {c} /\ room[d] = room[c]
  BY <1>1 DEF IInv, Types, Wired
<1>5. PICK k \in Nat : given(c) = stretch(d, 0, k)
  BY <1>1, <1>4 DEF IInv, Flow, FlowAt
<1>6. DOMAIN given(c) = 1..k
  BY <1>5 DEF stretch
<1>7. \A i \in 1..k : 0 + i = i
  OBVIOUS
<1>8. given(c) = [i \in DOMAIN given(c) |-> <<d, i>>]
  BY <1>5, <1>6, <1>7 DEF stretch
<1>9. QED
  BY <1>4, <1>8

\* The streams run from end to end as IInv has it, for any connections and rooms.
THEOREM RelayKeepsStreams ==
  Spec => []IInv
<1>1. IInv /\ [Next]_vars => IInv'
  <2>1. SUFFICES ASSUME IInv, [Next]_vars
                 PROVE  IInv'
    OBVIOUS
  <2>2. CASE Next
    BY <2>1, <2>2, TypesKept, WiredKept, FlowKept DEF IInv
  <2>3. CASE UNCHANGED vars
    <3>1. Types'
      BY <2>1, <2>3 DEF IInv, Types, vars
    <3>2. Wired'
      BY <2>1, <2>3 DEF IInv, Wired, vars
    <3>3. Flow'
      BY <2>1, <2>3, FlowUnmoved DEF IInv, vars, streams
    <3>4. QED
      BY <3>1, <3>2, <3>3 DEF IInv
  <2>4. QED
    BY <2>1, <2>2, <2>3
<1>2. QED
  BY <1>1, InitIInv, PTL DEF Spec

\* Everything after the room code is piped verbatim, to one other client of the
\* room, in the order sent and without a gap, those bytes included that came
\* before the pair was made (_pipe, handle and the table of waiting rooms).
THEOREM RelayIsVerbatim ==
  Spec => []Verbatim
BY RelayKeepsStreams, FlowIsVerbatim, PTL
=============================================================================
