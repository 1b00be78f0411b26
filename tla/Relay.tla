-------------------------------- MODULE Relay --------------------------------
(***************************************************************************)
(* The rendezvous relay (net/relay.py): connections that name the same     *)
(* room in their first line are paired and piped to one another until      *)
(* either closes.  Bytes are numbered by their sender; a read of several   *)
(* bytes is several steps.  The relay is one event loop without locks:     *)
(* what it does between two awaits is one action.                          *)
(*                                                                         *)
(* A client is a connection.  It may hang up at any moment, also while it  *)
(* waits; nothing tells the relay until it reads from that connection.     *)
(***************************************************************************)
EXTENDS SequencesExt

CONSTANTS
  Clients,   \* connections
  Rooms,     \* room codes; NoRoom is the empty line
  NoRoom,
  MaxBytes,  \* how many bytes a client sends at most (bounds the model)
  Buffer     \* drain() waits while more than this is unsent

ASSUME RelayAssumption ==
  /\ NoRoom \notin Rooms
  /\ MaxBytes \in [Clients -> Nat] /\ Buffer \in Nat \ {0}

VARIABLES
  room,      \* the first line a client sent, once it has
  served,    \* connections whose first line was handled
  waiting,   \* the table of waiting connections, by room
  partner,   \* whom a connection was paired with
  pipes,     \* the <<from, to>> pairs that are being copied
  up,        \* bytes on their way from a client to the relay or read ahead there
  down,      \* bytes on their way to a client
  sent,      \* how many bytes a client has sent
  received,  \* the bytes it has received
  gone,      \* clients that hung up
  closed     \* connections the relay has closed

vars == <<room, served, waiting, partner, pipes, up, down, sent, received, gone, closed>>

Init ==
  /\ room = [c \in Clients |-> {}]
  /\ served = {}
  /\ waiting = [r \in {} |-> {}]
  /\ partner = [c \in Clients |-> {}]
  /\ pipes = {}
  /\ up = [c \in Clients |-> <<>>]
  /\ down = [c \in Clients |-> <<>>]
  /\ sent = [c \in Clients |-> 0]
  /\ received = [c \in Clients |-> <<>>]
  /\ gone = {}
  /\ closed = {}

relay   == <<served, waiting, partner, pipes>>
streams == <<up, down, sent, received>>
ended(c) == c \in gone \cup closed

\* What is left of a stream when one end closes: bytes not yet read may be lost.
cut_off(stream) == {SubSeq(stream, 1, n) : n \in 0..Len(stream)}

-----------------------------------------------------------------------------
(***************************************************************************)
(* The clients.                                                            *)
(***************************************************************************)
connect(c, r) ==
  /\ room[c] = {}
  /\ room' = [room EXCEPT ![c] = {r}]
  /\ UNCHANGED <<relay, streams, gone, closed>>

send(c) ==
  /\ room[c] # {} /\ c \notin gone /\ sent[c] < MaxBytes[c]
  /\ sent' = [sent EXCEPT ![c] = @ + 1]
  /\ up' = IF c \in closed THEN up ELSE [up EXCEPT ![c] = Append(@, <<c, sent[c] + 1>>)]
  /\ UNCHANGED <<room, relay, down, received, gone, closed>>

receive(c) ==
  /\ c \notin gone /\ down[c] # <<>>
  /\ received' = [received EXCEPT ![c] = Append(@, Head(down[c]))]
  /\ down' = [down EXCEPT ![c] = Tail(@)]
  /\ UNCHANGED <<room, relay, up, sent, gone, closed>>

hang_up(c) ==
  /\ room[c] # {} /\ c \notin gone
  /\ gone' = gone \cup {c}
  /\ \E left \in cut_off(up[c]) : up' = [up EXCEPT ![c] = left]
  /\ down' = [down EXCEPT ![c] = <<>>]
  /\ UNCHANGED <<room, relay, sent, received, closed>>

-----------------------------------------------------------------------------
(***************************************************************************)
(* handle: the first line is there.                                        *)
(***************************************************************************)
arrives(c) == room[c] # {} /\ c \notin served /\ served' = served \cup {c}

refuse(c) ==
  /\ arrives(c) /\ room[c] = {NoRoom}
  /\ closed' = closed \cup {c}
  /\ \E left \in cut_off(up[c]) : up' = [up EXCEPT ![c] = left]
  /\ UNCHANGED <<room, waiting, partner, pipes, down, sent, received, gone>>

wait(c) ==
  /\ arrives(c)
  /\ \E r \in room[c] \ ({NoRoom} \cup DOMAIN waiting) :
       waiting' = [x \in DOMAIN waiting \cup {r} |-> IF x = r THEN c ELSE waiting[x]]
  /\ UNCHANGED <<room, partner, pipes, streams, gone, closed>>

\* Fault: whoever was paired goes on waiting.
still_waiting(r) == waiting

popped(r) == [x \in DOMAIN waiting \ {r} |-> waiting[x]]

\* Fault: only what the second comer sends is copied.
one_way(c, d) == {<<c, d>>}

both_ways(c, d) == {<<c, d>>, <<d, c>>}

pair(c) ==
  /\ arrives(c)
  /\ \E r \in room[c] \cap DOMAIN waiting :
       LET d == waiting[r]
       IN  /\ waiting' = popped(r)
           /\ partner' = [partner EXCEPT ![c] = @ \cup {d}, ![d] = @ \cup {c}]
           /\ pipes' = pipes \cup both_ways(c, d)
  /\ UNCHANGED <<room, streams, gone, closed>>

-----------------------------------------------------------------------------
(***************************************************************************)
(* _pipe: copy, then close the writer when reading ends or writing fails.  *)
(***************************************************************************)
copy(c, d) ==
  /\ <<c, d>> \in pipes /\ up[c] # <<>>
  /\ ended(d) \/ Len(down[d]) < Buffer
  /\ up' = [up EXCEPT ![c] = Tail(@)]
  /\ down' = IF ended(d) THEN down ELSE [down EXCEPT ![d] = Append(@, Head(up[c]))]
  /\ UNCHANGED <<room, relay, sent, received, gone, closed>>

\* Fault: the writer is left open.
left_open(d) == closed

writer_closed(d) == closed \cup {d}

end_pipe(c, d) ==
  /\ <<c, d>> \in pipes
  /\ IF up[c] = <<>> THEN ended(c) ELSE ended(d)
  /\ pipes' = pipes \ {<<c, d>>}
  /\ closed' = writer_closed(d)
  /\ \E left \in cut_off(up[d]) : up' = [up EXCEPT ![d] = left]
  /\ UNCHANGED <<room, served, waiting, partner, down, sent, received, gone>>

handles(c) == refuse(c) \/ wait(c) \/ pair(c)
pumps(c, d) == copy(c, d) \/ end_pipe(c, d)

loop == \E c \in Clients : handles(c) \/ \E d \in partner[c] : pumps(c, d)

Next ==
  \/ \E c \in Clients, r \in Rooms \cup {NoRoom} : connect(c, r)
  \/ \E c \in Clients : send(c) \/ receive(c) \/ hang_up(c)
  \/ loop

(***************************************************************************)
(* The relay's loop goes on while any of its tasks can, and the network    *)
(* delivers to a client that is still there.  Nothing makes a client       *)
(* connect, send or hang up.                                               *)
(***************************************************************************)
Fairness == WF_vars(loop) /\ \A c \in Clients : WF_vars(receive(c))

Spec == Init /\ [][Next]_vars /\ Fairness

-----------------------------------------------------------------------------
\* Everything after the room code is piped verbatim (docs/PROTOCOL.md): what a
\* client is given comes from one other client of its room, every byte in the
\* order sent and none left out, those sent while it still waited included.
Verbatim ==
  \A c \in Clients :
    LET given == received[c] \o down[c]
    IN  given # <<>> =>
          \E d \in Clients \ {c} :
            room[d] = room[c] /\ given = [k \in DOMAIN given |-> <<d, k>>]

\* A pair is piped in both directions, whoever came first: a byte of a paired
\* client, sent before or after it was paired, reaches the partner unless one
\* of the two hangs up.
Arrives ==
  \A c \in Clients : \A k \in 1..MaxBytes[c] :
    (sent[c] >= k /\ partner[c] # {})
      ~> \A d \in partner[c] : \/ <<c, k>> \in ToSet(received[d])
                               \/ {c, d} \cap gone # {}

\* When one of a pair hangs up, before or after it was paired, the other's
\* connection is closed in the end; nobody plays on against a dead peer.
EndsTogether ==
  \A c, d \in Clients : (c \in gone /\ d \in partner[c]) ~> d \in closed
=============================================================================
