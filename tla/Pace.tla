-------------------------------- MODULE Pace --------------------------------
(***************************************************************************)
(* The time an online phase takes (net/session.py): thinking, keepalive,   *)
(* message delay, the two deadlines and the tolerance on claimed times.    *)
(* Time advances in ticks, and only when nothing is due; what falls due in *)
(* one tick happens in any order.  Both directions of the connection delay *)
(* every message alike.  A peer may be stopped (kill -STOP): it then does  *)
(* nothing more, but its connection stays open.  What the messages say, and *)
(* which of them no branch expects, is Session's subject.                  *)
(***************************************************************************)
EXTENDS Integers, Sequences

LOCAL INSTANCE FiniteSetsExt

CONSTANTS
  Peers,
  ThinkTimes,        \* how long a decision may take
  Delay,             \* of a message, one way
  KeepaliveInterval,
  LivenessDeadline,
  TransportTimeout,
  Epsilon,           \* _CLOCK_EPSILON
  Floor,             \* _DMAX_FLOOR
  Phases,            \* the match is this long
  MaxWatch,          \* a stopwatch shows no more (bounds the model)
  MayStop            \* whether a peer may be stopped

ASSUME PaceAssumption ==
  /\ \E p, q \in Peers : p # q /\ Peers = {p, q}
  /\ ThinkTimes \subseteq Nat
  /\ {Delay, Epsilon, Floor} \subseteq Nat
  /\ {KeepaliveInterval, LivenessDeadline, TransportTimeout, Phases, MaxWatch} \subseteq Nat \ {0}
  /\ MayStop \in BOOLEAN

VARIABLES
  pc,       \* where the event loop stands
  phase,    \* phases completed
  since,    \* ticks since this peer's phase_start
  think,    \* when in the phase the decision will be there
  commit,   \* the elapsed time it committed to, once it has
  arrival,  \* when the other's slot arrived, once it has
  quiet,    \* ticks since the loop last heard anything
  ping_in,  \* ticks to the next ping
  inbox,    \* messages to it with the ticks they still need
  stopped,  \* the peers that were stopped
  verdict   \* how the match ended for it

vars == <<pc, phase, since, think, commit, arrival, quiet, ping_in, inbox, stopped, verdict>>

other(p) == CHOOSE q \in Peers : q # p
Awake    == Peers \ stopped

\* Half the longest round trip, when both delays are constant.
d_max == Max({Floor, (Delay + Delay) \div 2})

Init ==
  /\ pc = [p \in Peers |-> "window"]
  /\ phase = [p \in Peers |-> 0]
  /\ since = [p \in Peers |-> 0]
  /\ think \in [Peers -> ThinkTimes]
  /\ commit = [p \in Peers |-> {}]
  /\ arrival = [p \in Peers |-> {}]
  /\ quiet = [p \in Peers |-> 0]
  /\ ping_in = [p \in Peers |-> 0]
  /\ inbox = [p \in Peers |-> <<>>]
  /\ stopped = {}
  /\ verdict = [p \in Peers |-> "none"]

message(type, claim) == [type |-> type, claim |-> claim, left |-> Delay]
post(box, p, m) ==
  IF pc[other(p)] = "over" THEN box ELSE [box EXCEPT ![other(p)] = Append(@, m)]
due(p)   == inbox[p] # <<>> /\ Head(inbox[p]).left = 0
first(p) == Head(inbox[p])
taken(p) == [inbox EXCEPT ![p] = Tail(@)]

thinking == <<think, commit, arrival>>
watches  == <<since, quiet, ping_in>>

\* The match ends for p and its connection closes, which the other will hear.
ends(p, v) ==
  /\ verdict' = [verdict EXCEPT ![p] = v]
  /\ pc' = [pc EXCEPT ![p] = "over"]
  /\ inbox' = [post(inbox, p, message("eof", {})) EXCEPT ![p] = <<>>]
  /\ since' = [since EXCEPT ![p] = 0]
  /\ quiet' = [quiet EXCEPT ![p] = 0]
  /\ ping_in' = [ping_in EXCEPT ![p] = 0]
  /\ think' = [think EXCEPT ![p] = 0]
  /\ commit' = [commit EXCEPT ![p] = {}]
  /\ arrival' = [arrival EXCEPT ![p] = {}]
  /\ UNCHANGED <<phase, stopped>>

-----------------------------------------------------------------------------
(***************************************************************************)
(* The decision window: a decision in its thread, and the keepalive loop   *)
(* until the other's slot is there.                                        *)
(***************************************************************************)
Waiting(p) == pc[p] = "window" /\ arrival[p] = {}

send_slot(p) ==
  /\ pc[p] = "window" /\ commit[p] = {} /\ since[p] = think[p]
  /\ commit' = [commit EXCEPT ![p] = {since[p]}]
  /\ inbox' = post(inbox, p, message("slot", {}))
  /\ UNCHANGED <<pc, phase, think, arrival, watches, stopped, verdict>>

send_ping(p) ==
  /\ Waiting(p) /\ ping_in[p] = 0 /\ quiet[p] < LivenessDeadline
  /\ inbox' = post(inbox, p, message("ping", {}))
  /\ ping_in' = [ping_in EXCEPT ![p] = KeepaliveInterval]
  /\ UNCHANGED <<pc, phase, thinking, since, quiet, stopped, verdict>>

\* The other has been silent for the whole deadline.
unresponsive(p) ==
  /\ Waiting(p) /\ quiet[p] >= LivenessDeadline
  /\ ends(p, "unresponsive")

\* Fault: only the slot itself counts as a sign of life.
only_slots(p, m) == IF m.type = "slot" THEN 0 ELSE quiet[p]
\* Any message proves the other alive.
heard(p, m) == 0

take_slot(p) ==
  /\ Waiting(p) /\ due(p) /\ first(p).type = "slot"
  /\ arrival' = [arrival EXCEPT ![p] = {since[p]}]
  /\ quiet' = [quiet EXCEPT ![p] = 0]
  /\ ping_in' = [ping_in EXCEPT ![p] = 0]
  /\ inbox' = taken(p)
  /\ UNCHANGED <<pc, phase, think, commit, since, stopped, verdict>>

\* Both slots are there: the reveal goes out, and its answer is awaited.
reveal(p) ==
  /\ pc[p] = "window" /\ commit[p] # {} /\ arrival[p] # {}
  /\ pc' = [pc EXCEPT ![p] = "revealing"]
  /\ inbox' = post(inbox, p, message("reveal", commit[p]))
  /\ quiet' = [quiet EXCEPT ![p] = 0]
  /\ UNCHANGED <<phase, thinking, since, ping_in, stopped, verdict>>

-----------------------------------------------------------------------------
(***************************************************************************)
(* Keepalive traffic, in the window and behind it.                         *)
(***************************************************************************)
Listening(p) == Waiting(p) \/ pc[p] \in {"revealing", "acking"}

take_keepalive(p) ==
  /\ Listening(p) /\ due(p) /\ first(p).type \in {"ping", "pong"}
  /\ inbox' = IF first(p).type = "ping" THEN post(taken(p), p, message("pong", {})) ELSE taken(p)
  /\ quiet' = [quiet EXCEPT ![p] = heard(p, first(p))]
  /\ UNCHANGED <<pc, phase, thinking, since, ping_in, stopped, verdict>>

-----------------------------------------------------------------------------
(***************************************************************************)
(* Reveal and ack.                                                         *)
(***************************************************************************)
\* The claimed time against the arrival as this peer's own clock saw it.
\* Fault: the reveal's arrival is observed in place of the slot's.
observed_late(p) == {since[p]}
observed(p) == arrival[p]

Abs(x) == IF x < 0 THEN -x ELSE x
within_tolerance(p, claim) ==
  \A t \in claim, o \in observed(p) : Abs(t - o) <= d_max + Epsilon

take_reveal(p) ==
  /\ pc[p] = "revealing" /\ due(p) /\ first(p).type = "reveal"
  /\ IF within_tolerance(p, first(p).claim)
     THEN /\ pc' = [pc EXCEPT ![p] = "acking"]
          /\ inbox' = post(taken(p), p, message("ack", {}))
          /\ quiet' = [quiet EXCEPT ![p] = 0]
          /\ UNCHANGED <<phase, thinking, since, ping_in, stopped, verdict>>
     ELSE ends(p, "out_of_tolerance")

next_phase(p) ==
  /\ pc' = [pc EXCEPT ![p] = "window"]
  /\ since' = [since EXCEPT ![p] = 0]
  /\ quiet' = [quiet EXCEPT ![p] = 0]
  /\ \E t \in ThinkTimes : think' = [think EXCEPT ![p] = t]
  /\ commit' = [commit EXCEPT ![p] = {}]
  /\ arrival' = [arrival EXCEPT ![p] = {}]
  /\ ping_in' = [ping_in EXCEPT ![p] = 0]
  /\ inbox' = taken(p)
  /\ phase' = [phase EXCEPT ![p] = @ + 1]
  /\ UNCHANGED <<stopped, verdict>>

take_ack(p) ==
  /\ pc[p] = "acking" /\ due(p) /\ first(p).type = "ack"
  /\ IF phase[p] + 1 = Phases THEN ends(p, "result") ELSE next_phase(p)

\* Fault: the wait for the ack is not bounded.
late_reveal(p) == pc[p] = "revealing" /\ quiet[p] >= TransportTimeout
\* A message the peer should already have sent is late.
late(p) == pc[p] \in {"revealing", "acking"} /\ quiet[p] >= TransportTimeout

timed_out(p) ==
  /\ late(p)
  /\ ends(p, "TransportTimeout")

hear_end(p) ==
  /\ Listening(p) /\ due(p) /\ first(p).type = "eof"
  /\ ends(p, "closed")

-----------------------------------------------------------------------------
Works(p) ==
  \/ send_slot(p) \/ send_ping(p) \/ unresponsive(p) \/ take_slot(p) \/ reveal(p)
  \/ take_keepalive(p) \/ take_reveal(p) \/ take_ack(p) \/ timed_out(p) \/ hear_end(p)

\* Something of p falls due now.
Due(p) ==
  \/ pc[p] = "window" /\ commit[p] = {} /\ since[p] = think[p]
  \/ Waiting(p) /\ (ping_in[p] = 0 \/ quiet[p] >= LivenessDeadline)
  \/ pc[p] = "window" /\ commit[p] # {} /\ arrival[p] # {}
  \/ Listening(p) /\ due(p)
  \/ late(p)

advanced(n) == IF n < MaxWatch THEN n + 1 ELSE n
Running(p) == p \in Awake /\ pc[p] # "over"
tick ==
  /\ \E p \in Peers : Running(p)
  /\ \A p \in Awake : ~ Due(p)
  /\ since' = [p \in Peers |-> IF Running(p) THEN advanced(since[p]) ELSE since[p]]
  /\ quiet' = [p \in Peers |-> IF Running(p) /\ Listening(p) THEN advanced(quiet[p]) ELSE quiet[p]]
  /\ ping_in' = [p \in Peers |-> ping_in[p] - (IF Running(p) /\ Waiting(p) THEN 1 ELSE 0)]
  /\ inbox' = [p \in Peers |->
                 [i \in DOMAIN inbox[p] |-> [inbox[p][i] EXCEPT !.left = IF @ > 0 THEN @ - 1 ELSE 0]]]
  /\ UNCHANGED <<pc, phase, thinking, stopped, verdict>>

stop(p) ==
  /\ MayStop /\ stopped = {} /\ pc[p] # "over"
  /\ stopped' = {p}
  /\ UNCHANGED <<pc, phase, thinking, watches, inbox, verdict>>

Next == tick \/ \E p \in Awake : Works(p) \/ stop(p)

\* Time passes and the event loops keep up with it.
Spec == Init /\ [][Next]_vars /\ WF_vars(tick) /\ WF_vars(\E p \in Awake : Works(p))

-----------------------------------------------------------------------------
\* B5: a peer that is not stopped is never taken for dead, however the two
\* decisions, the keepalive traffic and the exchange behind it fall in time.
NeverTakenForDead ==
  stopped = {} => \A p \in Peers : verdict[p] \notin {"unresponsive", "TransportTimeout"}

\* The comment of _CLOCK_EPSILON: an honest peer, whose claim is its own
\* measurement, is never rejected for it.
NeverWronglyRejected == \A p \in Peers : verdict[p] # "out_of_tolerance"

\* B5: when the other was stopped, a peer does not wait for ever.
SilenceIsNoticed ==
  \A p, q \in Peers : p # q /\ q \in stopped ~> pc[p] = "over"
=============================================================================
