------------------------------- MODULE Session ------------------------------
(***************************************************************************)
(* An online match (net/session.py) between two peers over one duplex      *)
(* stream: handshake, delay measurement of timed matches, and phase by     *)
(* phase the slots, reveals and acks.  A peer is one event loop: the       *)
(* decision runs in a thread of its own (decide) beside the coroutine that *)
(* listens for the other's slot; everything else is one task.              *)
(*                                                                         *)
(* The game is abstract: a state is the sequence of the phases played, for *)
(* phi is a function of them.  A hash is the value it digests.  Time is    *)
(* left to Pace: a peer may give up waiting, or find a claimed time out of *)
(* tolerance, at any moment; such failures are counted and bounded by      *)
(* MaxFaults, as is the cutting of the connection.                         *)
(***************************************************************************)
EXTENDS Handshake, Clock

CONSTANTS
  Peers,           \* the two peers
  Settings,        \* the pairs of command lines a match may be started with
  Decides(_, _, _),\* decisions for this colour after these phases, and whether
                   \*   the peer's draw offer stands
  Legal(_, _, _),  \* check_legal_program finds nothing
  Terminal(_),     \* phi's outcome with its reason after these phases, if any
  ThinkTimes,      \* what a decision may take
  Rounds,          \* _DMAX_ROUNDS
  MaxFaults        \* how often the environment may interfere

ASSUME PeersAssumption  == \E p, q \in Peers : p # q /\ Peers = {p, q}
ASSUME BoundsAssumption == Rounds \in Nat \ {0} /\ MaxFaults \in Nat /\ ThinkTimes \subseteq Nat
ASSUME SettingsAssumption ==
  \A s \in Settings, p \in Peers :
    /\ s[p].color \in Color /\ s[p].nonce \in Nat
    /\ s[p].terms.max_phases \in Nat \ {0}
    /\ s[p].clock \subseteq TimeControl /\ \A a, b \in s[p].clock : a = b

VARIABLES
  conf,     \* how each peer was started
  pc,       \* where its loop stands
  inbox,    \* messages on their way to it, oldest first
  cut,      \* whether the connection is lost
  faults,   \* interferences so far
  round,    \* delay measurements done
  color,    \* the colour it plays
  game,     \* the phases it has resolved
  banks,    \* its copy of the clock
  offers,   \* which draw offers stand, as it sees them
  choice,   \* its decision of this phase, once taken
  slot,     \* the other's slot of this phase, once received
  pending,  \* what it computed and the other has not acknowledged yet
  verdict   \* what run_online_match returned or raised

vars == <<conf, pc, inbox, cut, faults, round, color, game, banks, offers, choice,
          slot, pending, verdict>>

other(p)  == CHOOSE q \in Peers : q # p
timed(p)  == conf[p].clock # {}
control(p) == CHOOSE tc \in conf[p].clock : TRUE

Slots == {"commit", "resign", "abort", "accept_draw"}
result(o, r) == [outcome |-> o, reason |-> r]
error(e)     == [outcome |-> "error", reason |-> e]
wins(c)      == IF c = "W" THEN "white_wins" ELSE "black_wins"

-----------------------------------------------------------------------------
(***************************************************************************)
(* The connection: first in first out each way; what is sent to a peer     *)
(* that has closed is lost.                                                *)
(***************************************************************************)
post(box, p, m) ==
  IF cut \/ pc[other(p)] = "over" THEN box ELSE [box EXCEPT ![other(p)] = Append(@, m)]
arrived(p) == inbox[p] # <<>>
message(p) == Head(inbox[p])
taken(p)   == [inbox EXCEPT ![p] = Tail(@)]

keepalive(t, seq) == [type |-> t, seq |-> seq]
phase(p) == Len(game[p])

Init ==
  /\ conf \in Settings
  /\ pc = [p \in Peers |-> "start"]
  /\ inbox = [p \in Peers |-> <<>>]
  /\ cut = FALSE
  /\ faults = 0
  /\ round = [p \in Peers |-> 0]
  /\ color = [p \in Peers |-> conf[p].color]
  /\ game = [p \in Peers |-> <<>>]
  /\ banks = [p \in Peers |-> {initial_banks(tc) : tc \in conf[p].clock}]
  /\ offers = [p \in Peers |-> {}]
  /\ choice = [p \in Peers |-> {}]
  /\ slot = [p \in Peers |-> {}]
  /\ pending = [p \in Peers |-> {}]
  /\ verdict = [p \in Peers |-> {}]

\* run_online_match returns or raises, and the connection is closed.
ends(p, v) ==
  /\ verdict' = [verdict EXCEPT ![p] = {v}]
  /\ pc' = [pc EXCEPT ![p] = "over"]
  /\ inbox' = [inbox EXCEPT ![p] = <<>>]
  /\ choice' = [choice EXCEPT ![p] = {}]
  /\ slot' = [slot EXCEPT ![p] = {}]
  /\ pending' = [pending EXCEPT ![p] = {}]
settled   == <<choice, slot, pending, verdict>>
terms     == <<conf, cut, faults, round, color>>
standings == <<game, banks, offers>>

(***************************************************************************)
(* Before phase 0.                                                         *)
(***************************************************************************)
greet(p) ==
  /\ pc[p] = "start"
  /\ inbox' = post(inbox, p, to_message(conf[p]))
  /\ pc' = [pc EXCEPT ![p] = "greeting"]
  /\ UNCHANGED <<terms, standings, settled>>

\* A field disagrees, or the colours cannot be told apart.
objections(p) ==
  LET local == to_message(conf[p])
  IN  IF mismatches(local, message(p)) # {} THEN mismatches(local, message(p))
      ELSE IF negotiate_color(local, message(p)) = {} THEN {"ColorNegotiationError"}
      ELSE {}

reject_handshake(p) ==
  /\ pc[p] = "greeting" /\ arrived(p)
  /\ \E e \in objections(p) : ends(p, error(e))
  /\ UNCHANGED <<terms, standings>>

take_handshake(p) ==
  /\ pc[p] = "greeting" /\ arrived(p)
  /\ objections(p) = {}
  /\ \E c \in negotiate_color(to_message(conf[p]), message(p)) :
       color' = [color EXCEPT ![p] = c]
  /\ pc' = [pc EXCEPT ![p] = IF timed(p) THEN "measuring" ELSE "deciding"]
  /\ inbox' = IF timed(p) THEN post(taken(p), p, keepalive("ping", {0})) ELSE taken(p)
  /\ UNCHANGED <<conf, cut, faults, round, standings, settled>>

\* Fault: the last answer throws away what came behind it.
measure_and_flush(p) ==
  /\ pc[p] = "measuring" /\ arrived(p)
  /\ LET m    == message(p)
         mine == m.type = "pong" /\ m.seq = {round[p]}
         next == round[p] + 1
     IN  /\ round' = [round EXCEPT ![p] = IF mine THEN next ELSE @]
         /\ pc' = [pc EXCEPT ![p] = IF mine /\ next = Rounds THEN "deciding" ELSE @]
         /\ inbox' = IF m.type = "ping" /\ m.seq # {}
                     THEN post(taken(p), p, keepalive("pong", m.seq))
                     ELSE IF mine /\ next < Rounds
                     THEN post(taken(p), p, keepalive("ping", {next}))
                     ELSE [inbox EXCEPT ![p] = <<>>]
  /\ UNCHANGED <<conf, cut, faults, color, standings, settled>>

\* One message of the delay measurement; what it does not expect is dropped.
measure(p) ==
  /\ pc[p] = "measuring" /\ arrived(p)
  /\ LET m    == message(p)
         mine == m.type = "pong" /\ m.seq = {round[p]}
         next == round[p] + 1
     IN  /\ round' = [round EXCEPT ![p] = IF mine THEN next ELSE @]
         /\ pc' = [pc EXCEPT ![p] = IF mine /\ next = Rounds THEN "deciding" ELSE @]
         /\ inbox' = IF m.type = "ping" /\ m.seq # {}
                     THEN post(taken(p), p, keepalive("pong", m.seq))
                     ELSE IF mine /\ next < Rounds
                     THEN post(taken(p), p, keepalive("ping", {next}))
                     ELSE taken(p)
  /\ UNCHANGED <<conf, cut, faults, color, standings, settled>>

-----------------------------------------------------------------------------
(***************************************************************************)
(* The decision window: the thinking thread and the listening coroutine.   *)
(***************************************************************************)
think(p) == IF timed(p) THEN {{t} : t \in ThinkTimes} ELSE {{}}
commitment(d) == [program |-> d.program, elapsed |-> d.elapsed]
slot_message(p, d) ==
  IF d.kind = "commit"
  THEN [type |-> "commit", phase |-> phase(p), hash |-> commitment(d), offer |-> d.offer]
  ELSE [type |-> d.kind, phase |-> phase(p)]
reveal_message(p, d) ==
  [type |-> "reveal", phase |-> phase(p), program |-> d.program, elapsed |-> d.elapsed]

\* Fault: the reveal goes out with the commitment.
decide_and_show(p) ==
  /\ pc[p] = "deciding" /\ choice[p] = {}
  /\ \E d \in Decides(color[p], game[p], other(p) \in offers[p]), t \in think(p) :
       LET mine == [d EXCEPT !.elapsed = t]
       IN  /\ choice' = [choice EXCEPT ![p] = {mine}]
           /\ inbox' = post(post(inbox, p, slot_message(p, mine)), p, reveal_message(p, mine))
  /\ UNCHANGED <<pc, terms, standings, slot, pending, verdict>>

\* The thread returns, and the slot is sent.
decide(p) ==
  /\ pc[p] = "deciding" /\ choice[p] = {}
  /\ \E d \in Decides(color[p], game[p], other(p) \in offers[p]), t \in think(p) :
       LET mine == [d EXCEPT !.elapsed = t]
       IN  /\ choice' = [choice EXCEPT ![p] = {mine}]
           /\ inbox' = post(inbox, p, slot_message(p, mine))
  /\ UNCHANGED <<pc, terms, standings, slot, pending, verdict>>

\* Keepalive: at most one ping of a peer is unanswered at a time.
unanswered(p) ==
  \/ \E i \in DOMAIN inbox[other(p)] : inbox[other(p)][i].type = "ping"
  \/ \E i \in DOMAIN inbox[p] : inbox[p][i].type = "pong"
ping(p) ==
  /\ pc[p] = "deciding" /\ slot[p] = {}
  /\ ~ unanswered(p)
  /\ inbox' = post(inbox, p, keepalive("ping", {}))
  /\ UNCHANGED <<pc, terms, standings, settled>>

\* The loop receives in the window until the slot is there, and afterwards
\* again while it waits for the reveal and the ack.
Listening(p) == \/ pc[p] = "deciding" /\ slot[p] = {}
                \/ pc[p] \in {"revealing", "acking"}

answer_ping(p) ==
  /\ Listening(p) /\ arrived(p) /\ message(p).type = "ping"
  /\ inbox' = post(taken(p), p, keepalive("pong", {}))
  /\ UNCHANGED <<pc, terms, standings, settled>>

skip_pong(p) ==
  /\ Listening(p) /\ arrived(p) /\ message(p).type = "pong"
  /\ inbox' = taken(p)
  /\ UNCHANGED <<pc, terms, standings, settled>>

\* Fault: keepalive traffic is not skipped.
any_message(p) == arrived(p)
Substance(p) == arrived(p) /\ message(p).type \notin {"ping", "pong"}

take_slot(p) ==
  /\ pc[p] = "deciding" /\ slot[p] = {} /\ Substance(p)
  /\ message(p).type \in Slots
  /\ slot' = [slot EXCEPT ![p] = {message(p)}]
  /\ inbox' = taken(p)
  /\ UNCHANGED <<pc, terms, standings, choice, pending, verdict>>

\* What two slots come to: a result, an error, or nothing if both committed.
resolve_slots(local, remote, c, local_offer_standing, peer_offer_standing) ==
  IF "abort" \in {local, remote} THEN {result("draw", "abort")}
  ELSE IF "resign" \in {local, remote}
  THEN {result(IF local = remote THEN "draw"
               ELSE IF local = "resign" THEN wins(opponent(c))
               ELSE wins(c), "resignation")}
  ELSE IF "accept_draw" \in {local, remote}
  THEN {IF IF local = "accept_draw" THEN peer_offer_standing ELSE local_offer_standing
        THEN result("draw", "draw_agreement") ELSE error("ProtocolError")}
  ELSE {}

slots_verdict(p, local, remote) ==
  LET v == resolve_slots(local.kind, remote.type, color[p], p \in offers[p],
                         other(p) \in offers[p])
  IN  IF v = {} /\ remote.phase # phase(p) THEN {error("ProtocolError")} ELSE v

\* Both slots are there: the match ends, or the program is revealed.
close_match(p) ==
  /\ pc[p] = "deciding"
  /\ \E d \in choice[p], m \in slot[p] : \E v \in slots_verdict(p, d, m) : ends(p, v)
  /\ UNCHANGED <<terms, standings>>

\* A draw offer stands until the other's next slot.
offers_of(p, local, remote) == {q \in Peers : IF q = p THEN local.offer ELSE remote.offer}

reveal(p) ==
  /\ pc[p] = "deciding"
  /\ \E d \in choice[p], m \in slot[p] :
       /\ slots_verdict(p, d, m) = {}
       /\ offers' = [offers EXCEPT ![p] = offers_of(p, d, m)]
       /\ inbox' = post(inbox, p, reveal_message(p, d))
  /\ pc' = [pc EXCEPT ![p] = "revealing"]
  /\ UNCHANGED <<terms, game, banks, settled>>

-----------------------------------------------------------------------------
(***************************************************************************)
(* Reveal, adjudication, phi and acknowledgement.                          *)
(***************************************************************************)
\* Both programs, and both times of a timed match, by colour.
by_color(p, mine, theirs) == [c \in Color |-> IF c = color[p] THEN mine ELSE theirs]

spoiled(p, d, m, s) ==
  \/ m.type # "reveal" \/ m.phase # phase(p)
  \/ commitment(m) # s.hash
  \/ timed(p) /\ {} \in {d.elapsed, m.elapsed}

\* Fault: each peer holds the other alone to the rules.
blames_the_other(p, d, m) ==
  IF Legal(game[p], m.program, opponent(color[p])) THEN {}
  ELSE {result(wins(color[p]), "illegal_program")}
\* A program that L rejects forfeits its sender.
adjudicate_legality(p, d, m) ==
  LET bad == {c \in Color : ~ Legal(game[p], by_color(p, d.program, m.program)[c], c)}
  IN  IF bad = {} THEN {}
      ELSE {result(IF bad = Color THEN "draw" ELSE wins(CHOOSE c \in Color : c \notin bad),
                   "illegal_program")}

times(p, d, m) ==
  by_color(p, CHOOSE t \in d.elapsed : TRUE, CHOOSE t \in m.elapsed : TRUE)
fallen(p, d, m) ==
  UNION {flagged(b, times(p, d, m)) : b \in banks[p]}
ledger(p, d, m) ==
  {clock_entry(b, control(p), times(p, d, m), phase(p)) : b \in banks[p]}

\* Fault: one phase too many is played.
limit_passed(p, n) == IF n > conf[p].terms.max_phases THEN {result("draw", "phase_limit")} ELSE {}
limit(p, n) == IF n = conf[p].terms.max_phases THEN {result("draw", "phase_limit")} ELSE {}

\* A fallen flag ends the match before phi; otherwise phi or the phase limit may.
computed(p, d, m) ==
  IF fallen(p, d, m) # {}
  THEN [game    |-> game[p],
        ledger  |-> ledger(p, d, m),
        verdict |-> {result(IF fallen(p, d, m) = Color THEN "draw"
                            ELSE wins(CHOOSE c \in Color : c \notin fallen(p, d, m)), "timeout")}]
  ELSE LET played == Append(game[p], [programs |-> by_color(p, d.program, m.program),
                                      clock    |-> ledger(p, d, m)])
       IN  [game    |-> played,
            ledger  |-> ledger(p, d, m),
            verdict |-> IF Terminal(played) # {} THEN Terminal(played)
                        ELSE limit(p, Len(played))]

state_hash(g) == [i \in DOMAIN g |-> g[i].programs]
ack_message(p, r) ==
  [type |-> "ack", phase |-> phase(p), state_hash |-> state_hash(r.game), clock_hash |-> r.ledger]

forfeit(p) ==
  /\ pc[p] = "revealing" /\ Substance(p)
  /\ \E d \in choice[p], s \in slot[p] :
       LET m == message(p)
       IN  IF spoiled(p, d, m, s) THEN ends(p, error("ProtocolError"))
           ELSE \E v \in adjudicate_legality(p, d, m) : ends(p, v)
  /\ UNCHANGED <<terms, standings>>

acceptable(p, d, m, s) == ~ spoiled(p, d, m, s) /\ adjudicate_legality(p, d, m) = {}

take_reveal(p) ==
  /\ pc[p] = "revealing" /\ Substance(p)
  /\ \E d \in choice[p], s \in slot[p] :
       LET r == computed(p, d, message(p))
       IN  /\ acceptable(p, d, message(p), s)
           /\ pending' = [pending EXCEPT ![p] = {r}]
           /\ inbox' = post(taken(p), p, ack_message(p, r))
  /\ pc' = [pc EXCEPT ![p] = "acking"]
  /\ UNCHANGED <<terms, standings, choice, slot, verdict>>

confirms(p, r, m) == m = ack_message(p, r)

\* What was computed takes effect once the other has computed the same.
take_ack(p) ==
  /\ pc[p] = "acking" /\ Substance(p)
  /\ \E r \in pending[p] :
       IF ~ confirms(p, r, message(p))
       THEN ends(p, error("ProtocolError")) /\ UNCHANGED <<game, banks>>
       ELSE /\ game' = [game EXCEPT ![p] = r.game]
            /\ banks' = [banks EXCEPT ![p] = {e.after : e \in r.ledger}]
            /\ \/ \E v \in r.verdict : ends(p, v)
               \/ /\ r.verdict = {}
                  /\ pc' = [pc EXCEPT ![p] = "deciding"]
                  /\ inbox' = taken(p)
                  /\ choice' = [choice EXCEPT ![p] = {}]
                  /\ slot' = [slot EXCEPT ![p] = {}]
                  /\ pending' = [pending EXCEPT ![p] = {}]
                  /\ UNCHANGED verdict
  /\ UNCHANGED <<terms, offers>>

-----------------------------------------------------------------------------
(***************************************************************************)
(* Interference, and how it ends a match.                                  *)
(***************************************************************************)
Receiving(p) == pc[p] \in {"greeting", "measuring"} \/ Listening(p)

\* The connection is lost with a part of what was on its way.
sever ==
  /\ ~ cut /\ faults < MaxFaults
  /\ cut' = TRUE
  /\ faults' = faults + 1
  /\ \E n \in [Peers -> 0..2] :
       inbox' = [p \in Peers |-> SubSeq(inbox[p], 1, IF n[p] < Len(inbox[p]) THEN n[p]
                                                     ELSE Len(inbox[p]))]
  /\ UNCHANGED <<conf, pc, round, color, standings, settled>>

\* Nothing arrives for as long as the peer is willing to wait.
give_up(p) ==
  /\ Receiving(p) /\ ~ arrived(p) /\ faults < MaxFaults
  /\ faults' = faults + 1
  /\ ends(p, error("TransportTimeout"))
  /\ UNCHANGED <<conf, cut, round, color, standings>>

\* The time the other claims is too far from what was observed.
reject_time(p) ==
  /\ pc[p] = "revealing" /\ Substance(p) /\ timed(p) /\ faults < MaxFaults
  /\ \E d \in choice[p], s \in slot[p] : acceptable(p, d, message(p), s)
  /\ faults' = faults + 1
  /\ ends(p, error("ProtocolError"))
  /\ UNCHANGED <<conf, cut, round, color, standings>>

\* The stream has ended: the other closed it, or it was cut.
hear_end(p) ==
  /\ Receiving(p) /\ ~ arrived(p)
  /\ cut \/ pc[other(p)] = "over"
  /\ ends(p, error("ProtocolError"))
  /\ UNCHANGED <<terms, standings>>

Works(p) ==
  \/ greet(p) \/ reject_handshake(p) \/ take_handshake(p) \/ measure(p)
  \/ answer_ping(p) \/ skip_pong(p) \/ take_slot(p)
  \/ close_match(p) \/ reveal(p) \/ forfeit(p) \/ take_reveal(p) \/ take_ack(p)
  \/ hear_end(p)

Next ==
  \/ \E p \in Peers : Works(p) \/ decide(p) \/ ping(p) \/ give_up(p) \/ reject_time(p)
  \/ sever

(***************************************************************************)
(* Each event loop runs whenever it can, and a decider answers in the end. *)
(* Nothing forces a ping, a timeout or a cut.                              *)
(***************************************************************************)
Fairness == \A p \in Peers : WF_vars(Works(p)) /\ WF_vars(decide(p))
Spec == Init /\ [][Next]_vars /\ Fairness

-----------------------------------------------------------------------------
Errors == [outcome : {"error"},
           reason : {Mismatch[f] : f \in DOMAIN Mismatch}
                      \cup {"ColorNegotiationError", "ProtocolError", "TransportTimeout"}]
Results == [outcome : {"white_wins", "black_wins", "draw"},
            reason : {"regicide", "repetition", "no_progress", "resignation", "timeout",
                      "illegal_program", "abort", "draw_agreement", "phase_limit"}]

\* Types of a peer's loop.
TypeOK ==
  /\ pc \in [Peers -> {"start", "greeting", "measuring", "deciding", "revealing", "acking", "over"}]
  /\ faults \in 0..MaxFaults
  /\ round \in [Peers -> 0..Rounds]
  /\ color \in [Peers -> Color]
  /\ offers \in [Peers -> SUBSET Peers]
  /\ \A p \in Peers :
       /\ verdict[p] \subseteq Errors \cup Results
       /\ pc[p] = "over" <=> verdict[p] # {}
       /\ phase(p) <= conf[p].terms.max_phases
       /\ pc[p] \in {"revealing", "acking"} => choice[p] # {} /\ slot[p] # {}
       /\ pc[p] = "acking" <=> pending[p] # {}

\* The match keeps what Promise states, whatever is lost or late.
Abstract == INSTANCE Promise WITH games <- game, verdicts <- verdict
Promised == Abstract!Spec

\* B2 of the commit-reveal contract: a program is on its way to a peer only
\* when that peer's own decision of the phase is already taken.
Sealed ==
  \A p \in Peers : \A i \in DOMAIN inbox[p] :
    inbox[p][i].type = "reveal" => choice[p] # {}

\* The two were started alike and can tell their colours apart.
Compatible ==
  \E p, q \in Peers :
    /\ p # q
    /\ conf[p].terms = conf[q].terms /\ conf[p].clock = conf[q].clock
    /\ conf[p].color # conf[q].color \/ conf[p].nonce # conf[q].nonce

\* Without interference the protocol never fails on its own: no stray ping,
\* early slot, expired offer, closing peer or forfeit is taken for an error.
NeverFailsAlone ==
  faults = 0 /\ Compatible => \A p \in Peers : verdict[p] \cap Errors = {}

\* Peers of which the handshake compares something different, which cannot tell
\* their colours apart, or of which one alone is timed, never bring a match to a
\* result.  Nothing compares two clocks, so two timed peers may abort or resign.
Playable ==
  \E p, q \in Peers :
    /\ p # q
    /\ \A i \in DOMAIN Agreed : conf[p].terms[Agreed[i]] = conf[q].terms[Agreed[i]]
    /\ conf[p].color # conf[q].color \/ conf[p].nonce # conf[q].nonce
    /\ timed(p) <=> timed(q)
OnlyCompatiblePlay ==
  \A p \in Peers : verdict[p] \cap Results # {} => Playable

\* C4 and C5: time is left to both while play goes on (from a bank that holds
\* any), whoever loses on time has none left and a winner has some; a phase pays a
\* bonus to the faster of the two alone and, but for the rule that pays the winner
\* all of it, never more than the time it saved.
TimeAccounts ==
  \A p \in Peers : \A tc \in conf[p].clock :
    /\ \A b \in banks[p] :
         /\ tc.initial_bank > 0 => \A c \in Color :
              b[c] > 0 \/ \E v \in verdict[p] : v.reason = "timeout" /\ v.outcome # wins(c)
         /\ \A v \in verdict[p] : v.reason = "timeout" => \E c \in Color : b[c] <= 0
    /\ \A i \in DOMAIN game[p] : \A e \in game[p][i].clock, c \in Color :
         e.bonus[c] > 0 =>
           /\ e.bonus[opponent(c)] = 0 /\ e.think[c] < e.think[opponent(c)]
           /\ tc.bonus_rule # "winner_take_all" =>
                e.bonus[c] <= e.think[opponent(c)] - e.think[c]

\* Every match between compatible peers that is left alone ends for both.
MatchEnds ==
  [](faults = 0) /\ Compatible => <>(\A p \in Peers : pc[p] = "over")
=============================================================================
