# A verification project for simult-chess

simult-chess is a chess variant in which both players declare a program of up
to N actions at the same time and one operator, Φ, resolves the pair of
programs into the next state. The referee, the terminal and window interfaces,
the agents, the records and an online session between two peers all work on
what Φ makes of those programs. This directory models them in TLA+, checks the
models with TLC on small instances, and proves with TLAPS what every match of Φ,
its hardest stage step by step, a game at the window or the terminal, a whole
online match with its clock and its deadlines, the relay and the campaign's
checkpoint keep true for every instance. Paths below are relative to
`src/src/simult_chess/` unless they start with `docs/`.

## 1. Inventory

| Part | Source | State it keeps | Operations | What makes it correct |
|---|---|---|---|---|
| geometry, collisions | `core/types.py`, `core/geometry.py`, `core/collision.py` | none (pure) | trajectories, capturing patterns, castling, conflicts, colour swap | movers that pass through each other are noticed |
| legality | `core/legality.py`, `core/moves.py` | none | L1-L6, the two existence checks, expansion into moves | the existence checks agree with L; nobody is ever without a program |
| stage F | `core/stages/fizzle.py` | none | F1, F2 | no two tokens end on one square |
| stage A | `core/stages/annihilate.py` | dead moves | greedy matching by rank | one for one, survivors do not meet |
| stage B | `core/stages/defense.py`, `defense_seq.py` | occupancy, live tokens, fired defenders, logs, a status per contested square | `resolve_square`, `victim_present`, `find_valid_defender` | each token dies once, each defender fires once, the board matches the logs, the recursion ends |
| closure | `core/stages/closure.py` | none | promotion, cooldown, rights, reservations, ledger, progress, terminal test | cooldown is exactly the displaced; reservations name live tokens where they stood |
| Φ | `core/phi.py` | none | the stages in order | the trace explains every change |
| referee | `referee/match.py`, `setup.py`, `observe.py` | state, outcome, phase records | `play_match` | who wins, and that play goes on |
| records | `referee/record.py`, `record_cli.py` | a text | build, write, read, replay | a record replays to its own game |
| invariant harness | `invariants/*.py` | none | re-checks each phase | silent on what Φ does |
| rule set | `rules/*.py` | none | switches, registry, fingerprint | a switch changes what it says |
| interfaces | `ui/*.py` | state, mode, selection, program under construction | clicks, add, undo, submit, overlay | only current, legal programs reach Φ; the overlay hides no threat |
| agents, self-play | `agents/*.py`, `harness/selfplay.py` | random generators | pick a program, play a game | only legal programs |
| campaign | `harness/campaign.py` | results, a checkpoint file | play specs, write, resume | each game once, whatever interrupts it |
| online session | `net/session.py`, `protocol.py`, `commitment.py`, `transport.py` | phase, banks, two draw-offer flags, one FIFO stream each way | commit, keepalive, reveal, verify, ack, resign, abort, offer, accept | both peers record the same result, or nothing but errors |
| handshake | `net/handshake.py` | greeting, nonce | compare rules and position, settle the colours | one White and one Black |
| clock | `net/clock.py` | two banks | bonus, increment, flag fall | a fallen flag stays fallen |
| relay | `net/relay.py` | waiting peers by room, two pipes per pair | pair, pipe, close | verbatim; nobody plays against a dead peer |
| solver, interop, learning | `solver/`, `interop/`, `learn/` | matrices, networks | numeric optimisation | numeric accuracy |

How the parts meet: the referee, the interfaces and each peer of a session call
`phi` with a state and two programs; `phi` calls L on both, then stages F, A, B,
C and D. In the core there is no concurrency: what is hard there is *order* -
the declared order of the actions, the order in which contested squares are
resolved, and logs and snapshots taken before an event and used after it. The
window adds a state that outlives the click that made it. Concurrency, lost
connections and timeouts are in `net/`; interruption and restart in the
campaign. PROJECT.json lists each hazard at its line with the properties that
would catch it.

## 2. Modules

    Players - Geometry - Legality - Resolution - Closure - Phi
                                        |
                                        `- Cascade -+- MCCascade
                                                    `- CascadeProofs
    Phi -+- Positions, Mirror, Invariants, Record, PhiProofs
         `- Referee -+- Match ------+- MCMatch
                     |              `- MatchProofs
                     `- LocalPlay --+- MCLocal
                                    `- LocalProofs
    Handshake, Clock - Session -+- MCSession
                                `- SessionProofs
    Pace ----+- MCPace           Campaign +- MCCampaign
             `- PaceProofs                `- CampaignProofs
    Relay ---+- MCRelay
             `- RelayProofs

A module extends what stands to its left. Match also extends Mirror, Invariants
and Record, LocalPlay extends Record, MCMatch, MCLocal and MCCascade extend
Positions, and MatchProofs, LocalProofs and CascadeProofs extend PhiProofs. Session instantiates
Promise, the specification it implements.

**Players, Geometry, Legality** - colours, squares, tokens, trajectories,
conflicts, castling; the fields of a state, the four actions, L1 to L6. The
code's board is 8 x 8; `MaxFile` and `MaxRank` are constants. The rule-set
switches are constants too. A token is a record (identity, colour, type): as in
the code, a promotion makes a different value with the same identity, which is
why reservations must be refreshed.

**Resolution, Closure, Phi** - stages F, A, B in both readings, stages C and D,
and the transition with its trace. Optional results of the code (`None` or a
value) are sets of at most one element. Dictionaries iterated in insertion order
are sequences. Recursion is written with recursive functions of an explicit
depth.

**Mirror, Invariants, Record** - the colour swap of `collision.py`, every check
of the harness as the condition under which it reports nothing, and the writing,
reading and replaying of games. Tokens are values in the model. In the code they
are objects that compare by value, but for one test of stage B
(`defense.py:90`, `is`). In a match the two agree: actions and
reservations name the board's own tokens, and `refresh_reservation_tokens`
restores that after each phase. The colour swap makes new tokens everywhere, so
Mirror has its own `phi_of_copies`, in which that test finds nothing and the
recursion may not return.

**Referee** - one game, whoever drives it: `begins_in`, a phase of two programs
(`plays`), and `phase_limit`, the `else` of the loop in `play_match`. `last` holds
the last phase's programs and trace (the loop's `PhaseRecord`). **Match** -
`play_match`: `play_phase` lets two agents choose any legal programs over a menu
of actions. **Positions** has starting positions and menus.

**Cascade** - stage B of reading ii as a state machine: `ctx` the arguments,
`st` the running state, `stack` the open calls of `resolve_square`, `fight` the
locals of the innermost `while True` loop, `raised` a RecursionError.

| Action | Code (`core/stages/defense.py`) |
|---|---|
| `visit` | the outer `for square in order` calls `resolve_square` |
| `descend` | `victim_present` calls `resolve_square` on a square its victim may leave for |
| `overflow` | that call at the interpreter's limit |
| `miss` | `victim_present` is false: the attacker takes an empty square |
| `strike` | the victim is removed and logged |
| `fire` | `find_valid_defender` found a reservation: one turn of the loop |
| `settle` | none found: `status[square] = "resolved"` |

**LocalPlay** - games at one machine. One action per click handler of the
window (`click_move`, `click_reserve`, `click_cancel`, `undo`, `set_mode`,
`submit`, ...), and the loops of the terminal, of `play_match` and of self-play
with either agent. A random choice is any choice. Whatever the interface, its
`state`, `outcome`, `played` and `last` are those of Referee.

**Session** - two peers, each an event loop, and the thread in which a decision
is taken. `inbox[p]` is the stream towards `p`, first in first out.

| Actions | Code (`net/session.py`) |
|---|---|
| `greet`, `take_handshake`, `reject_handshake` | the exchange of hellos, with Handshake |
| `measure` | the delay measurement of timed matches |
| `decide`, `ping`, `answer_ping`, `skip_pong`, `take_slot` | the decision window, `_keepalive_until_slot` beside the decision thread |
| `close_match`, `reveal` | both slots are there |
| `forfeit`, `take_reveal`, `take_ack` | reveal, legality, clock, `phi`, acknowledgement |
| `hear_end`, `give_up`, `reject_time` | end of stream, timeouts, an elapsed time out of tolerance |
| `sever` | the environment: the connection is lost with part of what was on its way |

In Session a game is the sequence of its phases, since `phi` is a function of
them; a hash is the value it digests. **Promise** is what a match promises its
players: two games that are prefixes of one another, and verdicts that agree
unless one is an error. **Handshake** and **Clock** are the operators of their
files. **Pace** is the same session as a matter of time: ticks, message delay,
keepalive, deadlines, tolerance, and a peer that is stopped with its connection
open.

**Relay** - connections that name a room, are paired and piped; a client may
hang up at any moment, also while it waits. **Campaign** - the pool, the
checkpoint with the moment in which its file is empty, interruptions and
`--resume`.

Definitions introduced by a comment `Fault:` are deliberately wrong variants of
the definition that follows. Nothing refers to them. Each is the way that
definition could plausibly have been programmed wrongly; substituting it makes a
property fail, and PROJECT.json says which.

## 3. Abstraction

Identities are numbers of a small set, wording is left out, the public position
key is the set of what it would list. The message of a violation is not
modelled, whether there is one is. `phi` raises on an illegal program and is
undefined there; who may hand one in is the subject of LocalPlay and Session.
`annihilation_reading` has one implementation and is no constant. Python's
recursion limit is the constant `RecursionLimit`.

The models of `phi` and of the records were compared with the program on random
positions and programs in both readings: same board, cooldown, reservations,
rights, counters, outcome and logs.

## 4. Runs

Unless the table says otherwise a run fixes the v1 rule set (reading ii,
recapture and king-capture cooldown and cancellation on, `both_pawns`) but for N
and the horizon. All runs except `campaign` set `CHECK_DEADLOCK FALSE`: a
finished match, call or pair of streams stops. A campaign may always be started
again.

| Run | Instance | Shows |
|---|---|---|
| `close` | 4 x 4, N = 2, reading i and `any_same_square`; fights over defended squares for two phases, exposed kings, blocked pawns and cooled companions in nine positions for one; 20 905 states | what cools is exactly what changed its square; the safety valve leaves nobody without a program; a defender struck first does not fire |
| `clash` | 8 x 8, N = 2; fights over defended squares for two phases, pawns and castling for one; 20 875 states | deaths and displacements are in the trace and conversely, reservations stay well-formed, cooled tokens are inert, the harness is silent, the record replays, and colours may be exchanged but for the two cases of section 6 |
| `cascade` | 4 x 4; up to two attacks on three pieces in declared order, three in any order; every sequence of up to three reservations; 204 054 states | the recursion computes the cascade `phi` uses and returns; the inductive invariant's four consequences; precedence and mutual defence |
| `session` | eight pairs of command lines, alike and not, timed and not, one with different time controls; two phases, one interference; 263 210 states | nobody fails on its own account; results agree with Promise; programs stay sealed; peers that do not fit reach no result; the banks add up; the match ends |
| `pace` | delay 1, keepalive 2, liveness deadline 6, transport timeout 5, two phases, thinking 5, 6 or 8 ticks; 107 061 states | as long as no player thinks past the deadline after the other's slot, nobody is taken for dead, no honest time is rejected, and a stopped peer is noticed |
| `local` | 5 x 4 and 4 x 4, reading i, N = 2, horizon 2; window, terminal, `play_match`, self-play; 10 449 states | each game is played as `play_match` plays; the window never acts on a past position; the overlay hides no threat; games are decided |
| `relay` | three connections, one room and the empty one, two bytes of one client and one of the others; 47 118 states | piped bytes are verbatim and arrive; a pair ends together, also when one hung up before it was paired |
| `campaign` | three specs of 3, 1 and 3 games; 178 states | no readable checkpoint holds part of a spec; the campaign completes unless the file itself was torn |
| `colour`, `king`, `recursion`, `keepalive` | as small as shows it | *violated*: section 6 |

Why the bounds are enough. Two phases let a phase act on what the previous one
left (cooldown, standing and refreshed reservations, a thawed king, a draw offer
from one phase to the next); the positions start in phase 1 with reservations
from phase 0, so that old and new ones meet in the first phase. Two actions per
colour are the v1 rule and the least number for which declared order,
annihilation cycles and simultaneous batteries exist. Three victims are the
least number for a ring of defences: a ring descends for ever, an acyclic order
of three batteries at most three deep, so a recursion limit of six separates the
two. Castling keeps the coordinates of the 8 x 8 board; a board of five files has
room for the queen's side. In
`session` one interference is enough to lose any single message, answer or
connection at any point of the match; the second phase shows what the first left
behind in the streams. In `pace` the proportions of the constants are those of
the code's defaults, and they satisfy the hypotheses of PaceProofs (two delays
are within the tolerance of one and `Epsilon`; a gap of two and the slowest
decision after the quickest is 2 + 8 - 5 < 6), but with room for thinking times
that differ and for a message in flight at every moment. Three connections are the least
number for a third to disturb a pair.

Fairness. A single thread runs on: weak fairness of `Next` in Cascade. Match
states none. In Session each peer's event loop works whenever it
can and a decider answers in the end; nothing forces a ping, a timeout or a cut.
In Pace time goes on and the loops of awake peers work; a stopped peer does
nothing. In LocalPlay loops do not rest, and a human at the window keeps handing
in programs. In Relay the loop goes on while any task of it can and the network
delivers to clients that are there; clients owe nothing. In Campaign the
operator starts the program whenever it will start, with `--resume` from some
time on, and interruptions leave it time now and then to finish a spec: without
that last assumption a campaign killed in every spec never ends.

Refinements. `PlaysMatch` (LocalPlay) says that window, terminal, referee and
self-play start and move a game only as the referee does, by phases of two legal
programs and the phase limit. `Promised`
(Session) checks that the messages implement Promise, under cuts and timeouts.
`ComputesStageB` ties the step-by-step cascade to the operator `phi` uses. All
three are also proved.

## 5. Proofs

**MatchProofs** proves eleven properties of Match for every board size, rule set,
number of actions and of phases, both readings, and agents that may pick any
legal program: every property that `clash` and `close` check but two. Besides
the assumptions on the sizes it rests on `StartsAssumption`: in each starting
position the board is sound, what is cooled is alive, the reservations and the
castling rights fit the board, and each colour has a legal program. TLC
evaluates it on every position of the MCMatch runs. It is needed: `phi` keeps
these, it does not establish them, and a custom position may break them.

The inductive invariant `IInv` is `WellFormed(state)` (in Phi) - the board (`SoundBoard`), the
cooldown among the living, the reservations (`Standing`) and the kings that may
castle (`KingsHome`), that is WF1 to WF7 - and that each colour
`has_any_legal_program` while the game goes on. None of these stands alone. That
a reservation still names live tokens after a phase rests on where survivors,
defenders and dead ended up, that on the board being sound, and the board on no
two moves ending on one square, for castling on the king being where the right
says. `KingsHome` also has to say that the king is *not cooled*: a castling king
is otherwise a mover that L4 would reject, and the safety valve would count a
castle that nobody may declare. The last step of the valve (`FreeKing`) is that
a king which is not cooled always has a program: beside it is a square to step
onto, or a piece of its own to defend or be defended by.

`After` (in PhiProofs) says what a phase does, part by part: the survivors, the
logs, the new board, the displaced, the cooled, the reservations, the rights.
`PhaseIs` proves it of `phi`; that a phase keeps `IInv`, and each action
property (`NothingLost`, `CooledInert`, `CooledExactly`, `ReservationSquares`,
`DefuseFirst`), follows from it and from the invariant of stage B.

`HarnessSilent` says that each rule of the harness passes on each phase and on
each position it leaves. The harness reads the phase back from its trace, so
`Reports` first says what `phi` writes there, and `MovesAre` and the lemmas
after it what stages F and A did in the harness's terms. R1 is the long one: of
each pawn's capture fizzled by F1 the target must be among the moves that
execute. `resolve_fizzles` decides along a chain, since the target may itself be
a pawn's capture that waits for its own target. The model follows such chains
level by level, `executes[depth]`, for as many levels as there are moves, and
takes the last level; R1 holds because the last two agree. Of captures that do
not exchange, each next one goes on towards the same side of the board
(`ChainGoesOn`), so fewer moves are ahead at each link and a chain ends before
the levels do (`ChainStable`). The theorem has three hypotheses. The harness
must accept the starting positions; with that, `HInv` (`IInv`, and the harness
accepts the current state) is inductive. `N <= BlackAgeOffset`: `phi` gives
Black's reservations of a phase ages from 1 000 000 on, and a White one of that
place would be given the same, against WF5. And cancellation is on or nobody
cancels: with it off, legality accepts a Cancel all the same (section 6), `phi`
ignores it, and R17 reports it. TLC evaluates the three on the constants of each
MCMatch run.

**PhiProofs** has what `After` rests on: what two legal programs come to as
declared moves, that the survivors of stage A neither end on one square nor cross
whatever the greedy matching picks, and the invariant of stage B. `Running` says
it for a set D of batteries already resolved: each square is held by a live
token, by who fired onto it or by who held it from the start (`Placed`); the dead
fell on a square of D, as its victim, its attacker or a defender that had fired
there (`Fallen`); a recapture is of a token just captured there by a live, free
and unmoved defender, which fires once (`Fired`); and outside D nothing has
happened yet (`Untouched`). One recapture keeps it, so a battle on one square does,
so each of the two orders in which the readings resolve squares does. For
reading i, `Closed` and `Defused` add that the order follows the attackers', with
which `DefuseFirst` says that a defender struck first does not fire.

Stages F, A and B are loops, written with folds and recursive functions. A
property of such a loop is proved from its invariant: a function with the
loop's equation exists for any number of turns (the lemmas `...Exists`), and what
holds of the first turn and is kept by the equation holds of the last (`Induct`,
`InductTo`). Those two come from the least element of a set of naturals
(`LeastNat`), which the library's theorem on the well-founded order of finite
sets gives without an operator for a parameter.

**LocalProofs** proves the safety properties of LocalPlay for every board, rule
set, setup and set of squares clicked. `LocalAssumption` asks that a window has
exactly one human and that a game starts from a state that is `WellFormed`; TLC
evaluates it on every setup of MCLocal. `BuilderKept` is the long one: that the
program under construction is legal so far is not inductive, since `undo` goes
back to any earlier one, and the window asks `check_partial_program` about a
*draft*, which never declares a promotion, so it would have to be asked of the
program as it will be handed in. `SoFar` says it of every prefix, with its pawns
promoted. A click is then one action more (`SoFarGrows`), which rests on two
facts about the code: the trajectory that `_build_move` looks up for the clicked
square is the one the highlighted square was computed from, because a token has
only one trajectory to a square (`OnePath`), and what a pawn is promoted to
changes no other check (`PromotionIsFree`). `EveryFrontEndPlaysMatch` is the
refinement `PlaysMatch`: both agents return programs of their own colour's
actions (`AgentActs`), so that whatever is resolved was checked as legal.
`OverlayMissesNothing` goes back from a captured token to who took it: by the
invariant of stage B, whoever falls where it stood was the victim of a battery
(attackers and recapturing defenders fall where they came to), so its attacker
is a survivor of the phase that was free to move and had, when the programs were
declared, a trajectory to that square (`StrikersReach`, `ProgramReaches`).

**CascadeProofs** proves twelve theorems for every board, set of contexts, number
of batteries and reservations, geometry and recursion limit, and any opening
order. Its one assumption on the arguments is `ContextOK` (in Cascade): token
identities and squares are distinct, each battery's attacker has arrived on the
square its stationary victim stands on, at most one battery per square, the
occupancy map holds each live token but the victims once, each battery is listed
once, of two reservations of one token one is older, and the silent reservations
are those R11 names. TLC evaluates this assumption on every context of the
MCCascade runs, and `ContextsOfPhases` proves it of every context that phi builds
for two legal programs of a well-formed position.

The properties wanted are FiresOnce, DiesOnce, FiredLeftHome and Conserved. None
is inductive. That no token dies twice depends on the holder of a contested
square being alive; that depends on the square's entry in the occupancy map not
having been overwritten; that depends on a firing defender clearing its origin
only when no other battery's attacker holds it, and on the defender really being
at home. So `IInv` adds

* `AtHome` - a token that neither moved nor fired is found only on its home
  square;
* `Waiting` - a battery whose victim is still at hand is unresolved and its live
  attacker holds the square;
* `Contested` - inside the loop, the victim is gone and the square is held by
  the live holder, who moved there or fired there.

There is one lemma per action; `fire` is the long one, since it changes every
component of the state.

On top of it, `Ordered` gives the two orderings: a battery whose victim was struck
has every battery resolved that its victim might have left to defend, because it
was struck only when none was ahead (`Precedence`), and the victim of a resolved
battery is not at hand and is never struck again; so what is defended falls first
(`ProtegeFallsFirst`). No reservation that is silent fires (`Unsilenced`), which
with R11 and the end of the outer loop is `MutualDefenceIsSilent`.

`ComputesStageB` ties the recursion to the operator with which phi computes
reading ii: without the hook, a call that has returned has computed exactly
`resolve_defense`. That operator first sorts the batteries by `precedence_order`
and then fights them out one by one, with bounded loops where the code has
recursion and `while True`. The invariant `InStep` says that the two keep step:
what the recursion has resolved is a beginning of that order, with the state the
operator reaches after it; the open calls are a way down from the first open
battery, each the first that the one before may leave for (`Path`); inside the
loop, `st` is what some number of exchanges have made of it (`Halfway`). That the
operator's bounds never cut anything short is part of it: a way that ends visits
no battery twice, so it is no longer than there are batteries, and each exchange
uses up a defender, so there are no more than reservations. The oldest
reservation being one, and so what `find_valid_defender` returns, needs the part
of the assumption on ages.

**SessionProofs** proves `Sealed` (no program is on its way to a peer that has
not decided) for any two peers, settings, deciders, number of delay
measurements, timeouts and cuts. `Sealed` is not inductive: a reveal is sent
when the other's *slot* was taken, and the other may finish its phase, and
forget its decision, while the reveal is still behind other messages. The
invariant `SInv` adds `Boxes` - in each stream at most one slot, an ack only as
the last message, nothing once the receiver is over - and `Keeps` - a peer whose
slot was sent or taken keeps its decision until the ack of that phase is back;
together they keep the messages of two phases apart. The one hypothesis,
`DecisionsAreSlots`, says that whatever a decider returns is one of the four
kinds of slot; it ranges over all games and is therefore stated in the theorem
and not evaluated by TLC; MCSession's decider satisfies it by its definition.

It also proves of the clock, for every time control, bank and thinking time, that
exactly the flagged players end a phase with no time left (`FallenIffEmpty`) and
that at most one player earns a bonus, the faster one, and but for
`winner_take_all` at most the time saved (`BonusIsEarned`); and of the handshake,
for every two proposals and nonces, that the peers settle on opposite colours or
both find none (`ColoursSettled`).

SessionProofs then proves that a match keeps its promise (`SessionKeepsPromise`:
Session implements Promise) for any two peers, settings, deciders, numbers of
phases and delay measurements, timeouts and cuts. What is told to a peer follows
from messages sent while the other was somewhere else, so `AInv` says how two
loops fit at any moment:

* `Base`, `Opened` - `SInv`, and peers past the handshake face each other with
  the same terms and opposite colours;
* `Loop`, `Sound` - what one peer holds between two steps, and that revealed
  times are numbers;
* `Meet` - the games are equal, or one peer waits for the ack with which the
  other has gone on (`Even`, `Trails`); each slot, reveal and ack on its way says
  what its sender still holds (`Fits`); and once one was told a result, all that
  can yet reach the other comes to the same (`Told`).

Both peers compute a phase from the same two reveals, by colour and not by who
computes (the lemmas on `Facing`), so equal games stay equal. Two hypotheses on
operators that are constants of Session, stated in the theorems since they range
over all games: `DecisionsAreTimed`, a decision is a slot with a time, and
`OneOutcome`, phi ends a game in at most one way. On the way the proof showed
that two overlapping guards of a `CASE` left open, in the model and not in the
code, which side is told when both peers resign; the `if` chains of
`session.py` and `record.py` are translated by `IF`.

What a match may come to builds on it. `Kept` says that each loop is typed, stops at the
phase limit (`Limits`) and keeps its copy of the clock as C4 and C5 say
(`Accounts`): proved once where a peer computes a phase from two reveals, and
carried over where an ack settles it. From it follow `SessionTyped` and
`SessionClock`, with the further hypothesis `OutcomesOfPhi`, the outcomes phi can
give. `TimeAccounts` goes by each peer's own time control, since the handshake
does not compare them, and claims time on both banks only from an initial bank
that holds some. `Chosen` follows who may come to a result: `First`, a greeting
is the first message heard; `Engaged`, nobody is past the handshake or was told a
result unless greetings and colours fit; `Apart`, an untimed peer never numbers
its pongs, so a timed one never leaves its measurement and no slot reaches the
other. From it follows `SessionMatchesPeers`.

The last part proves that peers started alike and left alone never fail
(`NeverFailsAlone`): every error in `session.py` is then somebody else's doing.
`LeftAlone` says four things of two such peers while nothing interferes. How far
they have come with their greetings and measurements, message by message
(`Stage`). That what a peer waits for is on its way, or the other is where it
will send it (`Supplied`). That it arrives in its turn: no ack behind a slot
(`SlotIsLast`). And that it is what the peer expects (`Expected`): the slot is of
this phase, an accepted offer stands, the reveal opens the commitment and reports
a time in a timed match, and the ack says the peer's own result - for which both must keep the
same clock (`SameClock`). Two more hypotheses: an offer is accepted only when one
stands (`DecisionsAreCandid`: `net/cli.py:79` sees to it, and
`net/session.py:274` raises otherwise), and what phi ends a game with is no error
(`OutcomesAreResults`).

**PaceProofs** proves what the clock on the wall may do to an untouched match,
for any delay, keepalive interval, deadlines, thinking times and number of
phases, and whoever is stopped. `Shape` says where two running peers are in the
exchange and which of its messages are on their way. `Timing` adds when: two
peers began their phase at most one delay apart, so what one measured as its
thinking time and what the other saw of it are at most two delays apart. From it
follows `NeverWronglyRejected` if `2 * Delay <= d_max + Epsilon`, which is what the
tolerance would have to be (section 6). `Hearing` says that whatever is on its
way to a peer that listens arrives before it gives up (`InTime`), and that when
nothing is, the other has sent something so recently (`Recent`, `Sends`) or owes
an answer so soon (`Answers`) that the next message will be in time; an end of
stream is the last message and comes only from a peer whose match is over
(`Parting`). From it follows `NeverTakenForDead`: while neither peer is stopped,
nobody is taken for dead if an exchange there and back fits the transport timeout
and no decision takes so much longer than another that, with the `gap` between
two messages of a peer that still waits, it reaches the liveness deadline. That
hypothesis cannot be dropped: the run `keepalive` is what happens without it. That
no thinking time exceeds `MaxWatch` only says that the model's watches, which stop
there, can show it.

**RelayProofs** proves `Verbatim` for any number of connections, rooms and bytes.
`Wired` says that partners point at each other, that who waits has none, and that
a pipe runs only between partners; `Flow` that for some m the first m bytes of a
client have left its stream, the rest that is there follows without a gap, and
its partner, unless it has ended, was given exactly those m. No assumption beyond
those of Relay.

**CampaignProofs** proves `EveryGameOnce` for any specs, with any order of the
pool and any interruptions and restarts. What the file holds depends on what is
in memory, and that on the pool: `Collecting` says that the results at hand are of
different games of the current spec, `Saved` that a program past the first spec
has written what it holds, or read it. That a complete set of results, sorted, is
the spec's list of seeds is a lemma (`SortedIsWhole`); `sorted_by_seed` picks each
element by its rank since the library's sorting operator cannot be unfolded.
`CampaignAssumption` says that Specs is a non-empty sequence.

Model-checked only. Liveness (`Returns`, `MatchEnds`, `SilenceIsNoticed`,
`Decided`, `Finishes`, `Arrives`, `EndsTogether`) is out of the prover's reach,
and so is `ColourBlind`, which compares a whole phase with its mirror image where
`CHOOSE` may pick differently. `RecordsReplay` is a statement about two given
actions per program (section 6).

## 6. Where the code and its documents disagree

1. **A ring of defences never resolves** (`recursion`). Three attacked pieces
   that defend one another in a ring send `victim_present` and `resolve_square`
   into endless recursion. It takes `n_actions >= 3`; with the default of two,
   `cascade` shows that every call of a match returns.
2. **White's batteries are opened first** (`colour`). Where defences on squares
   attacked by White and by Black depend on one another, the mirrored phase
   comes out differently, against M3. `ColourBlind` shows that in `clash` the
   colours are told apart in no other way than this and the next paragraph's.
3. **A king is cooled for a capture it did not make** (`king`). Whether it
   captured is told from who stood on its destination before the phase; that
   token may have left and fallen elsewhere. R13 of the harness repeats the
   test. `CooldownIsExact` shows that a king cools in no other way.
4. **A thinking player is taken for dead** (`keepalive`). Once the other's slot
   is in, nothing answers its pings while this player still thinks.

Shown by the passing run `clash`: **a mirrored mutual defence is not recognised**.
R11 asks whether a protege `is` the victim (`defense.py:90`), by identity.
`mirror_state` makes separate tokens for the board and for each reservation
(`collision.py:53`, `collision.py:99`), so where two attacked pieces of one
colour defend each other `phi` of the mirrored state silences nothing and raises
RecursionError, with two attacks and the v1 rules. M3 compares just these calls
(`tests/property/test_m3_color_swap_equivariance.py:55`) and counts any
difference as S0. `ColourBlind` says that the mirrored call raises in exactly these
phases; the third position of `ClashStart` leads to them.

Met on the way, without a run of their own: for the same reason as in 2, the
order in which an attacker declares its captures may decide who survives, which
M4 rules out, and ties of one round of reading i go White's way
(`defense_seq.py:216`); L6 accepts a Cancel where cancellation is switched off
(`legality.py:319`); the online session reports every draw as regicide
(`net/session.py:225`); the greedy agent hands in the empty program, on which
`phi` raises, where only a reservation is legal (`greedy.py:35`); a rook that recaptures onto another
rook's home leaves the castling right standing, and `has_any_legal_program`
counts a castle that L4 rejects (`legality.py:109`); a pawn that recaptures onto
the last rank stays a pawn (`phi.py:86`); with three actions a record "Move q
s-t; Move X-s; Reserve d q" reads back with X as the protege (`record.py:357`;
`RecordsReplay` holds for N = 2); the window never passes a promotion choice
(`window.py:462`); the net command line gives both peers the seed 0, so that two
who ask for the same colour never play (`net/cli.py:124`); the handshake does
not mention the time control, which is noticed only by the first ack or reveal;
a flag cannot fall while a player does not commit; the tolerance on a revealed
time is one delay and 0.25 s (`net/session.py:584`), where the two peers' phases
may begin one delay apart and the slot takes another, so that on a connection
slower than 0.25 s an honest time can be off by more and be rejected, against the
comment at `net/session.py:110` (with thinking times 5 and 7, delay 2, keepalive
2, deadline 8, transport timeout 5, `Epsilon` 1 and `Floor` 0, TLC finds
`NeverWronglyRejected` violated in Pace); `--resume` goes by label and
count alone (`campaign.py:426`); a king that recaptures cools by
`king_capture_cooldown` although `recapture_cooldown` is off.

## 7. Not modelled

* The solver, the learning stack and the campaign statistics compute with reals
  or sampled matrices: TLC has no reals, and an abstraction that drops the
  values drops what the code decides on. The OpenSpiel adapter wraps `phi` in
  numeric encodings.
* Text and I/O: the layout and header fields of records and their fixtures, the
  JSON envelope of messages and its malformed forms, rendering, widgets and
  command lines, the JSON of a reproduction.
* The switches `recapture_cooldown`, `king_capture_cooldown` and
  `cancellation_enabled` are in the modules, but every run has them on.
* The registry and the fingerprints of rule sets. The `tie_break` parameters of
  stages F and A and of reading i, which only tests pass.

## 8. Plan

Models: a campaign whose specs change between two starts; three actions per
program in `clash`.
