------------------------------- MODULE Cascade ------------------------------
(***************************************************************************)
(* Stage B (core/stages/defense.py) step by step: the recursion of         *)
(* resolve_defense, one action per call, capture and recapture.            *)
(*                                                                         *)
(* A context is what Resolution!context builds from a phase: the batteries *)
(* pending on the board, the reservations in effect, and the board with    *)
(* the movers arrived; its field tie_break says whether the hook of that   *)
(* name is given.  The recursion opens the batteries in pending order, or  *)
(* in any order at all when the hook supplies one; before the victim of a  *)
(* battery is captured, every open battery it may leave to defend is       *)
(* resolved first.  A cycle of three or more batteries is not cut by       *)
(* mutual_cycle_blacklist: the recursion then goes on to Python's          *)
(* recursion limit.                                                        *)
(***************************************************************************)
EXTENDS Resolution

CONSTANTS
  Contexts,       \* the contexts the stage may be called with
  RecursionLimit  \* the depth at which the interpreter gives up

\* What stages F and A and the declarations guarantee of a context.
BoardOf(c) ==
  /\ \A t, u \in DOMAIN c.board : c.board[t] = c.board[u] => t = u
  /\ \A t, u \in DOMAIN c.board : t.id = u.id => t = u
  /\ c.alive \subseteq DOMAIN c.board

BatteriesOf(c) ==
  \A p \in ToSet(c.pending) :
    /\ p.victim \in c.alive /\ p.victim.id \notin c.moved
    /\ p.holder \in c.alive /\ p.holder.id \in c.moved
    /\ c.board[p.victim] = p.square
    /\ p.square \in DOMAIN c.occupancy /\ c.occupancy[p.square] = p.holder
    /\ \A q \in ToSet(c.pending) : q.square = p.square => q = p

\* Every live token stands on exactly one square, but for the victims, whose
\* squares their attackers have taken over.
ArrivalsOf(c) ==
  /\ {c.occupancy[q] : q \in DOMAIN c.occupancy}
       = c.alive \ {p.victim : p \in ToSet(c.pending)}
  /\ \A q, r \in DOMAIN c.occupancy : c.occupancy[q] = c.occupancy[r] => q = r
  /\ \A q \in DOMAIN c.occupancy :
       c.occupancy[q].id \notin c.moved => c.board[c.occupancy[q]] = q

ReservationsOf(c) ==
  \A rho \in ToSet(c.res) : rho.defender \in DOMAIN c.board

\* Each battery is listed once, and of two reservations of a token one is older.
ListsOf(c) ==
  /\ c.pending \in Seq(ToSet(c.pending)) /\ c.res \in Seq(ToSet(c.res))
  /\ \A i, j \in DOMAIN c.pending : c.pending[i] = c.pending[j] => i = j
  /\ \A x \in ToSet(c.res) : x.age \in Nat \X Nat
  /\ \A x, y \in ToSet(c.res) : x.protege = y.protege /\ x.age = y.age => x = y

SilenceOf(c) == c.silent = mutual_cycle_blacklist(c.pending, c.res)

ContextOK(c) ==
  /\ BoardOf(c) /\ BatteriesOf(c) /\ ArrivalsOf(c)
  /\ ReservationsOf(c) /\ ListsOf(c) /\ SilenceOf(c)

ASSUME ContextsAssumption == \A c \in Contexts : ContextOK(c)
ASSUME LimitAssumption    == RecursionLimit \in Nat \ {0}

VARIABLES
  ctx,     \* the call's arguments
  st,      \* the running state: occupancy, alive, captured, fired, resolved
  stack,   \* the batteries whose resolve_square call is open, innermost last
  fight,   \* in the loop of the innermost call: its victim and holder
  raised   \* whether a RecursionError ended the call

vars == <<ctx, st, stack, fight, raised>>

Batteries == ToSet(ctx.pending)
Open      == Batteries \ st.resolved
first_open == CHOOSE p \in Open :
                \E i \in DOMAIN ctx.pending :
                  /\ ctx.pending[i] = p
                  /\ \A j \in 1..(i - 1) : ctx.pending[j] \notin Open
top       == stack[Len(stack)]
popped    == Front(stack)
\* Fault: no battery is resolved ahead of another.
none_ahead == {}
ahead     == leaves_for(ctx, top, st.resolved)
Calling   == stack # <<>> /\ fight = {} /\ ~ raised

Init ==
  /\ ctx \in Contexts
  /\ st = cascade_start(ctx)
  /\ stack = <<>>
  /\ fight = {}
  /\ raised = FALSE

\* The outer loop calls resolve_square on a battery not yet resolved.
visit(p) ==
  /\ stack = <<>> /\ ~ raised
  /\ p \in Open
  /\ ctx.tie_break \/ p = first_open
  /\ stack' = <<p>>
  /\ UNCHANGED <<ctx, st, fight, raised>>

\* victim_present resolves a battery the victim may leave to defend first.
descend ==
  /\ Calling /\ ahead # {}
  /\ Len(stack) < RecursionLimit
  /\ \E p \in ahead : /\ p = first_leaf(ctx, top, st.resolved)
                      /\ stack' = Append(stack, p)
  /\ UNCHANGED <<ctx, st, fight, raised>>

overflow ==
  /\ Calling /\ ahead # {}
  /\ Len(stack) = RecursionLimit
  /\ raised' = TRUE
  /\ stack' = <<>>
  /\ UNCHANGED <<ctx, st, fight>>

resolved_top == /\ stack' = popped
                /\ fight' = {}

\* The victim died or fired elsewhere: the attacker takes an empty square.
miss ==
  /\ Calling /\ ahead = {}
  /\ top.victim \notin at_hand(st)
  /\ st' = [st EXCEPT !.resolved = @ \cup {top}]
  /\ resolved_top
  /\ UNCHANGED <<ctx, raised>>

\* Fault: the captured victim is not removed.
strike_in_passing ==
  /\ Calling /\ ahead = {}
  /\ top.victim \in at_hand(st)
  /\ st' = [st EXCEPT !.captured = Append(@, <<top.victim, top.square>>)]
  /\ fight' = {[victim |-> top.victim, holder |-> top.holder]}
  /\ UNCHANGED <<ctx, stack, raised>>

strike ==
  /\ Calling /\ ahead = {}
  /\ top.victim \in at_hand(st)
  /\ st' = [st EXCEPT !.alive = @ \ {top.victim},
                      !.captured = Append(@, <<top.victim, top.square>>)]
  /\ fight' = {[victim |-> top.victim, holder |-> top.holder]}
  /\ UNCHANGED <<ctx, stack, raised>>

fire ==
  /\ stack # <<>>
  /\ \E f \in fight, rho \in ToSet(ctx.res) :
       /\ rho \in find_valid_defender(ctx, st, f.victim, top.square)
       /\ st' = recapture(ctx, st, rho, f.holder, top.square)
       /\ fight' = {[victim |-> f.holder, holder |-> rho.defender]}
  /\ UNCHANGED <<ctx, stack, raised>>

settle ==
  /\ stack # <<>>
  /\ \E f \in fight : find_valid_defender(ctx, st, f.victim, top.square) = {}
  /\ st' = [st EXCEPT !.resolved = @ \cup {top}]
  /\ resolved_top
  /\ UNCHANGED <<ctx, raised>>

Next == \/ \E p \in Batteries : visit(p)
        \/ descend \/ overflow \/ miss \/ strike \/ fire \/ settle

\* One thread runs the call to its end.
Spec == Init /\ [][Next]_vars /\ WF_vars(Next)

Done == Open = {}

-----------------------------------------------------------------------------
standing(s) == {s.occupancy[q] : q \in DOMAIN s.occupancy}
taken(s)    == {x[1] : x \in ToSet(s.captured)}

\* R9 and R10: no defender fires twice, and none that moved this phase fires.
FiresOnce ==
  /\ \A i, j \in DOMAIN st.fired :
       i # j => st.fired[i].defender # st.fired[j].defender
  /\ \A f \in ToSet(st.fired) : f.defender.id \notin ctx.moved

\* R12: nothing dies twice and nothing rises again: each token still alive
\* or captured once, and every recapture has taken one.
DiesOnce ==
  /\ \A i, j \in DOMAIN st.captured :
       i # j => st.captured[i][1] # st.captured[j][1]
  /\ st.alive = ctx.alive \ taken(st)
  /\ \A f \in ToSet(st.fired) : f.captured \in taken(st)

\* R7: a defender that fired is not captured on the square it left; whatever
\* takes it does so where it fired to.
FiredLeftHome ==
  \A f \in ToSet(st.fired), x \in ToSet(st.captured) :
    x[1] = f.defender => x[2] = f.square

\* R18 inside the stage: the tokens on the board are exactly the live ones,
\* but for victims still to be struck, and no token is on two squares, even
\* when a defender leaves a square another attacker has already taken over.
Conserved ==
  /\ standing(st) = st.alive \ {p.victim : p \in {q \in Open : q.victim \in at_hand(st)}}
  /\ \A q, r \in DOMAIN st.occupancy : st.occupancy[q] = st.occupancy[r] => q = r

-----------------------------------------------------------------------------
(***************************************************************************)
(* The inductive invariant of the recursion, of which the four properties  *)
(* above are parts.                                                        *)
(***************************************************************************)
Tokens   == DOMAIN ctx.board
Contests == {p.square : p \in Batteries}
Captures == Tokens \X Contests
Recaptures == [defender : Tokens, captured : Tokens, square : Contests,
               reservation : ToSet(ctx.res)]

\* Types of the recursion's state.
TypeInv ==
  /\ ctx \in Contexts
  /\ st = [occupancy |-> st.occupancy, alive |-> st.alive, captured |-> st.captured,
           fired |-> st.fired, resolved |-> st.resolved]
  /\ st.alive \subseteq Tokens
  /\ st.captured \in Seq(Captures)
  /\ st.fired \in Seq(Recaptures)
  /\ st.resolved \subseteq Batteries
  /\ stack \in Seq(Batteries)
  /\ raised \in BOOLEAN

\* A token that neither moved nor fired is found only on its home square.
AtHome ==
  \A q \in DOMAIN st.occupancy :
    /\ st.occupancy[q].id \notin ctx.moved
    /\ st.occupancy[q] \notin fired_defenders(st)
    => ctx.board[st.occupancy[q]] = q

\* A battery whose victim is still at hand is open and its attacker is there.
Waiting ==
  \A p \in Batteries : p.victim \in at_hand(st) =>
    /\ p \notin st.resolved
    /\ p.square \in DOMAIN st.occupancy /\ st.occupancy[p.square] = p.holder
    /\ p.holder \in st.alive

\* In the loop, the victim is gone and the square is its live holder's, who
\* came by a move or by firing to this square.
Contested ==
  \A f \in fight :
    /\ stack # <<>>
    /\ top.victim \notin st.alive
    /\ f.holder \in st.alive
    /\ top.square \in DOMAIN st.occupancy /\ st.occupancy[top.square] = f.holder
    /\ \/ f.holder.id \in ctx.moved
       \/ \E g \in ToSet(st.fired) : g.defender = f.holder /\ g.square = top.square

\* The logs, the live tokens and the board agree at every step.
Logs == FiresOnce /\ DiesOnce /\ FiredLeftHome
Agreement == AtHome /\ Waiting /\ Contested /\ Logs /\ Conserved
IInv == TypeInv /\ Agreement

-----------------------------------------------------------------------------
\* R7 as an order: when a defender and a token it defends both fall on their
\* own squares, the defended one fell first, unless the two defend each other.
ProtegeFallsFirst ==
  \A rho \in ToSet(ctx.res) \ ctx.silent, i, j \in DOMAIN st.captured :
    /\ \E p, q \in Batteries :
         /\ st.captured[i] = <<p.victim, p.square>> /\ p.victim = rho.protege
         /\ st.captured[j] = <<q.victim, q.square>> /\ q.victim = rho.defender
    => i < j

\* R11: two tokens that defend each other and are both attacked both fall,
\* and neither fires for the other, unless one of them left for a third.
MutualDefenceIsSilent ==
  \A rho, sigma \in ToSet(ctx.res) :
    /\ rho.defender = sigma.protege /\ sigma.defender = rho.protege
    /\ {rho.defender, rho.protege} \subseteq {p.victim : p \in Batteries}
    => /\ \A f \in ToSet(st.fired) : f.reservation # rho
       /\ Done => rho.defender \in taken(st) \cup fired_defenders(st)

\* The recursion computes what phi uses, which never gives the hook.
ComputesStageB ==
  Done /\ ~ raised /\ ~ ctx.tie_break =>
    LET whole == resolve_defense(ctx)
    IN  /\ st.occupancy = whole.occupancy
        /\ st.captured = whole.captured /\ st.fired = whole.fired

\* R12: the call returns; with three batteries or more, which takes three
\* actions, it may end in a RecursionError instead.
Returns == <>(stack = <<>> /\ (Done \/ (raised /\ Len(ctx.pending) > 2)))

\* No call exhausts the interpreter's stack.
NoRecursionError == ~ raised
=============================================================================
