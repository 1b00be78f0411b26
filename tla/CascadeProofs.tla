---------------------------- MODULE CascadeProofs ---------------------------
(***************************************************************************)
(* What holds of stage B in every context, with any number of batteries,   *)
(* reservations and pieces, whatever the geometry and whatever order       *)
(* tie_break gives.                                                        *)
(***************************************************************************)
EXTENDS Cascade, PhiProofs

-----------------------------------------------------------------------------
\* Appending adds one element at the end and to the set of the elements.
LEMMA AppendFacts ==
  ASSUME NEW S, NEW s \in Seq(S), NEW e \in S
  PROVE  /\ Append(s, e) \in Seq(S)
         /\ DOMAIN s = 1..Len(s) /\ Len(s) \in Nat
         /\ DOMAIN Append(s, e) = 1..(Len(s) + 1)
         /\ \A i \in 1..Len(s) : Append(s, e)[i] = s[i]
         /\ Append(s, e)[Len(s) + 1] = e
         /\ ToSet(Append(s, e)) = ToSet(s) \cup {e}
<1>1. /\ Append(s, e) \in Seq(S) /\ DOMAIN s = 1..Len(s) /\ Len(s) \in Nat
      /\ DOMAIN Append(s, e) = 1..(Len(s) + 1)
      /\ \A i \in 1..Len(s) : Append(s, e)[i] = s[i]
      /\ Append(s, e)[Len(s) + 1] = e
  OBVIOUS
<1>2. ToSet(Append(s, e)) = ToSet(s) \cup {e}
  <2>1. \A i \in 1..(Len(s) + 1) : i \in 1..Len(s) \/ i = Len(s) + 1
    BY <1>1
  <2>2. 1..Len(s) \subseteq 1..(Len(s) + 1) /\ Len(s) + 1 \in 1..(Len(s) + 1)
    BY <1>1
  <2> QED BY <1>1, <2>1, <2>2 DEF ToSet
<1> QED BY <1>1, <1>2

LEMMA FrontFacts ==
  ASSUME NEW S, NEW s \in Seq(S), s # <<>>
  PROVE  Front(s) \in Seq(S) /\ s[Len(s)] \in S
  BY DEF Front

\* A capture of a token not captured before keeps the captured ones distinct.
LEMMA CaptureFacts ==
  ASSUME NEW S, NEW s \in Seq(S), NEW e \in S,
         \A x \in ToSet(s) : x[1] # e[1],
         \A i, j \in DOMAIN s : i # j => s[i][1] # s[j][1]
  PROVE  /\ Append(s, e) \in Seq(S)
         /\ ToSet(Append(s, e)) = ToSet(s) \cup {e}
         /\ \A i, j \in DOMAIN Append(s, e) :
              i # j => Append(s, e)[i][1] # Append(s, e)[j][1]
<1> DEFINE r == Append(s, e)
<1>2. /\ r \in Seq(S) /\ ToSet(r) = ToSet(s) \cup {e}
      /\ DOMAIN s = 1..Len(s) /\ Len(s) \in Nat /\ DOMAIN r = 1..(Len(s) + 1)
      /\ \A i \in 1..Len(s) : r[i] = s[i]
      /\ r[Len(s) + 1] = e
  BY AppendFacts
<1> HIDE DEF r
<1>4. \A i \in 1..Len(s) : s[i] \in ToSet(s)
  BY <1>2 DEF ToSet
<1>5. ASSUME NEW i \in DOMAIN r, NEW j \in DOMAIN r, i # j
      PROVE  r[i][1] # r[j][1]
  <2>1. CASE i \in 1..Len(s) /\ j \in 1..Len(s)
    BY <1>2, <1>5, <2>1
  <2>2. CASE i = Len(s) + 1 /\ j \in 1..Len(s)
    BY <1>2, <1>4, <2>2
  <2>3. CASE j = Len(s) + 1 /\ i \in 1..Len(s)
    BY <1>2, <1>4, <2>3
  <2> QED BY <1>2, <1>5, <2>1, <2>2, <2>3
<1> QED BY <1>2, <1>5 DEF r

\* The same of a firing by a token that did not fire before.
LEMMA FiringFacts ==
  ASSUME NEW S, NEW s \in Seq(S), NEW e \in S,
         \A x \in ToSet(s) : x.defender # e.defender,
         \A i, j \in DOMAIN s : i # j => s[i].defender # s[j].defender
  PROVE  /\ Append(s, e) \in Seq(S)
         /\ ToSet(Append(s, e)) = ToSet(s) \cup {e}
         /\ \A i, j \in DOMAIN Append(s, e) :
              i # j => Append(s, e)[i].defender # Append(s, e)[j].defender
<1> DEFINE r == Append(s, e)
<1>2. /\ r \in Seq(S) /\ ToSet(r) = ToSet(s) \cup {e}
      /\ DOMAIN s = 1..Len(s) /\ Len(s) \in Nat /\ DOMAIN r = 1..(Len(s) + 1)
      /\ \A i \in 1..Len(s) : r[i] = s[i]
      /\ r[Len(s) + 1] = e
  BY AppendFacts
<1> HIDE DEF r
<1>4. \A i \in 1..Len(s) : s[i] \in ToSet(s)
  BY <1>2 DEF ToSet
<1>5. ASSUME NEW i \in DOMAIN r, NEW j \in DOMAIN r, i # j
      PROVE  r[i].defender # r[j].defender
  <2>1. CASE i \in 1..Len(s) /\ j \in 1..Len(s)
    BY <1>2, <1>5, <2>1
  <2>2. CASE i = Len(s) + 1 /\ j \in 1..Len(s)
    BY <1>2, <1>4, <2>2
  <2>3. CASE j = Len(s) + 1 /\ i \in 1..Len(s)
    BY <1>2, <1>4, <2>3
  <2> QED BY <1>2, <1>5, <2>1, <2>2, <2>3
<1> QED BY <1>2, <1>5 DEF r

-----------------------------------------------------------------------------
\* What a context guarantees, read off the assumption on Contexts.
LEMMA ArgumentFacts ==
  ASSUME ctx \in Contexts
  PROVE  /\ \A t, u \in Tokens : ctx.board[t] = ctx.board[u] => t = u
         /\ ctx.alive \subseteq Tokens
         /\ \A p \in Batteries :
              /\ p.victim \in ctx.alive /\ p.victim.id \notin ctx.moved
              /\ p.holder \in ctx.alive /\ p.holder.id \in ctx.moved
              /\ ctx.board[p.victim] = p.square
              /\ p.square \in DOMAIN ctx.occupancy
              /\ ctx.occupancy[p.square] = p.holder
              /\ \A q \in Batteries : q.square = p.square => q = p
         /\ ArrivalsOf(ctx)
         /\ \A rho \in ToSet(ctx.res) : rho.defender \in Tokens
  BY ContextsAssumption
  DEF ContextOK, BoardOf, BatteriesOf, ReservationsOf, Batteries, Tokens

LEMMA InitIInv == Init => IInv
<1> SUFFICES ASSUME Init PROVE IInv
  OBVIOUS
<1>0. ctx \in Contexts /\ stack = <<>> /\ fight = {} /\ raised = FALSE
  BY DEF Init
<1>1. /\ st.occupancy = ctx.occupancy /\ st.alive = ctx.alive
      /\ st.captured = <<>> /\ st.fired = <<>> /\ st.resolved = {}
      /\ st = [occupancy |-> st.occupancy, alive |-> st.alive, captured |-> st.captured,
               fired |-> st.fired, resolved |-> st.resolved]
  BY DEF Init, cascade_start
<1>2. ToSet(st.captured) = {} /\ ToSet(st.fired) = {}
  BY <1>1 DEF ToSet
<1>3. taken(st) = {} /\ fired_defenders(st) = {} /\ at_hand(st) = ctx.alive
  BY <1>1, <1>2 DEF taken, fired_defenders, at_hand
<1>4. TypeInv
  <2>1. <<>> \in Seq(Captures) /\ <<>> \in Seq(Recaptures) /\ <<>> \in Seq(Batteries)
    OBVIOUS
  <2>2. st.alive \subseteq Tokens
    BY <1>0, <1>1, ArgumentFacts
  <2> QED BY <1>0, <1>1, <2>1, <2>2 DEF TypeInv
<1>5. AtHome
  BY <1>0, <1>1, ArgumentFacts DEF AtHome, ArrivalsOf
<1>6. Waiting
  BY <1>0, <1>1, <1>3, ArgumentFacts DEF Waiting
<1>7. Contested
  BY <1>0 DEF Contested
<1>8. Logs
  BY <1>1, <1>2, <1>3 DEF Logs, FiresOnce, DiesOnce, FiredLeftHome
<1>9. Conserved
  <2>1. {p.victim : p \in {q \in Open : q.victim \in at_hand(st)}}
          = {p.victim : p \in Batteries}
    BY <1>0, <1>1, <1>3, ArgumentFacts DEF Open
  <2> QED BY <1>0, <1>1, <2>1, ArgumentFacts
          DEF Conserved, ArrivalsOf, standing, Batteries
<1> QED BY <1>4, <1>5, <1>6, <1>7, <1>8, <1>9 DEF IInv, Agreement

-----------------------------------------------------------------------------
\* Opening a call changes nothing but the stack, and only between captures.
LEMMA CallKeepsIInv ==
  ASSUME IInv, fight = {}, stack' \in Seq(Batteries), raised' \in BOOLEAN,
         UNCHANGED <<ctx, st, fight>>
  PROVE  IInv'
<1>1. ctx' = ctx /\ st' = st /\ fight' = {}
  OBVIOUS
<1>2. TypeInv'
  BY <1>1 DEF IInv, Agreement, TypeInv, Tokens, Captures, Recaptures, Contests, Batteries
<1>3. Contested'
  BY <1>1 DEF Contested
<1>4. AtHome' /\ Waiting'
  BY <1>1 DEF IInv, Agreement, AtHome, Waiting, Batteries
<1>5. Logs' /\ Conserved'
  BY <1>1 DEF IInv, Agreement, Logs, FiresOnce, DiesOnce, FiredLeftHome, Conserved, Open,
              Batteries
<1> QED BY <1>2, <1>3, <1>4, <1>5 DEF IInv, Agreement

\* The victims still to be struck are those of any battery, open or not.
LEMMA ToBeStruck ==
  ASSUME Waiting
  PROVE  {p.victim : p \in {q \in Open : q.victim \in at_hand(st)}}
           = {p.victim : p \in {q \in Batteries : q.victim \in at_hand(st)}}
  BY DEF Waiting, Open

\* A call that returns without a capture only marks its battery resolved.
LEMMA ReturnKeepsIInv ==
  ASSUME IInv, stack # <<>>, top.victim \notin at_hand(st),
         st' = [st EXCEPT !.resolved = @ \cup {top}], resolved_top,
         UNCHANGED <<ctx, raised>>
  PROVE  IInv'
<1>1. /\ ctx' = ctx /\ raised' = raised /\ fight' = {} /\ stack' = Front(stack)
      /\ st'.occupancy = st.occupancy /\ st'.alive = st.alive
      /\ st'.captured = st.captured /\ st'.fired = st.fired
      /\ st'.resolved = st.resolved \cup {top}
      /\ st' = [occupancy |-> st'.occupancy, alive |-> st'.alive,
                captured |-> st'.captured, fired |-> st'.fired,
                resolved |-> st'.resolved]
  BY DEF IInv, Agreement, TypeInv, resolved_top, popped
<1>2. top \in Batteries /\ stack' \in Seq(Batteries)
  BY <1>1, FrontFacts DEF IInv, Agreement, TypeInv, top
<1>3. at_hand(st') = at_hand(st) /\ taken(st') = taken(st)
      /\ fired_defenders(st') = fired_defenders(st)
  BY <1>1 DEF at_hand, taken, fired_defenders
<1>4. TypeInv'
  BY <1>1, <1>2 DEF IInv, Agreement, TypeInv, Tokens, Captures, Recaptures, Contests, Batteries
<1>5. AtHome'
  BY <1>1, <1>3 DEF IInv, Agreement, AtHome
<1>6. Waiting'
  BY <1>1, <1>3 DEF IInv, Agreement, Waiting, Batteries
<1>7. Contested'
  BY <1>1 DEF Contested
<1>8. Logs'
  <2>1. FiresOnce'
    BY <1>1 DEF IInv, Agreement, Logs, FiresOnce
  <2>2. DiesOnce'
    <3>1. \A i, j \in DOMAIN st'.captured : i # j => st'.captured[i][1] # st'.captured[j][1]
      BY <1>1 DEF IInv, Agreement, Logs, DiesOnce
    <3>2. st'.alive = ctx'.alive \ taken(st')
      BY <1>1, <1>3 DEF IInv, Agreement, Logs, DiesOnce
    <3>3. \A f \in ToSet(st'.fired) : f.captured \in taken(st')
      BY <1>1, <1>3 DEF IInv, Agreement, Logs, DiesOnce
    <3> QED BY <3>1, <3>2, <3>3 DEF DiesOnce
  <2>3. FiredLeftHome'
    BY <1>1 DEF IInv, Agreement, Logs, FiredLeftHome
  <2> QED BY <2>1, <2>2, <2>3 DEF Logs
<1>9. Conserved'
  <2>1. {p.victim : p \in {q \in Open : q.victim \in at_hand(st)}}'
          = {p.victim : p \in {q \in Open : q.victim \in at_hand(st)}}
    BY <1>1, <1>3 DEF Open, Batteries
  <2>2. standing(st') = standing(st)
    BY <1>1 DEF standing
  <2>3. \A q, r \in DOMAIN st'.occupancy : st'.occupancy[q] = st'.occupancy[r] => q = r
    BY <1>1 DEF IInv, Agreement, Conserved
  <2> QED BY <1>1, <2>1, <2>2, <2>3 DEF IInv, Agreement, Conserved
<1> QED BY <1>4, <1>5, <1>6, <1>7, <1>8, <1>9 DEF IInv, Agreement

-----------------------------------------------------------------------------
\* The attacker captures the victim: one token leaves the live ones, and with
\* it the one battery that was waiting for it.
LEMMA StrikeKeepsIInv == IInv /\ strike => IInv'
<1> SUFFICES ASSUME IInv, strike PROVE IInv'
  OBVIOUS
<1> DEFINE V == top.victim
<1>1. /\ ctx' = ctx /\ raised' = raised /\ stack' = stack /\ stack # <<>>
      /\ st'.occupancy = st.occupancy /\ st'.alive = st.alive \ {V}
      /\ st'.captured = Append(st.captured, <<V, top.square>>)
      /\ st'.fired = st.fired /\ st'.resolved = st.resolved
      /\ st' = [occupancy |-> st'.occupancy, alive |-> st'.alive,
                captured |-> st'.captured, fired |-> st'.fired,
                resolved |-> st'.resolved]
      /\ fight' = {[victim |-> V, holder |-> top.holder]}
      /\ V \in at_hand(st)
  BY DEF IInv, Agreement, TypeInv, strike, Calling
<1>2. top \in Batteries /\ top' = top
  BY <1>1, FrontFacts DEF IInv, Agreement, TypeInv, top
<1>3. /\ V \in st.alive /\ V \notin fired_defenders(st) /\ V \in Tokens
      /\ top \notin st.resolved /\ top.holder \in st.alive /\ top.holder # V
      /\ top.square \in DOMAIN st.occupancy /\ st.occupancy[top.square] = top.holder
      /\ top.holder.id \in ctx.moved
  BY <1>1, <1>2, ArgumentFacts DEF IInv, Agreement, TypeInv, Waiting, at_hand
<1>4. /\ st'.captured \in Seq(Captures)
      /\ ToSet(st'.captured) = ToSet(st.captured) \cup {<<V, top.square>>}
      /\ taken(st') = taken(st) \cup {V}
      /\ \A i, j \in DOMAIN st'.captured :
           i # j => st'.captured[i][1] # st'.captured[j][1]
  <2> DEFINE e == <<V, top.square>>
  <2>1. e \in Captures /\ e[1] = V
    BY <1>2, <1>3 DEF Captures, Contests
  <2>2. st'.captured = Append(st.captured, e)
    BY <1>1
  <2> HIDE DEF e
  <2>3. \A x \in ToSet(st.captured) : x[1] # e[1]
    BY <1>3, <2>1 DEF IInv, Agreement, Logs, DiesOnce, taken
  <2>4. /\ st.captured \in Seq(Captures)
        /\ \A i, j \in DOMAIN st.captured :
             i # j => st.captured[i][1] # st.captured[j][1]
    BY DEF IInv, Agreement, Logs, DiesOnce, TypeInv
  <2>5. /\ st'.captured \in Seq(Captures)
        /\ ToSet(st'.captured) = ToSet(st.captured) \cup {e}
        /\ \A i, j \in DOMAIN st'.captured :
             i # j => st'.captured[i][1] # st'.captured[j][1]
    BY <2>1, <2>2, <2>3, <2>4, CaptureFacts
  <2>6. taken(st') = taken(st) \cup {V}
    BY <2>1, <2>5 DEF taken
  <2> QED BY <2>5, <2>6 DEF e
<1>5. <<V, top.square>>[1] = V
  OBVIOUS
<1>6. /\ fired_defenders(st') = fired_defenders(st)
      /\ at_hand(st') = at_hand(st) \ {V}
  BY <1>1 DEF at_hand, fired_defenders
<1>7. TypeInv'
  BY <1>1, <1>4 DEF IInv, Agreement, TypeInv, Tokens, Captures, Recaptures, Contests, Batteries
<1>8. AtHome'
  BY <1>1, <1>6 DEF IInv, Agreement, AtHome
<1>9. Waiting'
  <2> SUFFICES ASSUME NEW p \in Batteries, p.victim \in at_hand(st)
               PROVE  p.holder # V /\ p \notin st.resolved
                      /\ p.square \in DOMAIN st.occupancy
                      /\ st.occupancy[p.square] = p.holder /\ p.holder \in st.alive
    BY <1>1, <1>6 DEF Waiting, Batteries
  <2> QED BY <1>2, ArgumentFacts DEF IInv, Agreement, TypeInv, Waiting
<1>10. Contested'
  BY <1>1, <1>2, <1>3 DEF Contested
<1>11. FiresOnce'
  BY <1>1 DEF IInv, Agreement, Logs, FiresOnce
<1>12. DiesOnce'
  BY <1>1, <1>4, <1>5 DEF IInv, Agreement, Logs, DiesOnce
<1>13. FiredLeftHome'
  <2>1. \A x \in ToSet(st'.captured) : x \in ToSet(st.captured) \/ x[1] = V
    BY <1>4, <1>5
  <2>2. \A f \in ToSet(st.fired) : f.defender # V
    BY <1>3 DEF fired_defenders
  <2> QED BY <1>1, <2>1, <2>2 DEF IInv, Agreement, Logs, FiredLeftHome
<1>14. Conserved'
  <2> DEFINE E == {p.victim : p \in {q \in Batteries : q.victim \in at_hand(st)}}
  <2>1. {p.victim : p \in {q \in Batteries : q.victim \in at_hand(st')}} = E \ {V}
    BY <1>6
  <2>2. V \in E
    BY <1>1, <1>2
  <2>3. standing(st) = st.alive \ E
    BY ToBeStruck DEF IInv, Agreement, Conserved
  <2>4. {p.victim : p \in {q \in Open : q.victim \in at_hand(st)}}'
          = {p.victim : p \in {q \in Batteries : q.victim \in at_hand(st')}}
    BY <1>1, <1>6 DEF Open, Batteries, IInv, Agreement, Waiting
  <2>5. standing(st') = standing(st)
    BY <1>1 DEF standing
  <2>6. standing(st') = st'.alive \ (E \ {V})
    BY <1>1, <2>2, <2>3, <2>5
  <2> QED BY <1>1, <2>1, <2>4, <2>6 DEF IInv, Agreement, Conserved
<1> QED BY <1>7, <1>8, <1>9, <1>10, <1>11, <1>12, <1>13, <1>14 DEF IInv, Agreement, Logs

-----------------------------------------------------------------------------
\* A defender takes the square back.  It leaves its own square, where a
\* battery's attacker may stand already, and the holder falls.
LEMMA FireKeepsIInv == IInv /\ fire => IInv'
<1> SUFFICES ASSUME IInv, fire PROVE IInv'
  OBVIOUS
<1> PICK f \in fight, rho \in ToSet(ctx.res) :
      /\ stack # <<>>
      /\ rho \in find_valid_defender(ctx, st, f.victim, top.square)
      /\ st' = recapture(ctx, st, rho, f.holder, top.square)
      /\ fight' = {[victim |-> f.holder, holder |-> rho.defender]}
      /\ ctx' = ctx /\ stack' = stack /\ raised' = raised
  BY DEF fire
<1> DEFINE D    == rho.defender
           H    == f.holder
           here == top.square
           from == ctx.board[D]
           left == IF contested(ctx, st, from) THEN {} ELSE {from}
           ev   == [defender |-> D, captured |-> H, square |-> here, reservation |-> rho]
           fall == <<H, here>>
<1>1. /\ st'.occupancy = [q \in (DOMAIN st.occupancy \ left) \cup {here} |->
                            IF q = here THEN D ELSE st.occupancy[q]]
      /\ st'.alive = st.alive \ {H}
      /\ st'.captured = Append(st.captured, fall)
      /\ st'.fired = Append(st.fired, ev)
      /\ st'.resolved = st.resolved
      /\ st' = [occupancy |-> st'.occupancy, alive |-> st'.alive,
                captured |-> st'.captured, fired |-> st'.fired,
                resolved |-> st'.resolved]
  BY DEF recapture, IInv, Agreement, TypeInv
<1>2. /\ top \in Batteries /\ top' = top /\ here \in Contests
  BY FrontFacts DEF IInv, Agreement, TypeInv, top, Contests
<1>3. /\ D \in st.alive /\ D \notin fired_defenders(st) /\ D.id \notin ctx.moved
      /\ D \in Tokens
  BY ArgumentFacts DEF find_valid_defender, at_hand, IInv, Agreement, TypeInv
<1>4. /\ top.victim \notin st.alive
      /\ H \in st.alive /\ H \in Tokens
      /\ here \in DOMAIN st.occupancy /\ st.occupancy[here] = H
      /\ H.id \in ctx.moved \/ \E g \in ToSet(st.fired) : g.defender = H /\ g.square = here
  BY DEF IInv, Agreement, TypeInv, Contested
<1>5. H # D /\ (H.id \in ctx.moved \/ H \in fired_defenders(st))
  BY <1>3, <1>4 DEF fired_defenders
<1> HIDE DEF D, H, here, from, left
<1>6. /\ st'.captured \in Seq(Captures)
      /\ ToSet(st'.captured) = ToSet(st.captured) \cup {fall}
      /\ taken(st') = taken(st) \cup {H}
      /\ \A i, j \in DOMAIN st'.captured :
           i # j => st'.captured[i][1] # st'.captured[j][1]
  <2>1. fall \in Captures /\ fall[1] = H
    BY <1>2, <1>4 DEF Captures
  <2> HIDE DEF fall
  <2>2. st'.captured = Append(st.captured, fall)
    BY <1>1
  <2>3. \A x \in ToSet(st.captured) : x[1] # fall[1]
    BY <1>4, <2>1 DEF IInv, Agreement, Logs, DiesOnce, taken
  <2>4. /\ st.captured \in Seq(Captures)
        /\ \A i, j \in DOMAIN st.captured :
             i # j => st.captured[i][1] # st.captured[j][1]
    BY DEF IInv, Agreement, Logs, DiesOnce, TypeInv
  <2>5. /\ st'.captured \in Seq(Captures)
        /\ ToSet(st'.captured) = ToSet(st.captured) \cup {fall}
        /\ \A i, j \in DOMAIN st'.captured :
             i # j => st'.captured[i][1] # st'.captured[j][1]
    BY <2>1, <2>2, <2>3, <2>4, CaptureFacts
  <2>6. taken(st') = taken(st) \cup {H}
    BY <2>1, <2>5 DEF taken
  <2> QED BY <2>5, <2>6
<1>7. fall[1] = H /\ fall[2] = here
  OBVIOUS
<1>8. /\ ev \in Recaptures /\ ev.defender = D /\ ev.captured = H /\ ev.square = here
  BY <1>2, <1>3, <1>4 DEF Recaptures
<1> HIDE DEF fall, ev
<1>9. /\ st'.fired \in Seq(Recaptures)
      /\ ToSet(st'.fired) = ToSet(st.fired) \cup {ev}
      /\ \A i, j \in DOMAIN st'.fired :
           i # j => st'.fired[i].defender # st'.fired[j].defender
  <2>1. \A x \in ToSet(st.fired) : x.defender # ev.defender
    BY <1>3, <1>8 DEF fired_defenders
  <2>2. /\ st.fired \in Seq(Recaptures)
        /\ \A i, j \in DOMAIN st.fired :
             i # j => st.fired[i].defender # st.fired[j].defender
    BY DEF IInv, Agreement, Logs, FiresOnce, TypeInv
  <2>3. st'.fired = Append(st.fired, ev)
    BY <1>1
  <2> QED BY <1>8, <2>1, <2>2, <2>3, FiringFacts
<1>10. /\ fired_defenders(st') = fired_defenders(st) \cup {D}
       /\ at_hand(st') = at_hand(st) \ {H, D}
  <2>1. fired_defenders(st') = fired_defenders(st) \cup {D}
    BY <1>8, <1>9 DEF fired_defenders
  <2> QED BY <1>1, <2>1 DEF at_hand
<1> DEFINE E == {p.victim : p \in {q \in Batteries : q.victim \in at_hand(st)}}
<1>11. /\ standing(st) = st.alive \ E
       /\ \A q, r \in DOMAIN st.occupancy : st.occupancy[q] = st.occupancy[r] => q = r
  BY ToBeStruck DEF IInv, Agreement, Conserved
\* Either an attacker has taken over the defender's own square, and the
\* defender is a victim still to be struck, or it stands there itself.
<1>12. \/ left = {} /\ D \in E
       \/ /\ left = {from} /\ D \notin E
          /\ from \in DOMAIN st.occupancy /\ st.occupancy[from] = D
  <2>1. CASE contested(ctx, st, from)
    <3>1. PICK p \in Batteries : p.square = from
      BY <2>1 DEF contested, Batteries
    <3>2. p.victim = D
      BY <1>3, <3>1, ArgumentFacts DEF from, IInv, Agreement, TypeInv
    <3> QED BY <1>3, <2>1, <3>1, <3>2 DEF left, at_hand
  <2>2. CASE ~ contested(ctx, st, from)
    <3>1. D \notin E
      <4> SUFFICES ASSUME NEW p \in Batteries, p.victim = D, D \in at_hand(st)
                   PROVE  FALSE
        OBVIOUS
      <4>1. p.square = from
        BY ArgumentFacts DEF from, IInv, Agreement, TypeInv
      <4>2. p \notin st.resolved
        BY DEF IInv, Agreement, Waiting
      <4> QED BY <2>2, <4>1, <4>2 DEF contested, Batteries
    <3>2. PICK r \in DOMAIN st.occupancy : st.occupancy[r] = D
      BY <1>3, <1>11, <3>1 DEF standing
    <3>3. r = from
      BY <1>3, <3>2 DEF IInv, Agreement, AtHome, from
    <3> QED BY <2>2, <3>1, <3>2, <3>3 DEF left
  <2> QED BY <2>1, <2>2
<1>13. /\ here \in DOMAIN st'.occupancy /\ st'.occupancy[here] = D
       /\ \A q \in DOMAIN st'.occupancy :
            q # here => q \in DOMAIN st.occupancy /\ q \notin left
                        /\ st'.occupancy[q] = st.occupancy[q]
       /\ \A q \in DOMAIN st.occupancy : q \notin left => q \in DOMAIN st'.occupancy
  BY <1>1
<1> HIDE DEF E
<1>14. TypeInv'
  BY <1>1, <1>6, <1>9
  DEF IInv, Agreement, TypeInv, Tokens, Captures, Recaptures, Contests, Batteries
<1>15. AtHome'
  BY <1>10, <1>13 DEF IInv, Agreement, AtHome
<1>16. Waiting'
  <2> SUFFICES ASSUME NEW p \in Batteries, p.victim \in at_hand(st')
               PROVE  /\ p \notin st'.resolved
                      /\ p.square \in DOMAIN st'.occupancy
                      /\ st'.occupancy[p.square] = p.holder
                      /\ p.holder \in st'.alive
    BY DEF Waiting, Batteries
  <2>1. /\ p.victim \in at_hand(st) /\ p.victim # D
        /\ p \notin st.resolved /\ p.holder \in st.alive
        /\ p.square \in DOMAIN st.occupancy /\ st.occupancy[p.square] = p.holder
    BY <1>10 DEF IInv, Agreement, Waiting
  <2>2. p.square # here
    BY <1>2, <1>4, <2>1, ArgumentFacts DEF here, at_hand, IInv, Agreement, TypeInv
  <2>3. p.square # from
    <3>1. p.victim \in Tokens /\ ctx.board[p.victim] = p.square
      BY ArgumentFacts DEF IInv, Agreement, TypeInv
    <3>2. ctx.board[p.victim] # ctx.board[D]
      BY <1>3, <2>1, <3>1, ArgumentFacts DEF IInv, Agreement, TypeInv
    <3> QED BY <3>1, <3>2 DEF from
  <2>4. p.holder # H
    BY <1>4, <1>11, <2>1, <2>2
  <2>5. p.square \notin left
    BY <2>3 DEF left
  <2> QED BY <1>1, <1>13, <2>1, <2>2, <2>4, <2>5
<1>17. Contested'
  <2>1. \E g \in ToSet(st'.fired) : g.defender = D /\ g.square = here
    BY <1>8, <1>9
  <2>2. D \in st'.alive /\ top.victim \notin st'.alive
    BY <1>1, <1>3, <1>4, <1>5
  <2>3. fight' = {[victim |-> H, holder |-> D]} /\ stack' # <<>> /\ top' = top
    BY <1>2 DEF H, D
  <2> QED BY <1>13, <2>1, <2>2, <2>3 DEF Contested, here
<1>18. FiresOnce'
  <2>1. \A g \in ToSet(st'.fired) : g.defender.id \notin ctx.moved
    BY <1>3, <1>8, <1>9 DEF IInv, Agreement, Logs, FiresOnce
  <2> QED BY <1>9, <2>1 DEF FiresOnce
<1>19. DiesOnce'
  <2>1. st'.alive = ctx.alive \ taken(st')
    BY <1>1, <1>6 DEF IInv, Agreement, Logs, DiesOnce
  <2>2. \A g \in ToSet(st'.fired) : g.captured \in taken(st')
    BY <1>6, <1>8, <1>9 DEF IInv, Agreement, Logs, DiesOnce
  <2> QED BY <1>6, <2>1, <2>2 DEF DiesOnce
<1>20. FiredLeftHome'
  <2> SUFFICES ASSUME NEW g \in ToSet(st'.fired), NEW x \in ToSet(st'.captured),
                      x[1] = g.defender
               PROVE  x[2] = g.square
    BY DEF FiredLeftHome
  <2>1. CASE g \in ToSet(st.fired) /\ x \in ToSet(st.captured)
    BY <2>1 DEF IInv, Agreement, Logs, FiredLeftHome
  <2>2. CASE g = ev /\ x \in ToSet(st.captured)
    BY <1>3, <1>8, <2>2 DEF IInv, Agreement, Logs, DiesOnce, taken
  <2>3. CASE g \in ToSet(st.fired) /\ x = fall
    <3>1. H.id \notin ctx.moved
      BY <1>7, <2>3 DEF IInv, Agreement, Logs, FiresOnce
    <3>2. PICK h \in ToSet(st.fired) : h.defender = H /\ h.square = here
      BY <1>4, <3>1
    <3>3. h = g
      BY <1>7, <2>3, <3>2 DEF IInv, Agreement, Logs, FiresOnce, ToSet
    <3> QED BY <1>7, <2>3, <3>2, <3>3
  <2>4. CASE g = ev /\ x = fall
    BY <1>7, <1>8, <2>4
  <2> QED BY <1>6, <1>9, <2>1, <2>2, <2>3, <2>4
<1>21. Conserved'
  <2>1. H \notin E
    BY <1>5, ArgumentFacts DEF E, at_hand, IInv, Agreement, TypeInv
  <2>2. {p.victim : p \in {q \in Batteries : q.victim \in at_hand(st')}} = E \ {D}
    BY <1>10, <2>1 DEF E
  <2>3. {p.victim : p \in {q \in Open : q.victim \in at_hand(st)}}'
          = {p.victim : p \in {q \in Batteries : q.victim \in at_hand(st')}}
    BY <1>1, <1>16 DEF Open, Batteries, Waiting
  <2>4. standing(st') = (standing(st) \ {H}) \cup {D}
    <3>1. ASSUME NEW t \in standing(st') PROVE t \in (standing(st) \ {H}) \cup {D}
      BY <1>4, <1>11, <1>13, <3>1 DEF standing
    <3>2. ASSUME NEW t \in standing(st), t # H PROVE t \in standing(st') \/ t = D
      <4>1. PICK q \in DOMAIN st.occupancy : st.occupancy[q] = t
        BY <3>2 DEF standing
      <4>2. CASE q \in left
        BY <1>12, <4>1, <4>2
      <4>3. CASE q \notin left
        BY <1>4, <1>13, <3>2, <4>1, <4>3 DEF standing
      <4> QED BY <4>2, <4>3
    <3>3. D \in standing(st')
      BY <1>13 DEF standing
    <3> QED BY <3>1, <3>2, <3>3
  <2>5. standing(st') = st'.alive \ (E \ {D})
    BY <1>1, <1>3, <1>5, <1>11, <1>12, <2>1, <2>4
  <2>6. ASSUME NEW q \in DOMAIN st'.occupancy, NEW r \in DOMAIN st'.occupancy,
               st'.occupancy[q] = st'.occupancy[r]
        PROVE  q = r
    <3>1. \A s \in DOMAIN st'.occupancy : s # here => st.occupancy[s] # D
      <4> SUFFICES ASSUME NEW s \in DOMAIN st'.occupancy, s # here,
                          st.occupancy[s] = D
                   PROVE  FALSE
        OBVIOUS
      <4>1. s \in DOMAIN st.occupancy /\ s \notin left
        BY <1>13
      <4>2. D \in standing(st)
        BY <4>1 DEF standing
      <4> QED BY <1>11, <1>12, <4>1, <4>2
    <3> QED BY <1>11, <1>13, <2>6, <3>1
  <2> QED BY <1>1, <2>2, <2>3, <2>5, <2>6 DEF Conserved
<1> QED BY <1>14, <1>15, <1>16, <1>17, <1>18, <1>19, <1>20, <1>21 DEF IInv, Agreement, Logs

-----------------------------------------------------------------------------
\* Every step of the recursion keeps the invariant.
LEMMA NextIInv == IInv /\ [Next]_vars => IInv'
<1> SUFFICES ASSUME IInv, [Next]_vars PROVE IInv'
  OBVIOUS
<1>1. CASE \E p \in Batteries : visit(p)
  <2> PICK p \in Batteries : visit(p)
    BY <1>1
  <2>1. fight = {} /\ stack' \in Seq(Batteries)
    BY DEF visit, IInv, Agreement, Contested
  <2> QED BY <2>1, CallKeepsIInv DEF visit, IInv, Agreement, TypeInv
<1>2. CASE descend
  <2>1. stack' \in Seq(Batteries)
    <3>1. PICK p \in ahead : stack' = Append(stack, p)
      BY <1>2 DEF descend
    <3>2. p \in Batteries
      BY DEF ahead, leaves_for, Batteries
    <3> QED BY <3>1, <3>2, AppendFacts DEF IInv, Agreement, TypeInv
  <2> QED BY <1>2, <2>1, CallKeepsIInv DEF descend, Calling, IInv, Agreement, TypeInv
<1>3. CASE overflow
  BY <1>3, CallKeepsIInv DEF overflow, Calling
<1>4. CASE miss
  BY <1>4, ReturnKeepsIInv DEF miss, Calling
<1>5. CASE strike
  BY <1>5, StrikeKeepsIInv
<1>6. CASE fire
  BY <1>6, FireKeepsIInv
<1>7. CASE settle
  <2>1. top.victim \notin at_hand(st)
    BY <1>7 DEF settle, IInv, Agreement, Contested, at_hand
  <2> QED BY <1>7, <2>1, ReturnKeepsIInv DEF settle
<1>8. CASE UNCHANGED vars
  <2>1. /\ ctx' = ctx /\ st' = st /\ stack' = stack /\ fight' = fight /\ raised' = raised
    BY <1>8 DEF vars
  <2>2. TypeInv'
    BY <2>1 DEF IInv, Agreement, TypeInv, Tokens, Captures, Recaptures, Contests, Batteries
  <2>3. AtHome' /\ Waiting' /\ Contested'
    BY <2>1 DEF IInv, Agreement, AtHome, Waiting, Contested, Batteries, top
  <2>4. Logs'
    BY <2>1 DEF IInv, Agreement, Logs, FiresOnce, DiesOnce, FiredLeftHome
  <2>5. Conserved'
    BY <2>1 DEF IInv, Agreement, Conserved, Open, Batteries
  <2> QED BY <2>2, <2>3, <2>4, <2>5 DEF IInv, Agreement
<1> QED BY <1>1, <1>2, <1>3, <1>4, <1>5, <1>6, <1>7, <1>8 DEF Next

\* The inductive invariant of stage B: what the recursion has logged agrees
\* with what it has removed and moved, at every step of every call.
THEOREM CascadeInvariant == Spec => []IInv
  BY InitIInv, NextIInv, PTL DEF Spec

\* The logs, the live tokens and the board agree: a token that neither moved
\* nor fired is at home, a battery whose victim is at hand still has its
\* attacker, and inside a battery the square is its live holder's.
THEOREM CascadeAgreement == Spec => []Agreement
<1>1. IInv => Agreement
  BY DEF IInv
<1> QED BY <1>1, CascadeInvariant, PTL

\* The recursion's state has its types, in every context.
THEOREM CascadeTypes == Spec => []TypeInv
<1>1. IInv => TypeInv
  BY DEF IInv, Agreement
<1> QED BY <1>1, CascadeInvariant, PTL

\* R9 and R10: no reservation cycle, chain of recaptures or order of the
\* batteries makes a defender fire twice, or one fire that moved.
THEOREM CascadeFiresOnce == Spec => []FiresOnce
<1>1. IInv => FiresOnce
  BY DEF IInv, Agreement, Logs
<1> QED BY <1>1, CascadeInvariant, PTL

\* R12: nothing is captured twice, and the tokens alive are exactly those the
\* stage began with and has not captured.
THEOREM CascadeDiesOnce == Spec => []DiesOnce
<1>1. IInv => DiesOnce
  BY DEF IInv, Agreement, Logs
<1> QED BY <1>1, CascadeInvariant, PTL

\* R7: a defender that fired is never captured on the square it left, whichever
\* battery's attacker came there before or after it fired.
THEOREM CascadeFiredLeftHome == Spec => []FiredLeftHome
<1>1. IInv => FiredLeftHome
  BY DEF IInv, Agreement, Logs
<1> QED BY <1>1, CascadeInvariant, PTL

\* R18: one square for each live token that is not still to be struck, and no
\* square for any other, after every capture and recapture.
THEOREM CascadeConserved == Spec => []Conserved
<1>1. IInv => Conserved
  BY DEF IInv, Agreement
<1> QED BY <1>1, CascadeInvariant, PTL
-----------------------------------------------------------------------------
(***************************************************************************)
(* The order of the captures.  A victim is struck only when whatever it    *)
(* may leave to defend is resolved (victim_present), and no victim of a    *)
(* resolved battery is struck any more.                                    *)
(***************************************************************************)
Struck(p) == <<p.victim, p.square>> \in ToSet(st.captured)
Defends(rho, q, p) == rho.defender = q.victim /\ rho.protege = p.victim
Precedence ==
  \A rho \in ToSet(ctx.res) \ ctx.silent, p \in Batteries, q \in Batteries :
    Struck(q) /\ Defends(rho, q, p) => p \in st.resolved
Unsilenced == \A f \in ToSet(st.fired) : f.reservation \notin ctx.silent
Ordered == Precedence /\ ProtegeFallsFirst /\ Unsilenced

\* Nothing is in order before the first capture.
LEMMA InitOrdered == Init => Ordered
<1> SUFFICES ASSUME Init PROVE Ordered
  OBVIOUS
<1>1. st.captured = <<>> /\ st.fired = <<>>
  BY DEF Init, cascade_start
<1>2. DOMAIN st.captured = {} /\ ToSet(st.captured) = {} /\ ToSet(st.fired) = {}
  BY <1>1 DEF ToSet
<1>3. QED
  BY <1>2 DEF Ordered, Precedence, Struck, ProtegeFallsFirst, Unsilenced

\* A step that logs nothing keeps the order.
LEMMA QuietOrdered ==
  ASSUME Ordered, ctx' = ctx, st'.captured = st.captured, st'.fired = st.fired,
         st.resolved \subseteq st'.resolved
  PROVE  Ordered'
<1>1. Precedence'
  BY DEF Ordered, Precedence, Struck, Defends, Batteries
<1>2. ProtegeFallsFirst'
  BY DEF Ordered, ProtegeFallsFirst, Batteries
<1>3. Unsilenced'
  BY DEF Ordered, Unsilenced
<1>4. QED
  BY <1>1, <1>2, <1>3 DEF Ordered

\* The victim that is struck now comes after every one it defends, and before
\* none that defends it.
LEMMA StrikeOrdered == IInv /\ Ordered /\ strike => Ordered'
<1> SUFFICES ASSUME IInv, Ordered, strike PROVE Ordered'
  OBVIOUS
<1> DEFINE e == <<top.victim, top.square>>
           n == Len(st.captured)
<1>1. /\ ctx' = ctx /\ st'.resolved = st.resolved /\ st'.fired = st.fired
      /\ st'.captured = Append(st.captured, e)
      /\ stack # <<>> /\ ahead = {} /\ top.victim \in at_hand(st)
  BY DEF IInv, Agreement, TypeInv, strike, Calling
<1>2. top \in Batteries
  BY <1>1, FrontFacts DEF IInv, Agreement, TypeInv, top
<1>3. top \notin st.resolved
  BY <1>1, <1>2 DEF IInv, Agreement, Waiting
<1>4. e \in Captures
  BY <1>1, <1>2 DEF IInv, TypeInv, at_hand, Captures, Contests
<1>5. e[1] = top.victim
  OBVIOUS
<1> HIDE DEF e
<1>6. /\ n \in Nat /\ DOMAIN st.captured = 1..n /\ DOMAIN st'.captured = 1..(n + 1)
      /\ \A i \in 1..n : st'.captured[i] = st.captured[i]
      /\ st'.captured[n + 1] = e
      /\ ToSet(st'.captured) = ToSet(st.captured) \cup {e}
  BY <1>1, <1>4, AppendFacts DEF IInv, TypeInv
<1> HIDE DEF n
\* One battery to a victim.
<1>7. ASSUME NEW p \in Batteries, <<p.victim, p.square>> = e PROVE p = top
  <2>1. p.victim = top.victim /\ p.square = top.square
    BY <1>7 DEF e
  <2>2. QED
    BY <1>2, <2>1, ArgumentFacts DEF IInv, TypeInv
\* Whatever the victim may leave to defend is resolved.
<1>8. ASSUME NEW rho \in ToSet(ctx.res) \ ctx.silent, NEW p \in Batteries,
             Defends(rho, top, p)
      PROVE  p \in st.resolved
  <2>1. PICK i \in DOMAIN ctx.res : ctx.res[i] = rho
    BY <1>8 DEF ToSet
  <2>2. names(ctx, i, top, p)
    BY <1>8, <2>1 DEF names, Defends
  <2>3. QED
    BY <1>1, <2>2 DEF ahead, leaves_for, Batteries
<1>9. Precedence'
  <2>1. SUFFICES ASSUME NEW rho \in ToSet(ctx.res) \ ctx.silent, NEW p \in Batteries,
                        NEW q \in Batteries, Struck(q)', Defends(rho, q, p)
                 PROVE  p \in st.resolved
    BY <1>1 DEF Precedence, Defends, Batteries
  <2>2. Struck(q) \/ q = top
    BY <1>6, <1>7, <2>1 DEF Struck
  <2>3. QED
    BY <1>8, <2>1, <2>2 DEF Ordered, Precedence
<1>10. ProtegeFallsFirst'
  <2>0. Batteries' = Batteries
    BY <1>1 DEF Batteries
  <2>1. SUFFICES ASSUME NEW rho \in ToSet(ctx.res) \ ctx.silent,
                        NEW i \in 1..(n + 1), NEW j \in 1..(n + 1),
                        NEW p \in Batteries, NEW q \in Batteries,
                        st'.captured[i] = <<p.victim, p.square>>,
                        st'.captured[j] = <<q.victim, q.square>>,
                        Defends(rho, q, p)
                 PROVE  i < j
    BY <1>1, <1>6, <2>0 DEF ProtegeFallsFirst, Defends
  <2>2. CASE i \in 1..n /\ j \in 1..n
    <3>1. /\ st.captured[i] = <<p.victim, p.square>>
          /\ st.captured[j] = <<q.victim, q.square>>
      BY <1>6, <2>1, <2>2
    <3>2. QED
      <4>1. i \in DOMAIN st.captured /\ j \in DOMAIN st.captured
        BY <1>6, <2>2
      <4>2. p.victim = rho.protege /\ q.victim = rho.defender
        BY <2>1 DEF Defends
      <4>3. QED
        BY <3>1, <4>1, <4>2 DEF Ordered, ProtegeFallsFirst
  <2>3. CASE i \in 1..n /\ j = n + 1
    BY <1>6, <2>3
  <2>4. CASE i = n + 1
    <3>1. p = top
      BY <1>6, <1>7, <2>1, <2>4
    <3>2. CASE j \in 1..n
      <4>1. Struck(q)
        BY <1>6, <2>1, <3>2 DEF Struck, ToSet
      <4>2. QED
        BY <1>3, <2>1, <3>1, <4>1 DEF Ordered, Precedence
    <3>3. CASE j = n + 1
      <4>1. q = top
        BY <1>6, <1>7, <2>1, <3>3
      <4>2. QED
        BY <1>3, <1>8, <2>1, <3>1, <4>1
    <3>4. QED
      BY <1>6, <3>2, <3>3
  <2>5. QED
    BY <1>6, <2>2, <2>3, <2>4
<1>11. Unsilenced'
  BY <1>1 DEF Ordered, Unsilenced
<1>12. QED
  BY <1>9, <1>10, <1>11 DEF Ordered

\* A holder that falls to a defender is no victim on its own square.
LEMMA FireOrdered == IInv /\ Ordered /\ fire => Ordered'
<1> SUFFICES ASSUME IInv, Ordered, fire PROVE Ordered'
  OBVIOUS
<1>1. PICK f \in fight, rho \in ToSet(ctx.res) :
        /\ stack # <<>>
        /\ rho \in find_valid_defender(ctx, st, f.victim, top.square)
        /\ st' = recapture(ctx, st, rho, f.holder, top.square)
        /\ ctx' = ctx
  BY DEF fire
<1> DEFINE e  == <<f.holder, top.square>>
           ev == [defender |-> rho.defender, captured |-> f.holder,
                  square |-> top.square, reservation |-> rho]
           n  == Len(st.captured)
<1>2. /\ st'.captured = Append(st.captured, e) /\ st'.fired = Append(st.fired, ev)
      /\ st'.resolved = st.resolved
  BY <1>1 DEF recapture, IInv, TypeInv
<1>3. rho \notin ctx.silent /\ rho.defender \in Tokens /\ top \in Batteries
  <2>1. rho.defender \in st.alive
    BY <1>1 DEF find_valid_defender, at_hand
  <2>2. QED
    BY <1>1, <2>1, FrontFacts DEF find_valid_defender, IInv, TypeInv, top
<1>4. top.victim \notin st.alive /\ f.holder \in st.alive
  BY <1>1 DEF IInv, Agreement, Contested
<1>5. e \in Captures /\ ev \in Recaptures /\ ev.reservation = rho
  BY <1>1, <1>3, <1>4 DEF IInv, TypeInv, Captures, Recaptures, Contests
<1>6. ASSUME NEW p \in Batteries PROVE <<p.victim, p.square>> # e
  <2>1. SUFFICES ASSUME p.victim = f.holder, p.square = top.square PROVE FALSE
    OBVIOUS
  <2>2. p = top
    BY <1>3, <2>1, ArgumentFacts DEF IInv, TypeInv
  <2>3. QED
    BY <1>4, <2>1, <2>2
<1> HIDE DEF e, ev
<1>7. /\ n \in Nat /\ DOMAIN st.captured = 1..n /\ DOMAIN st'.captured = 1..(n + 1)
      /\ \A i \in 1..n : st'.captured[i] = st.captured[i]
      /\ st'.captured[n + 1] = e
      /\ ToSet(st'.captured) = ToSet(st.captured) \cup {e}
  BY <1>2, <1>5, AppendFacts DEF IInv, TypeInv
<1>8. ToSet(st'.fired) = ToSet(st.fired) \cup {ev}
  BY <1>2, <1>5, AppendFacts DEF IInv, TypeInv
<1> HIDE DEF n
<1>9. Precedence'
  <2>1. \A q \in Batteries : Struck(q)' => Struck(q)
    BY <1>1, <1>6, <1>7 DEF Struck
  <2>2. Batteries' = Batteries
    BY <1>1 DEF Batteries
  <2>3. QED
    BY <1>1, <1>2, <2>1, <2>2 DEF Ordered, Precedence, Defends
<1>10. ProtegeFallsFirst'
  <2>1. ASSUME NEW i \in 1..(n + 1), NEW p \in Batteries,
               st'.captured[i] = <<p.victim, p.square>>
        PROVE  i \in 1..n /\ st.captured[i] = <<p.victim, p.square>>
    <3>1. i # n + 1
      BY <1>6, <1>7, <2>1
    <3>2. i \in 1..n
      BY <1>7, <3>1
    <3>3. QED
      BY <1>7, <2>1, <3>2
  <2>2. Batteries' = Batteries
    BY <1>1 DEF Batteries
  <2>3. QED
    BY <1>1, <1>7, <2>1, <2>2 DEF Ordered, ProtegeFallsFirst
<1>11. Unsilenced'
  BY <1>1, <1>3, <1>5, <1>8 DEF Ordered, Unsilenced
<1>12. QED
  BY <1>9, <1>10, <1>11 DEF Ordered

\* Every step of the recursion keeps the order.
LEMMA NextOrdered == IInv /\ Ordered /\ [Next]_vars => Ordered'
<1> SUFFICES ASSUME IInv, Ordered, [Next]_vars PROVE Ordered'
  OBVIOUS
<1>1. CASE (\E p \in Batteries : visit(p)) \/ descend \/ overflow \/ UNCHANGED vars
  <2>1. ctx' = ctx /\ st' = st
    BY <1>1 DEF visit, descend, overflow, vars
  <2>2. QED
    BY <2>1, QuietOrdered
<1>2. CASE miss \/ settle
  <2>1. /\ ctx' = ctx /\ st'.captured = st.captured /\ st'.fired = st.fired
        /\ st'.resolved = st.resolved \cup {top}
    BY <1>2 DEF miss, settle, IInv, TypeInv
  <2>2. QED
    BY <2>1, QuietOrdered
<1>3. CASE strike
  BY <1>3, StrikeOrdered
<1>4. CASE fire
  BY <1>4, FireOrdered
<1>5. QED
  BY <1>1, <1>2, <1>3, <1>4 DEF Next

\* A reservation of two victims that defend each other is silent.
LEMMA MutualIsSilent ==
  ASSUME ctx \in Contexts, NEW rho \in ToSet(ctx.res), NEW sigma \in ToSet(ctx.res),
         rho.defender = sigma.protege, sigma.defender = rho.protege,
         {rho.defender, rho.protege} \subseteq {p.victim : p \in Batteries}
  PROVE  rho \in ctx.silent
<1>1. ctx.silent = mutual_cycle_blacklist(ctx.pending, ctx.res)
  BY ContextsAssumption DEF ContextOK, SilenceOf
<1> DEFINE y == <<rho, sigma>>
<1>2. y[1] = rho /\ y[2] = sigma /\ y \in ToSet(ctx.res) \X ToSet(ctx.res)
  OBVIOUS
<1> HIDE DEF y
<1>3. rho \in {y[1], y[2]}
  BY <1>2
<1>4. QED
  BY <1>1, <1>2, <1>3 DEF mutual_cycle_blacklist, Batteries

\* The order in which tokens fall agrees with what they defend, whatever order
\* tie_break gives and wherever the recursion stands.
THEOREM CascadeOrdered == Spec => []Ordered
<1>1. Spec => []IInv
  BY CascadeInvariant
<1>2. QED
  BY InitOrdered, NextOrdered, <1>1, PTL DEF Spec

\* R7: of a defender and the token it defends, both struck on their own squares,
\* the defended one fell first, unless the two defend each other.
THEOREM CascadeProtegeFallsFirst == Spec => []ProtegeFallsFirst
<1>1. Ordered => ProtegeFallsFirst
  BY DEF Ordered
<1>2. QED
  BY <1>1, CascadeOrdered, PTL

\* R11: two victims that defend each other never fire for each other, and when
\* the recursion is done each has fallen or has left for a third.
THEOREM CascadeMutualDefence == Spec => []MutualDefenceIsSilent
<1>1. ASSUME IInv, Ordered PROVE MutualDefenceIsSilent
  <2>1. SUFFICES ASSUME NEW rho \in ToSet(ctx.res), NEW sigma \in ToSet(ctx.res),
                        rho.defender = sigma.protege, sigma.defender = rho.protege,
                        {rho.defender, rho.protege} \subseteq {p.victim : p \in Batteries}
                 PROVE  /\ \A f \in ToSet(st.fired) : f.reservation # rho
                        /\ Done => rho.defender \in taken(st) \cup fired_defenders(st)
    BY DEF MutualDefenceIsSilent
  <2>2. rho \in ctx.silent
    BY <1>1, <2>1, MutualIsSilent DEF IInv, TypeInv
  <2>3. \A f \in ToSet(st.fired) : f.reservation # rho
    BY <1>1, <2>2 DEF Ordered, Unsilenced
  <2>4. ASSUME Done PROVE rho.defender \in taken(st) \cup fired_defenders(st)
    <3>1. PICK p \in Batteries : p.victim = rho.defender
      BY <2>1
    <3>2. p \in st.resolved
      BY <2>4 DEF Done, Open
    <3>3. p.victim \notin at_hand(st)
      BY <1>1, <3>2 DEF IInv, Agreement, Waiting
    <3>4. p.victim \in ctx.alive /\ st.alive = ctx.alive \ taken(st)
      BY <1>1, ArgumentFacts DEF IInv, Agreement, TypeInv, Logs, DiesOnce
    <3>5. QED
      BY <3>1, <3>3, <3>4 DEF at_hand
  <2>5. QED
    BY <2>3, <2>4
<1>2. QED
  BY <1>1, CascadeInvariant, CascadeOrdered, PTL

-----------------------------------------------------------------------------
(***************************************************************************)
(* The recursion and the operator.  resolve_defense puts the batteries in  *)
(* an order and then resolves one after the other; the recursion finds the *)
(* next battery while it resolves them, and captures one token at a time.  *)
(***************************************************************************)
\* What a context lists: each battery once, with a victim of its own.
LEMMA ListFacts ==
  ASSUME NEW c \in Contexts
  PROVE  /\ c.pending \in Seq(ToSet(c.pending)) /\ NoRepeats(c.pending)
         /\ Len(c.pending) \in Nat /\ DOMAIN c.pending = 1..Len(c.pending)
         /\ IsFiniteSet(ToSet(c.pending)) /\ Cardinality(ToSet(c.pending)) = Len(c.pending)
         /\ c.res \in Seq(ToSet(c.res))
         /\ Len(c.res) \in Nat /\ DOMAIN c.res = 1..Len(c.res)
         /\ \A x \in ToSet(c.res) : x.age \in Nat \X Nat
         /\ \A x, y \in ToSet(c.res) : x.protege = y.protege /\ x.age = y.age => x = y
         /\ \A p, q \in ToSet(c.pending) : p.victim = q.victim => p = q
<1>1. ListsOf(c) /\ BatteriesOf(c)
  BY ContextsAssumption DEF ContextOK
<1>2. c.pending \in Seq(ToSet(c.pending)) /\ NoRepeats(c.pending)
  BY <1>1 DEF ListsOf, NoRepeats
<1>3. IsFiniteSet(ToSet(c.pending)) /\ Cardinality(ToSet(c.pending)) = Len(c.pending)
  BY <1>2, PendingCount
<1>4. /\ c.res \in Seq(ToSet(c.res))
      /\ \A x \in ToSet(c.res) : x.age \in Nat \X Nat
      /\ \A x, y \in ToSet(c.res) : x.protege = y.protege /\ x.age = y.age => x = y
  BY <1>1 DEF ListsOf
<1>5. \A p, q \in ToSet(c.pending) : p.victim = q.victim => p = q
  BY <1>1 DEF BatteriesOf
<1>6. /\ Len(c.pending) \in Nat /\ DOMAIN c.pending = 1..Len(c.pending)
      /\ Len(c.res) \in Nat /\ DOMAIN c.res = 1..Len(c.res)
  BY <1>2, <1>4
<1> QED
  BY <1>2, <1>3, <1>4, <1>5, <1>6

\* x is the first of the list that is in S.
FirstOf(list, S, x) ==
  \E i \in DOMAIN list : list[i] = x /\ x \in S /\ \A j \in 1..(i - 1) : list[j] \notin S

\* There is one first.
LEMMA OneFirst ==
  ASSUME NEW T, NEW list \in Seq(T), NEW S, NEW x, NEW y, FirstOf(list, S, x), FirstOf(list, S, y)
  PROVE  x = y
<1>1. DOMAIN list = 1..Len(list) /\ Len(list) \in Nat
  OBVIOUS
<1>2. PICK i \in 1..Len(list) : list[i] = x /\ x \in S /\ \A j \in 1..(i - 1) : list[j] \notin S
  BY <1>1 DEF FirstOf
<1>3. PICK k \in 1..Len(list) : list[k] = y /\ y \in S /\ \A j \in 1..(k - 1) : list[j] \notin S
  BY <1>1 DEF FirstOf
<1>4. ~ (i \in 1..(k - 1)) /\ ~ (k \in 1..(i - 1))
  BY <1>2, <1>3
<1>5. i = k
  BY <1>1, <1>4
<1> QED
  BY <1>2, <1>3, <1>5

\* only(list, S) begins with it.
LEMMA HeadIsFirst ==
  ASSUME NEW T, NEW list \in Seq(T), NoRepeats(list), NEW S, ToSet(list) \cap S # {}
  PROVE  FirstOf(list, S, Head(only(list, S)))
<1> DEFINE part == only(list, S)
<1>1. part \in Seq(T) /\ ToSet(part) = ToSet(list) \cap S
  BY OnlyElements
<1>2. PICK f : Picked(list, part, f)
  BY OnlyPlaces
<1> HIDE DEF part
<1>3. DOMAIN part = 1..Len(part) /\ Len(part) \in Nat /\ DOMAIN list = 1..Len(list) /\ Len(list) \in Nat
  BY <1>1
<1>4. part # <<>>
  BY <1>1 DEF ToSet
<1>5. 1 \in DOMAIN part /\ Head(part) = part[1]
  BY <1>1, <1>3, <1>4
<1>6. f[1] \in DOMAIN list /\ list[f[1]] = part[1] /\ part[1] \in S
  BY <1>1, <1>2, <1>5 DEF Picked, ToSet
<1>7. ASSUME NEW j \in 1..(f[1] - 1), list[j] \in S PROVE FALSE
  <2>1. j \in DOMAIN list
    BY <1>3, <1>6
  <2>2. list[j] \in ToSet(part)
    BY <1>1, <1>7, <2>1 DEF ToSet
  <2>3. PICK y \in DOMAIN part : part[y] = list[j]
    BY <2>2 DEF ToSet
  <2>4. f[y] \in DOMAIN list /\ list[f[y]] = list[j]
    BY <1>2, <2>3 DEF Picked
  <2>5. f[y] = j
    BY <2>1, <2>4 DEF NoRepeats
  <2>6. y = 1 \/ f[1] < f[y]
    BY <1>2, <1>3, <1>5 DEF Picked
  <2> QED
    BY <1>3, <1>6, <2>5, <2>6
<1>8. FirstOf(list, S, part[1])
  BY <1>6, <1>7 DEF FirstOf
<1> QED
  BY <1>5, <1>8 DEF part

\* The precedence leads from battery p to battery q.
Leaf(c, p, done, q) ==
  /\ q \in leaves_for(c, p, done)
  /\ \E i \in DOMAIN c.res :
       /\ names(c, i, p, q)
       /\ \A r \in leaves_for(c, p, done), j \in 1..(i - 1) : ~ names(c, j, p, r)

\* It leads to one battery.
LEMMA OneLeaf ==
  ASSUME NEW c \in Contexts, NEW p, NEW done, NEW q, NEW x, Leaf(c, p, done, q), Leaf(c, p, done, x)
  PROVE  q = x
<1>1. DOMAIN c.res = 1..Len(c.res) /\ Len(c.res) \in Nat
  BY ListFacts
<1>2. q \in leaves_for(c, p, done) /\ x \in leaves_for(c, p, done)
  BY DEF Leaf
<1>3. PICK i \in 1..Len(c.res) :
        /\ names(c, i, p, q)
        /\ \A r \in leaves_for(c, p, done), j \in 1..(i - 1) : ~ names(c, j, p, r)
  BY <1>1 DEF Leaf
<1>4. PICK k \in 1..Len(c.res) :
        /\ names(c, k, p, x)
        /\ \A r \in leaves_for(c, p, done), j \in 1..(k - 1) : ~ names(c, j, p, r)
  BY <1>1 DEF Leaf
<1>5. ~ (i \in 1..(k - 1)) /\ ~ (k \in 1..(i - 1))
  BY <1>2, <1>3, <1>4
<1>6. i = k
  BY <1>1, <1>5
<1>7. q.victim = x.victim
  BY <1>3, <1>4, <1>6 DEF names
<1>8. q \in ToSet(c.pending) /\ x \in ToSet(c.pending)
  BY <1>2 DEF leaves_for
<1> QED
  BY <1>7, <1>8, ListFacts

\* first_leaf is where it leads.
LEMMA LeafIs ==
  ASSUME NEW c \in Contexts, NEW p, NEW done, leaves_for(c, p, done) # {}
  PROVE  Leaf(c, p, done, first_leaf(c, p, done))
<1> DEFINE leaves == leaves_for(c, p, done)
           first(q, i) == names(c, i, p, q) /\ \A r \in leaves, j \in 1..(i - 1) : ~ names(c, j, p, r)
           I == {i \in DOMAIN c.res : \E q \in leaves : names(c, i, p, q)}
<1>1. \A q \in leaves : \E i \in DOMAIN c.res : names(c, i, p, q)
  BY DEF leaves_for
<1>2. Len(c.res) \in Nat /\ DOMAIN c.res = 1..Len(c.res)
  BY ListFacts
<1>3. first_leaf(c, p, done) = CHOOSE q \in leaves : \E i \in DOMAIN c.res : first(q, i)
  BY DEF first_leaf
<1>4. \A q : Leaf(c, p, done, q) <=> q \in leaves /\ \E i \in DOMAIN c.res : first(q, i)
  BY DEF Leaf
<1>5. leaves # {}
  OBVIOUS
<1> HIDE DEF leaves
<1>6. I \in SUBSET Nat /\ I # {}
  BY <1>1, <1>2, <1>5
<1>7. PICK i \in I : \A k \in I : i <= k
  BY <1>6, LeastNat
<1>8. PICK q \in leaves : names(c, i, p, q)
  BY <1>7
<1>9. first(q, i)
  <2> SUFFICES ASSUME NEW r \in leaves, NEW j \in 1..(i - 1), names(c, j, p, r) PROVE FALSE
    BY <1>8
  <2>1. i \in 1..Len(c.res)
    BY <1>2, <1>7
  <2>2. j \in DOMAIN c.res /\ ~ (i <= j)
    BY <1>2, <2>1
  <2>3. j \in I
    BY <2>2
  <2> QED
    BY <1>7, <2>2, <2>3
<1>10. i \in DOMAIN c.res
  BY <1>7
<1> HIDE DEF first
<1> QED
  BY <1>3, <1>4, <1>8, <1>9, <1>10

\* When another battery is resolved it leads there still.
LEMMA LeafStays ==
  ASSUME NEW c \in Contexts, NEW p, NEW done, NEW q, NEW t, Leaf(c, p, done, q), t # q
  PROVE  Leaf(c, p, done \cup {t}, q)
<1>1. leaves_for(c, p, done \cup {t}) = leaves_for(c, p, done) \ {t}
  BY DEF leaves_for
<1> QED
  BY <1>1 DEF Leaf

(***************************************************************************)
(* The exchanges on one square.                                            *)
(***************************************************************************)
\* The victim of battery p has been captured by its attacker.
struck(s, p) ==
  [st |-> [s EXCEPT !.alive = @ \ {p.victim}, !.captured = Append(@, <<p.victim, p.square>>)],
   victim |-> p.victim, holder |-> p.holder]

\* The chain of resolve_square on the square of battery p, from state s.
exchanges(c, p, s) ==
  CHOOSE g : g = [k \in 0..Len(c.res) |->
                    IF k = 0 THEN struck(s, p) ELSE answer(c, p.square, g[k - 1])]

\* The chain goes from one exchange to the next.
LEMMA ExchangesAre ==
  ASSUME NEW c \in Contexts, NEW p, NEW s
  PROVE  /\ exchanges(c, p, s)[0] = struck(s, p)
         /\ \A k \in 0..(Len(c.res) - 1) :
              exchanges(c, p, s)[k + 1] = answer(c, p.square, exchanges(c, p, s)[k])
<1> DEFINE n == Len(c.res)
           x == exchanges(c, p, s)
<1>1. n \in Nat
  BY ListFacts
<1>2. \E g : ChainOf(c, p.square, struck(s, p), n, g)
  BY <1>1, ChainExists
<1>3. \E g : g = [k \in 0..n |-> IF k = 0 THEN struck(s, p) ELSE answer(c, p.square, g[k - 1])]
  BY <1>2 DEF ChainOf
<1>4. x = [k \in 0..n |-> IF k = 0 THEN struck(s, p) ELSE answer(c, p.square, x[k - 1])]
  BY <1>3 DEF exchanges
<1> HIDE DEF x
<1>5. x[0] = struck(s, p)
  <2>1. 0 \in 0..n
    BY <1>1
  <2> QED
    BY <1>4, <2>1
<1>6. ASSUME NEW k \in 0..(n - 1) PROVE x[k + 1] = answer(c, p.square, x[k])
  <2>1. k + 1 \in 0..n /\ k + 1 # 0 /\ (k + 1) - 1 = k
    BY <1>1
  <2> QED
    BY <1>4, <2>1
<1> QED
  BY <1>5, <1>6 DEF x

\* resolve_square ends with the last of them.
LEMMA ResolveIs ==
  ASSUME NEW c, NEW p, NEW s
  PROVE  resolve_square(c, s, p) =
           [(IF p.victim \in at_hand(s) THEN exchanges(c, p, s)[Len(c.res)].st ELSE s)
              EXCEPT !.resolved = @ \cup {p}]
  BY DEF resolve_square, exchanges, answer, struck

\* The defender that answers has not fired before, has fired afterwards, and
\* its reservation is one of the context's.
LEMMA AnswerFires ==
  ASSUME NEW c \in Contexts, NEW square, NEW x, StageRecord(x.st), x.st.fired \in Seq(ToSet(x.st.fired)),
         find_valid_defender(c, x.st, x.victim, square) # {}
  PROVE  LET y == answer(c, square, x)
         IN  /\ StageRecord(y.st) /\ y.st.fired \in Seq(ToSet(y.st.fired))
             /\ \E rho \in ToSet(c.res) :
                  /\ rho.defender \notin fired_defenders(x.st)
                  /\ fired_defenders(y.st) = fired_defenders(x.st) \cup {rho.defender}
<1> DEFINE valid == find_valid_defender(c, x.st, x.victim, square)
           r == CHOOSE z \in valid : TRUE
           e == [defender |-> r.defender, captured |-> x.holder, square |-> square, reservation |-> r]
           y == answer(c, square, x)
<1>1. r \in valid
  OBVIOUS
<1>2. r \in ToSet(c.res) /\ r.defender \in at_hand(x.st)
  BY <1>1 DEF find_valid_defender
<1>3. y.st = recapture(c, x.st, r, x.holder, square)
  <2>1. y = [st |-> recapture(c, x.st, r, x.holder, square), victim |-> x.holder, holder |-> r.defender]
    BY DEF answer
  <2> QED
    BY <2>1
<1> HIDE DEF y, r, valid
<1>4. StageRecord(y.st) /\ y.st.fired = Append(x.st.fired, e)
  BY <1>3 DEF recapture, StageRecord
<1> HIDE DEF e
<1>5. ToSet(Append(x.st.fired, e)) = ToSet(x.st.fired) \cup {e} /\ Append(x.st.fired, e) \in Seq(ToSet(x.st.fired) \cup {e})
  <2> DEFINE S == ToSet(x.st.fired) \cup {e}
             u == x.st.fired
  <2>1. u \in Seq(S) /\ e \in S
    OBVIOUS
  <2> HIDE DEF S, u
  <2>2. Append(u, e) \in Seq(S) /\ ToSet(Append(u, e)) = ToSet(u) \cup {e}
    BY <2>1, AppendElements
  <2> QED
    BY <2>2 DEF S, u
<1>6. y.st.fired \in Seq(ToSet(y.st.fired))
  BY <1>4, <1>5
<1>7. fired_defenders(y.st) = fired_defenders(x.st) \cup {r.defender}
  <2>1. e.defender = r.defender
    BY DEF e
  <2> QED
    BY <1>4, <1>5, <2>1 DEF fired_defenders
<1>8. r.defender \notin fired_defenders(x.st)
  BY <1>2 DEF at_hand
<1> QED
  BY <1>2, <1>4, <1>6, <1>7, <1>8 DEF y

\* After as many exchanges as there are reservations nothing answers: each
\* exchange takes a defender that has not fired yet.
LEMMA ExchangesEnd ==
  ASSUME NEW c \in Contexts, NEW p, NEW s, StageRecord(s), s.fired \in Seq(ToSet(s.fired))
  PROVE  LET x == exchanges(c, p, s)[Len(c.res)]
         IN  find_valid_defender(c, x.st, x.victim, p.square) = {}
<1> DEFINE n == Len(c.res)
           g == exchanges(c, p, s)
           valid(k) == find_valid_defender(c, g[k].st, g[k].victim, p.square)
           D == {rho.defender : rho \in ToSet(c.res)}
           F(k) == fired_defenders(g[k].st) \cap D
           I == {k \in 0..n : \/ valid(k) = {}
                              \/ /\ StageRecord(g[k].st) /\ g[k].st.fired \in Seq(ToSet(g[k].st.fired))
                                 /\ Cardinality(F(k)) >= k}
<1>1. n \in Nat /\ DOMAIN c.res = 1..n
  BY ListFacts
<1>2. g[0] = struck(s, p) /\ \A k \in 0..(n - 1) : g[k + 1] = answer(c, p.square, g[k])
  BY ExchangesAre
<1>3. IsFiniteSet(D) /\ Cardinality(D) <= n
  <2>1. IsFiniteSet(1..n) /\ Cardinality(1..n) = n
    <3> HIDE DEF n, g
    <3>1. 1 \in Int /\ n \in Int
      BY <1>1
    <3>2. IsFiniteSet(1..n) /\ Cardinality(1..n) = IF 1 > n THEN 0 ELSE n - 1 + 1
      BY <3>1, FS_Interval
    <3> QED
      BY <1>1, <3>2
  <2>2. D = {c.res[i].defender : i \in 1..n}
    BY <1>1 DEF ToSet
  <2> DEFINE h == [i \in 1..n |-> c.res[i].defender]
  <2>3. h \in Surjection(1..n, D)
    BY <2>2 DEF Surjection
  <2> QED
    BY <2>1, <2>3, FS_Surjection
<1> HIDE DEF D, g
<1>4. \A k : IsFiniteSet(F(k)) /\ Cardinality(F(k)) \in Nat /\ Cardinality(F(k)) <= n
  <2> SUFFICES ASSUME NEW k
               PROVE  IsFiniteSet(F(k)) /\ Cardinality(F(k)) \in Nat /\ Cardinality(F(k)) <= n
    OBVIOUS
  <2>1. F(k) \in SUBSET D
    OBVIOUS
  <2> HIDE DEF F
  <2>2. IsFiniteSet(F(k)) /\ Cardinality(F(k)) <= Cardinality(D)
    BY <1>3, <2>1, FS_Subset
  <2>3. Cardinality(F(k)) \in Nat /\ Cardinality(D) \in Nat
    BY <1>3, <2>2, FS_CardinalityType
  <2> QED
    BY <1>1, <1>3, <2>2, <2>3
<1>5. 0 \in I
  <2>1. StageRecord(g[0].st) /\ g[0].st.fired = s.fired
    <3>1. g[0].st = [s EXCEPT !.alive = @ \ {p.victim}, !.captured = Append(@, <<p.victim, p.square>>)]
      BY <1>2 DEF struck
    <3>2. s = [occupancy |-> s.occupancy, alive |-> s.alive, captured |-> s.captured,
               fired |-> s.fired, resolved |-> s.resolved]
      BY DEF StageRecord
    <3>3. g[0].st = [occupancy |-> s.occupancy, alive |-> s.alive \ {p.victim},
                     captured |-> Append(s.captured, <<p.victim, p.square>>),
                     fired |-> s.fired, resolved |-> s.resolved]
      BY <3>1, <3>2
    <3> QED
      BY <3>3 DEF StageRecord
  <2>2. g[0].st.fired \in Seq(ToSet(g[0].st.fired))
    BY <2>1
  <2> HIDE DEF F, valid
  <2> QED
    BY <1>1, <1>4, <2>1, <2>2
<1>6. ASSUME NEW k \in 0..(n - 1), k \in I PROVE k + 1 \in I
  <2>1. k + 1 \in 0..n /\ k \in Nat /\ g[k + 1] = answer(c, p.square, g[k])
    BY <1>1, <1>2
  <2>2. CASE valid(k) = {}
    <3>1. g[k + 1] = g[k]
      BY <2>1, <2>2 DEF answer
    <3>2. valid(k + 1) = {}
      BY <2>2, <3>1
    <3> QED
      BY <2>1, <3>2
  <2>3. CASE valid(k) # {}
    <3>1. /\ StageRecord(g[k].st) /\ g[k].st.fired \in Seq(ToSet(g[k].st.fired))
          /\ Cardinality(F(k)) >= k
      BY <1>6, <2>3
    <3>2. /\ StageRecord(g[k + 1].st) /\ g[k + 1].st.fired \in Seq(ToSet(g[k + 1].st.fired))
          /\ \E rho \in ToSet(c.res) :
               /\ rho.defender \notin fired_defenders(g[k].st)
               /\ fired_defenders(g[k + 1].st) = fired_defenders(g[k].st) \cup {rho.defender}
      <4> DEFINE x == g[k]
      <4>1. /\ find_valid_defender(c, x.st, x.victim, p.square) # {}
            /\ StageRecord(x.st) /\ x.st.fired \in Seq(ToSet(x.st.fired))
        BY <2>3, <3>1
      <4> HIDE DEF x
      <4>2. LET y == answer(c, p.square, x)
            IN  /\ StageRecord(y.st) /\ y.st.fired \in Seq(ToSet(y.st.fired))
                /\ \E rho \in ToSet(c.res) :
                     /\ rho.defender \notin fired_defenders(x.st)
                     /\ fired_defenders(y.st) = fired_defenders(x.st) \cup {rho.defender}
        BY <4>1, AnswerFires
      <4> QED
        BY <2>1, <4>2 DEF x
    <3>3. PICK rho \in ToSet(c.res) :
            /\ rho.defender \notin fired_defenders(g[k].st)
            /\ fired_defenders(g[k + 1].st) = fired_defenders(g[k].st) \cup {rho.defender}
      BY <3>2
    <3>4. F(k + 1) = F(k) \cup {rho.defender} /\ rho.defender \notin F(k)
      BY <3>3 DEF D
    <3> HIDE DEF F, valid
    <3>5. Cardinality(F(k + 1)) = Cardinality(F(k)) + 1
      BY <1>4, <3>4, FS_AddElement
    <3>6. Cardinality(F(k + 1)) >= k + 1
      BY <1>4, <2>1, <3>1, <3>5
    <3> QED
      BY <2>1, <3>2, <3>6
  <2> QED
    BY <2>2, <2>3
<1>7. n \in I
  <2> HIDE DEF I
  <2>1. \A k \in 0..n : k \in I
    BY <1>1, <1>5, <1>6, InductTo
  <2> QED
    BY <1>1, <2>1
<1>8. ASSUME valid(n) # {} PROVE FALSE
  <2>1. /\ StageRecord(g[n].st) /\ g[n].st.fired \in Seq(ToSet(g[n].st.fired))
        /\ Cardinality(F(n)) >= n
    BY <1>7, <1>8
  <2>2. PICK rho \in ToSet(c.res) : rho.defender \notin fired_defenders(g[n].st)
    BY <1>8, <2>1, AnswerFires
  <2>3. rho.defender \in D /\ rho.defender \notin F(n) /\ F(n) \in SUBSET D
    BY <2>2 DEF D
  <2> HIDE DEF F, valid
  <2>4. F(n) # D /\ Cardinality(F(n)) < Cardinality(D)
    BY <1>3, <2>3, FS_Subset, FS_CardinalityType
  <2>5. Cardinality(D) \in Nat
    BY <1>3, FS_CardinalityType
  <2> QED
    BY <1>1, <1>3, <1>4, <2>1, <2>4, <2>5
<1> QED
  BY <1>8 DEF g

(***************************************************************************)
(* The order of the batteries, and what resolving them one after the other *)
(* comes to.                                                               *)
(***************************************************************************)
\* The first k batteries in the order of precedence, for every k.
orders(c) ==
  CHOOSE g : g = [k \in 0..Len(c.pending) |-> IF k = 0 THEN <<>> ELSE next_of(c, g[k - 1])]

\* The order grows by one battery at a time.
LEMMA OrdersAre ==
  ASSUME NEW c \in Contexts
  PROVE  /\ orders(c)[0] = <<>>
         /\ \A k \in 0..(Len(c.pending) - 1) : orders(c)[k + 1] = next_of(c, orders(c)[k])
         /\ precedence_order(c) = orders(c)[Len(c.pending)]
<1> DEFINE n == Len(c.pending)
           x == orders(c)
<1>1. n \in Nat
  BY ListFacts
<1>2. \E g : OrderOf(c, n, g)
  BY <1>1, OrderExists
<1>3. \E g : g = [k \in 0..n |-> IF k = 0 THEN <<>> ELSE next_of(c, g[k - 1])]
  BY <1>2 DEF OrderOf
<1>4. x = [k \in 0..n |-> IF k = 0 THEN <<>> ELSE next_of(c, x[k - 1])]
  BY <1>3 DEF orders
<1>5. precedence_order(c) = x[n]
  BY DEF precedence_order, next_of, orders
<1> HIDE DEF x
<1>6. x[0] = <<>>
  <2>1. 0 \in 0..n
    BY <1>1
  <2> QED
    BY <1>4, <2>1
<1>7. ASSUME NEW k \in 0..(n - 1) PROVE x[k + 1] = next_of(c, x[k])
  <2>1. k + 1 \in 0..n /\ k + 1 # 0 /\ (k + 1) - 1 = k
    BY <1>1
  <2> QED
    BY <1>4, <2>1
<1> QED
  BY <1>5, <1>6, <1>7 DEF x

\* u is a beginning of the order.
Begins(c, u) == \E k \in 0..Len(c.pending) : u = orders(c)[k] /\ Sorted(c, k, u)

\* The next battery is where the precedence leads from the first open one.
LEMMA NextIs ==
  ASSUME NEW c \in Contexts, NEW u
  PROVE  \E f : /\ Descent(c, ToSet(u), ToSet(c.pending), Len(c.pending), f)
                /\ next_of(c, u) =
                     Append(u, f[Len(c.pending)][Head(only(c.pending, ToSet(c.pending) \ ToSet(u)))])
<1> DEFINE B == ToSet(c.pending)
           done == ToSet(u)
           n == Len(c.pending)
           steps == CHOOSE f : f = [depth \in 0..n |->
             [p \in B |-> IF depth = 0 \/ leaves_for(c, p, done) = {} THEN p
                          ELSE f[depth - 1][first_leaf(c, p, done)]]]
<1>1. n \in Nat
  BY ListFacts
<1>2. next_of(c, u) = Append(u, steps[n][Head(only(c.pending, B \ done))])
  BY DEF next_of
<1>3. \E f : f = [depth \in 0..n |->
             [p \in B |-> IF depth = 0 \/ leaves_for(c, p, done) = {} THEN p
                          ELSE f[depth - 1][first_leaf(c, p, done)]]]
  <2>1. \E f : Descent(c, done, B, n, f)
    BY <1>1, DescentExists
  <2> QED
    BY <2>1 DEF Descent
<1>4. steps = [depth \in 0..n |->
             [p \in B |-> IF depth = 0 \/ leaves_for(c, p, done) = {} THEN p
                          ELSE steps[depth - 1][first_leaf(c, p, done)]]]
  BY <1>3
<1> HIDE DEF steps
<1>5. Descent(c, done, B, n, steps)
  BY <1>4 DEF Descent
<1> QED
  BY <1>2, <1>5

\* Stage B is a function of the batteries one after the other.
LEMMA FoldIs ==
  ASSUME NEW c, NEW P, NEW u \in Seq(P)
  PROVE  \E g : ResolveIter(c, u, 1..Len(u), g) /\ resolved_in(c, u) = g[1..Len(u)]
<1> DEFINE n == Len(u)
           S == DOMAIN u
           iter == CHOOSE g : g = [T \in SUBSET S |->
                     IF T = {} THEN cascade_start(c)
                     ELSE resolve_square(c, g[T \ {Max(T)}], u[Max(T)])]
<1>1. n \in Nat /\ S = 1..n
  OBVIOUS
<1>2. \E g : g = [T \in SUBSET S |->
        IF T = {} THEN cascade_start(c) ELSE resolve_square(c, g[T \ {Max(T)}], u[Max(T)])]
  <2>1. \E g : ResolveIter(c, u, 1..n, g)
    BY <1>1, ResolveIterExists
  <2>2. \E g : ResolveIter(c, u, S, g)
    BY <1>1, <2>1
  <2> QED
    BY <2>2 DEF ResolveIter
<1>3. iter = [T \in SUBSET S |->
        IF T = {} THEN cascade_start(c) ELSE resolve_square(c, iter[T \ {Max(T)}], u[Max(T)])]
  BY <1>2
<1>4. resolved_in(c, u) = iter[S]
  BY DEF resolved_in, FoldLeft, MapThenFoldSet
<1> HIDE DEF iter
<1> QED
  BY <1>1, <1>3, <1>4 DEF ResolveIter

\* From one battery to the next.
LEMMA FoldStep ==
  ASSUME NEW c, NEW seq, NEW n \in Nat, NEW g, ResolveIter(c, seq, 1..n, g)
  PROVE  /\ g[1..0] = cascade_start(c)
         /\ \A k \in 0..(n - 1) : g[1..(k + 1)] = resolve_square(c, g[1..k], seq[k + 1])
<1>1. g[1..0] = cascade_start(c)
  <2>1. 1..0 = {} /\ {} \in SUBSET (1..n)
    OBVIOUS
  <2> QED
    BY <2>1 DEF ResolveIter
<1>2. ASSUME NEW k \in 0..(n - 1)
      PROVE  g[1..(k + 1)] = resolve_square(c, g[1..k], seq[k + 1])
  <2>1. k + 1 \in Nat /\ k \in Nat /\ k + 1 <= n
    OBVIOUS
  <2>2. 1..(k + 1) \in SUBSET (1..n) /\ 1..(k + 1) # {} /\ k + 1 \in 1..(k + 1)
    <3>1. \A x \in 1..(k + 1) : x \in 1..n
      BY <2>1
    <3>2. k + 1 \in 1..(k + 1)
      BY <2>1
    <3> QED
      BY <3>1, <3>2
  <2>3. Max(1..(k + 1)) = k + 1
    BY <2>1, <2>2, MaxOfTop
  <2>4. (1..(k + 1)) \ {k + 1} = 1..k
    BY <2>1
  <2> QED
    BY <2>2, <2>3, <2>4 DEF ResolveIter
<1> QED
  BY <1>1, <1>2

\* No battery yet.
LEMMA FoldStart ==
  ASSUME NEW c
  PROVE  resolved_in(c, <<>>) = cascade_start(c)
<1>1. <<>> \in Seq({}) /\ Len(<<>>) = 0
  OBVIOUS
<1>2. PICK g : ResolveIter(c, <<>>, 1..0, g) /\ resolved_in(c, <<>>) = g[1..0]
  BY <1>1, FoldIs
<1> QED
  BY <1>2, FoldStep

\* One battery more.
LEMMA FoldMore ==
  ASSUME NEW c, NEW P, NEW u \in Seq(P), NEW p \in P
  PROVE  resolved_in(c, Append(u, p)) = resolve_square(c, resolved_in(c, u), p)
<1> DEFINE n == Len(u)
           v == Append(u, p)
<1>1. /\ v \in Seq(P) /\ Len(v) = n + 1 /\ n \in Nat /\ v[n + 1] = p
      /\ \A i \in 1..n : v[i] = u[i]
  OBVIOUS
<1> HIDE DEF v
<1>2. PICK g : ResolveIter(c, u, 1..n, g) /\ resolved_in(c, u) = g[1..n]
  BY FoldIs
<1>3. PICK h : ResolveIter(c, v, 1..(n + 1), h) /\ resolved_in(c, v) = h[1..(n + 1)]
  BY <1>1, FoldIs
<1>4. /\ g[1..0] = cascade_start(c)
      /\ \A k \in 0..(n - 1) : g[1..(k + 1)] = resolve_square(c, g[1..k], u[k + 1])
  BY <1>1, <1>2, FoldStep
<1>5. /\ h[1..0] = cascade_start(c)
      /\ \A k \in 0..((n + 1) - 1) : h[1..(k + 1)] = resolve_square(c, h[1..k], v[k + 1])
  <2> DEFINE m == n + 1
  <2>1. m \in Nat /\ ResolveIter(c, v, 1..m, h)
    BY <1>1, <1>3
  <2> HIDE DEF m
  <2>2. /\ h[1..0] = cascade_start(c)
        /\ \A k \in 0..(m - 1) : h[1..(k + 1)] = resolve_square(c, h[1..k], v[k + 1])
    BY <2>1, FoldStep
  <2> QED
    BY <2>2 DEF m
<1> DEFINE I == {k \in 0..n : g[1..k] = h[1..k]}
<1>6. 0 \in I
  BY <1>1, <1>4, <1>5
<1>7. \A k \in 0..(n - 1) : k \in I => k + 1 \in I
  <2> SUFFICES ASSUME NEW k \in 0..(n - 1), k \in I PROVE k + 1 \in I
    OBVIOUS
  <2>1. k + 1 \in 0..n /\ k + 1 \in 1..n /\ k \in 0..((n + 1) - 1)
    BY <1>1
  <2>2. g[1..(k + 1)] = resolve_square(c, g[1..k], u[k + 1])
    BY <1>4
  <2>3. h[1..(k + 1)] = resolve_square(c, h[1..k], v[k + 1])
    BY <1>5, <2>1
  <2>4. u[k + 1] = v[k + 1] /\ g[1..k] = h[1..k]
    BY <1>1, <2>1
  <2> QED
    BY <2>1, <2>2, <2>3, <2>4
<1> HIDE DEF I
<1>8. n \in I
  <2>1. \A k \in 0..n : k \in I
    BY <1>1, <1>6, <1>7, InductTo
  <2> QED
    BY <1>1, <2>1
<1>9. h[1..(n + 1)] = resolve_square(c, h[1..n], v[n + 1])
  <2>1. n \in 0..((n + 1) - 1)
    BY <1>1
  <2> QED
    BY <1>5, <2>1
<1> QED
  BY <1>1, <1>2, <1>3, <1>8, <1>9 DEF I, v

(***************************************************************************)
(* The open calls: the way down from the first open battery.               *)
(***************************************************************************)
Path(c, done, sk) ==
  /\ sk \in Seq(ToSet(c.pending))
  /\ sk # <<>> => FirstOf(c.pending, ToSet(c.pending) \ done, sk[1])
  /\ \A i \in 1..(Len(sk) - 1) : Leaf(c, sk[i], done, sk[i + 1])

\* The batteries on the way are open.
LEMMA PathIsOpen ==
  ASSUME NEW c \in Contexts, NEW done, NEW sk, Path(c, done, sk)
  PROVE  \A i \in 1..Len(sk) : sk[i] \in ToSet(c.pending) \ done
<1> SUFFICES ASSUME NEW i \in 1..Len(sk) PROVE sk[i] \in ToSet(c.pending) \ done
  OBVIOUS
<1>1. sk \in Seq(ToSet(c.pending)) /\ Len(sk) \in Nat
  BY DEF Path
<1>2. CASE i = 1
  <2>1. sk # <<>>
    BY <1>1
  <2> QED
    BY <1>2, <2>1 DEF Path, FirstOf
<1>3. CASE i # 1
  <2>1. i - 1 \in 1..(Len(sk) - 1) /\ (i - 1) + 1 = i
    BY <1>1, <1>3
  <2>2. Leaf(c, sk[i - 1], done, sk[i])
    BY <2>1 DEF Path
  <2> QED
    BY <2>2 DEF Leaf, leaves_for
<1> QED
  BY <1>2, <1>3

\* A way that has come to its end visits no battery twice: it would go round
\* for ever.
LEMMA PathIsSimple ==
  ASSUME NEW c \in Contexts, NEW done, NEW sk, Path(c, done, sk), sk # <<>>,
         leaves_for(c, sk[Len(sk)], done) = {}
  PROVE  NoRepeats(sk)
<1> DEFINE L == Len(sk)
<1>1. sk \in Seq(ToSet(c.pending)) /\ L \in Nat /\ DOMAIN sk = 1..L
  BY DEF Path
<1>2. SUFFICES ASSUME NEW i \in 1..L, NEW j \in 1..L, sk[i] = sk[j], i < j PROVE FALSE
  BY <1>1 DEF NoRepeats
<1> DEFINE I == {d \in 0..(L - j) : sk[i + d] = sk[j + d]}
<1>3. L - j \in Nat
  BY <1>1
<1>4. 0 \in I
  BY <1>2, <1>3
<1>5. \A d \in 0..((L - j) - 1) : d \in I => d + 1 \in I
  <2> SUFFICES ASSUME NEW d \in 0..((L - j) - 1), d \in I PROVE d + 1 \in I
    OBVIOUS
  <2>1. i + d \in 1..(L - 1) /\ j + d \in 1..(L - 1) /\ d + 1 \in 0..(L - j)
    BY <1>1, <1>2, <1>3
  <2>2. Leaf(c, sk[i + d], done, sk[(i + d) + 1]) /\ Leaf(c, sk[j + d], done, sk[(j + d) + 1])
    BY <2>1 DEF Path
  <2>3. sk[(i + d) + 1] = sk[(j + d) + 1]
    BY <2>2, OneLeaf
  <2>4. (i + d) + 1 = i + (d + 1) /\ (j + d) + 1 = j + (d + 1)
    BY <2>1
  <2> QED
    BY <2>1, <2>3, <2>4
<1> HIDE DEF I
<1>6. L - j \in I
  <2> DEFINE m == L - j
  <2>1. m \in Nat /\ 0 \in I /\ \A d \in 0..(m - 1) : d \in I => d + 1 \in I
    BY <1>3, <1>4, <1>5
  <2> HIDE DEF m
  <2>2. \A k \in 0..m : k \in I
    BY <2>1, InductTo
  <2>3. m \in I
    BY <2>1, <2>2
  <2> QED
    BY <2>3 DEF m
<1>7. sk[i + (L - j)] = sk[L]
  <2>1. j + (L - j) = L
    BY <1>1
  <2> QED
    BY <1>6, <2>1 DEF I
<1>8. i + (L - j) \in 1..(L - 1)
  BY <1>1, <1>2
<1>9. leaves_for(c, sk[i + (L - j)], done) # {}
  BY <1>8 DEF Path, Leaf
<1> QED
  BY <1>7, <1>9

\* Where the way ends is the next battery of the order.
LEMMA PathEnds ==
  ASSUME NEW c \in Contexts, NEW u, NEW sk, Path(c, ToSet(u), sk), sk # <<>>,
         leaves_for(c, sk[Len(sk)], ToSet(u)) = {}
  PROVE  next_of(c, u) = Append(u, sk[Len(sk)])
<1> DEFINE B == ToSet(c.pending)
           done == ToSet(u)
           n == Len(c.pending)
           L == Len(sk)
<1>1. n \in Nat /\ IsFiniteSet(B) /\ Cardinality(B) = n /\ c.pending \in Seq(B) /\ NoRepeats(c.pending)
  BY ListFacts
<1>2. sk \in Seq(B) /\ L \in Nat /\ L # 0
  BY DEF Path
<1>3. L <= n
  <2>1. NoRepeats(sk)
    BY PathIsSimple
  <2>2. IsFiniteSet(ToSet(sk)) /\ Cardinality(ToSet(sk)) = L
    BY <1>2, <2>1, PendingCount
  <2>3. ToSet(sk) \in SUBSET B
    BY <1>2, SeqElements
  <2>4. Cardinality(ToSet(sk)) <= Cardinality(B)
    BY <1>1, <2>3, FS_Subset
  <2> QED
    BY <1>1, <2>2, <2>4
<1>4. PICK f : /\ Descent(c, done, B, n, f)
               /\ next_of(c, u) = Append(u, f[n][Head(only(c.pending, B \ done))])
  BY NextIs
<1>5. Head(only(c.pending, B \ done)) = sk[1]
  <2>1. FirstOf(c.pending, B \ done, sk[1])
    BY DEF Path
  <2>2. B \cap (B \ done) # {}
    BY <2>1 DEF FirstOf, ToSet
  <2>3. FirstOf(c.pending, B \ done, Head(only(c.pending, B \ done)))
    BY <1>1, <2>2, HeadIsFirst
  <2> QED
    BY <1>1, <2>1, <2>3, OneFirst
<1>6. \A i \in 1..L : sk[i] \in B
  BY <1>2
<1> HIDE DEF B, n, L, done
<1>7. \A q \in B, k \in 0..n :
        f[k][q] = IF k = 0 \/ leaves_for(c, q, done) = {} THEN q ELSE f[k - 1][first_leaf(c, q, done)]
  <2> SUFFICES ASSUME NEW q \in B, NEW k \in 0..n
               PROVE  f[k][q] = IF k = 0 \/ leaves_for(c, q, done) = {} THEN q
                                ELSE f[k - 1][first_leaf(c, q, done)]
    OBVIOUS
  <2>1. f[k] = [p1 \in B |-> IF k = 0 \/ leaves_for(c, p1, done) = {} THEN p1
                             ELSE f[k - 1][first_leaf(c, p1, done)]]
    BY <1>4 DEF Descent
  <2> QED
    BY <2>1
\* From m batteries before the end, m steps or more lead there.
<1> DEFINE I == {m \in 0..(L - 1) : \A d \in m..n : f[d][sk[L - m]] = sk[L]}
<1>8. 0 \in I
  <2>1. L - 0 = L /\ 0 \in 0..(L - 1) /\ L \in 1..L
    BY <1>2
  <2>2. leaves_for(c, sk[L], done) = {} /\ sk[L] \in B
    BY <1>6, <2>1 DEF L, done
  <2> QED
    BY <1>7, <2>1, <2>2
<1>9. \A m \in 0..((L - 1) - 1) : m \in I => m + 1 \in I
  <2> SUFFICES ASSUME NEW m \in 0..((L - 1) - 1), m \in I PROVE m + 1 \in I
    OBVIOUS
  <2> DEFINE i == L - (m + 1)
  <2>1. i \in 1..(L - 1) /\ i + 1 = L - m /\ i \in 1..L /\ m + 1 \in 0..(L - 1)
    BY <1>2
  <2>2. Leaf(c, sk[i], done, sk[i + 1])
    BY <2>1 DEF Path, L, done
  <2> HIDE DEF i
  <2>3. leaves_for(c, sk[i], done) # {}
    BY <2>2 DEF Leaf
  <2>4. first_leaf(c, sk[i], done) = sk[L - m]
    BY <2>1, <2>2, <2>3, LeafIs, OneLeaf
  <2>5. ASSUME NEW d \in (m + 1)..n PROVE f[d][sk[i]] = sk[L]
    <3>1. d \in 0..n /\ d # 0 /\ d - 1 \in m..n
      BY <1>1 DEF n
    <3>2. f[d][sk[i]] = f[d - 1][sk[L - m]]
      BY <1>6, <1>7, <2>1, <2>3, <2>4, <3>1
    <3>3. f[d - 1][sk[L - m]] = sk[L]
      BY <3>1
    <3> QED
      BY <3>2, <3>3
  <2> QED
    BY <2>1, <2>5 DEF i
<1> HIDE DEF I
<1>10. L - 1 \in I
  <2> DEFINE m == L - 1
  <2>1. m \in Nat /\ 0 \in I /\ \A k \in 0..(m - 1) : k \in I => k + 1 \in I
    BY <1>2, <1>8, <1>9
  <2> HIDE DEF m
  <2>2. \A k \in 0..m : k \in I
    BY <2>1, InductTo
  <2>3. m \in I
    BY <2>1, <2>2
  <2> QED
    BY <2>3 DEF m
<1>11. f[n][sk[1]] = sk[L]
  <2>1. L - (L - 1) = 1 /\ n \in (L - 1)..n
    BY <1>1, <1>2, <1>3 DEF n, L
  <2> QED
    BY <1>10, <2>1 DEF I
<1> QED
  BY <1>4, <1>5, <1>11 DEF L, n, B, done

\* When the last battery of a way is resolved, the rest is a way.
LEMMA PathPops ==
  ASSUME NEW c \in Contexts, NEW done, NEW sk, Path(c, done, sk), sk # <<>>,
         leaves_for(c, sk[Len(sk)], done) = {}
  PROVE  Path(c, done \cup {sk[Len(sk)]}, Front(sk))
<1> DEFINE L == Len(sk)
           t == sk[L]
           B == ToSet(c.pending)
<1>1. sk \in Seq(B) /\ L \in Nat /\ L # 0 /\ DOMAIN sk = 1..L
  BY DEF Path
<1>2. /\ Front(sk) \in Seq(B) /\ Len(Front(sk)) = L - 1
      /\ \A i \in 1..(L - 1) : Front(sk)[i] = sk[i]
  BY <1>1 DEF Front
<1>3. \A i \in 1..(L - 1) : sk[i] # t
  BY <1>1, PathIsSimple DEF NoRepeats
<1>4. ASSUME Front(sk) # <<>> PROVE FirstOf(c.pending, B \ (done \cup {t}), Front(sk)[1])
  <2>1. L - 1 # 0 /\ 1 \in 1..(L - 1)
    BY <1>1, <1>2, <1>4
  <2>2. FirstOf(c.pending, B \ done, sk[1]) /\ sk[1] # t
    BY <1>3, <2>1 DEF Path
  <2>3. FirstOf(c.pending, B \ (done \cup {t}), sk[1])
    BY <2>2 DEF FirstOf
  <2> QED
    BY <1>2, <2>1, <2>3
<1>5. ASSUME NEW i \in 1..((L - 1) - 1)
      PROVE  Leaf(c, Front(sk)[i], done \cup {t}, Front(sk)[i + 1])
  <2>1. i \in 1..(L - 1) /\ i + 1 \in 1..(L - 1)
    BY <1>1
  <2>2. Leaf(c, sk[i], done, sk[i + 1]) /\ sk[i + 1] # t
    BY <1>3, <2>1 DEF Path
  <2>3. Leaf(c, sk[i], done \cup {t}, sk[i + 1])
    BY <2>2, LeafStays
  <2> QED
    BY <1>2, <2>1, <2>3
<1> QED
  BY <1>2, <1>4, <1>5 DEF Path

\* A beginning of the order, one battery further.
LEMMA BeginsMore ==
  ASSUME NEW c \in Contexts, NEW u, Begins(c, u), NEW t \in ToSet(c.pending) \ ToSet(u),
         next_of(c, u) = Append(u, t)
  PROVE  /\ Begins(c, Append(u, t))
         /\ ToSet(Append(u, t)) = ToSet(u) \cup {t}
         /\ resolved_in(c, Append(u, t)) = resolve_square(c, resolved_in(c, u), t)
<1> DEFINE B == ToSet(c.pending)
           n == Len(c.pending)
<1>1. n \in Nat /\ IsFiniteSet(B) /\ Cardinality(B) = n
  BY ListFacts
<1>2. PICK k \in 0..n : u = orders(c)[k] /\ Sorted(c, k, u)
  BY DEF Begins
<1>3. u \in Seq(B) /\ IsFiniteSet(ToSet(u)) /\ Cardinality(ToSet(u)) = k
  BY <1>2 DEF Sorted
<1>4. t \in B /\ t \notin ToSet(u)
  OBVIOUS
<1> HIDE DEF B
<1>5. Append(u, t) \in Seq(B) /\ ToSet(Append(u, t)) = ToSet(u) \cup {t}
  BY <1>3, <1>4, AppendElements
<1>6. IsFiniteSet(ToSet(u) \cup {t}) /\ Cardinality(ToSet(u) \cup {t}) = k + 1
  BY <1>3, <1>4, FS_AddElement
<1>7. k + 1 <= n
  <2>1. ToSet(u) \cup {t} \in SUBSET B
    BY <1>3, <1>4, SeqElements
  <2> QED
    BY <1>1, <1>6, <2>1, FS_Subset
<1>8. k + 1 \in 0..n /\ k \in 0..(n - 1)
  BY <1>1, <1>7
<1>9. Append(u, t) = orders(c)[k + 1]
  BY <1>2, <1>8, OrdersAre
<1>10. Sorted(c, k + 1, Append(u, t))
  BY <1>5, <1>6 DEF Sorted, B
<1>11. Begins(c, Append(u, t))
  BY <1>8, <1>9, <1>10 DEF Begins
<1> QED
  BY <1>3, <1>4, <1>5, <1>11, FoldMore

\* When no defender answers, the chain stays as it is.
LEMMA ExchangesStay ==
  ASSUME NEW c \in Contexts, NEW p, NEW s, NEW k \in 0..Len(c.res),
         LET x == exchanges(c, p, s)[k]
         IN  find_valid_defender(c, x.st, x.victim, p.square) = {}
  PROVE  exchanges(c, p, s)[Len(c.res)] = exchanges(c, p, s)[k]
<1> DEFINE n == Len(c.res)
           g == exchanges(c, p, s)
           m == n - k
           I == {d \in 0..m : g[k + d] = g[k]}
<1>1. n \in Nat /\ m \in Nat /\ k \in Nat
  BY ListFacts
<1>2. \A j \in 0..(n - 1) : g[j + 1] = answer(c, p.square, g[j])
  BY ExchangesAre
<1>3. answer(c, p.square, g[k]) = g[k]
  BY DEF answer
<1> HIDE DEF g
<1>4. 0 \in I
  BY <1>1
<1>5. \A d \in 0..(m - 1) : d \in I => d + 1 \in I
  <2> SUFFICES ASSUME NEW d \in 0..(m - 1), d \in I PROVE d + 1 \in I
    OBVIOUS
  <2>1. k + d \in 0..(n - 1) /\ (k + d) + 1 = k + (d + 1) /\ d + 1 \in 0..m
    BY <1>1
  <2>2. g[(k + d) + 1] = answer(c, p.square, g[k + d])
    BY <1>2, <2>1
  <2> QED
    BY <1>3, <2>1, <2>2
<1>6. k + m = n
  BY <1>1
<1> HIDE DEF m, I
<1>7. \A d \in 0..m : d \in I
  BY <1>1, <1>4, <1>5, InductTo
<1>8. m \in I
  BY <1>1, <1>7
<1> QED
  BY <1>6, <1>8 DEF I, g, n

\* In the loop: with u the batteries already resolved, the battery on top is the
\* next, its victim was there, and st is what some exchanges have made of it.
Halfway(u, f) ==
  LET s == resolved_in(ctx, u)
  IN  /\ leaves_for(ctx, top, ToSet(u)) = {}
      /\ StageRecord(s) /\ s.fired \in Seq(ToSet(s.fired))
      /\ top.victim \in at_hand(s)
      /\ \E k \in 0..Len(ctx.res) :
           exchanges(ctx, top, s)[k] = [st |-> st, victim |-> f.victim, holder |-> f.holder]

\* u is what the recursion has resolved: a beginning of the order, with the
\* state that the operator reaches after it, and the open calls are a way.
Reached(u) ==
  /\ Begins(ctx, u) /\ st.resolved = ToSet(u)
  /\ Path(ctx, ToSet(u), stack)
  /\ fight = {} => st = resolved_in(ctx, u)
  /\ \A f \in fight : Halfway(u, f)

\* Without the hook the recursion keeps step with the operator.
InStep == ~ ctx.tie_break => \E u : Reached(u)

\* Nothing is resolved when the stage begins.
LEMMA InitInStep == Init => InStep
<1> SUFFICES ASSUME Init PROVE \E u : Reached(u)
  BY DEF InStep
<1>1. ctx \in Contexts /\ st = cascade_start(ctx) /\ stack = <<>> /\ fight = {}
  BY DEF Init
<1>2. ToSet(<<>>) = {} /\ \A S : <<>> \in Seq(S)
  BY DEF ToSet
<1>3. st.resolved = {}
  BY <1>1 DEF cascade_start
<1>4. Begins(ctx, <<>>)
  <2>1. 0 \in 0..Len(ctx.pending)
    BY <1>1, ListFacts
  <2>2. Sorted(ctx, 0, <<>>)
    BY <1>2, FS_EmptySet DEF Sorted
  <2> QED
    BY <1>1, <2>1, <2>2, OrdersAre DEF Begins
<1>5. Path(ctx, ToSet(<<>>), stack)
  <2>1. stack \in Seq(ToSet(ctx.pending)) /\ Len(stack) = 0
    BY <1>1, <1>2
  <2>2. 1..(Len(stack) - 1) = {}
    BY <2>1
  <2> QED
    BY <1>1, <2>1, <2>2 DEF Path
<1>6. st = resolved_in(ctx, <<>>)
  BY <1>1, FoldStart
<1>7. Reached(<<>>)
  BY <1>1, <1>2, <1>3, <1>4, <1>5, <1>6 DEF Reached
<1> QED
  BY <1>7

\* A call that is only opened, or given up, resolves nothing.
LEMMA CallInStep ==
  ASSUME fight = {}, NEW u, Reached(u), UNCHANGED <<ctx, st, fight>>, Path(ctx, ToSet(u), stack')
  PROVE  Reached(u)'
BY DEF Reached

\* A call that returns has resolved the next battery.
LEMMA ReturnInStep ==
  ASSUME IInv, NEW u, Reached(u), stack # <<>>, leaves_for(ctx, top, ToSet(u)) = {},
         resolved_top, UNCHANGED ctx,
         st' = resolve_square(ctx, resolved_in(ctx, u), top),
         st'.resolved = st.resolved \cup {top}
  PROVE  \E w : Reached(w)'
<1>1. ctx \in Contexts /\ stack \in Seq(Batteries)
  BY DEF IInv, TypeInv
<1>2. Begins(ctx, u) /\ st.resolved = ToSet(u) /\ Path(ctx, ToSet(u), stack)
  BY DEF Reached
<1>3. Len(stack) \in 1..Len(stack)
  BY <1>1
<1>4. top \in ToSet(ctx.pending) \ ToSet(u)
  BY <1>1, <1>2, <1>3, PathIsOpen DEF top
<1>5. next_of(ctx, u) = Append(u, top)
  BY <1>1, <1>2, PathEnds DEF top
<1>6. /\ Begins(ctx, Append(u, top))
      /\ ToSet(Append(u, top)) = ToSet(u) \cup {top}
      /\ resolved_in(ctx, Append(u, top)) = resolve_square(ctx, resolved_in(ctx, u), top)
  BY <1>1, <1>2, <1>4, <1>5, BeginsMore
<1>7. Path(ctx, ToSet(u) \cup {top}, popped)
  BY <1>1, <1>2, PathPops DEF top, popped
<1>8. ctx' = ctx /\ stack' = popped /\ fight' = {}
  BY DEF resolved_top
<1> DEFINE v == Append(u, top)
<1>9. /\ Begins(ctx', v) /\ st'.resolved = ToSet(v) /\ Path(ctx', ToSet(v), stack')
      /\ st' = resolved_in(ctx', v)
  BY <1>2, <1>6, <1>7, <1>8
<1>10. PICK w : w = v
  OBVIOUS
<1> HIDE DEF v
<1>11. /\ Begins(ctx', w) /\ st'.resolved = ToSet(w) /\ Path(ctx', ToSet(w), stack')
       /\ st' = resolved_in(ctx', w) /\ fight' = {}
  BY <1>8, <1>9, <1>10
<1>12. Reached(w)'
  BY <1>11 DEF Reached
<1> QED
  BY <1>12

\* The outer loop opens the first open battery.
LEMMA VisitInStep ==
  ASSUME IInv, NEW u, Reached(u), ~ ctx.tie_break, NEW p \in Batteries, visit(p)
  PROVE  Reached(u)'
<1>1. ctx \in Contexts /\ st.resolved = ToSet(u)
  BY DEF IInv, TypeInv, Reached
<1>2. fight = {}
  BY DEF IInv, Agreement, Contested, visit
<1> DEFINE B == ToSet(ctx.pending)
           S == B \ ToSet(u)
           first(x) == \E i \in DOMAIN ctx.pending :
                         ctx.pending[i] = x /\ \A j \in 1..(i - 1) : ctx.pending[j] \notin S
<1>3. p \in S /\ Open = S
  BY <1>1 DEF visit, Open, Batteries
<1>4. p = CHOOSE x \in S : first(x)
  BY <1>3 DEF visit, first_open
<1>5. ctx.pending \in Seq(B) /\ NoRepeats(ctx.pending)
  BY <1>1, ListFacts
<1>6. \A x : FirstOf(ctx.pending, S, x) <=> x \in S /\ first(x)
  BY DEF FirstOf
<1>7. FirstOf(ctx.pending, S, p)
  <2>1. B \cap S # {}
    BY <1>3
  <2> HIDE DEF S, B
  <2>2. FirstOf(ctx.pending, S, Head(only(ctx.pending, S)))
    BY <1>5, <2>1, HeadIsFirst DEF B
  <2> HIDE DEF first
  <2> QED
    BY <1>4, <1>6, <2>2
<1> HIDE DEF first
<1>8. stack' = <<p>> /\ UNCHANGED <<ctx, st, fight>>
  BY DEF visit
<1>9. Path(ctx, ToSet(u), stack')
  <2>1. stack' \in Seq(B) /\ Len(stack') = 1 /\ stack'[1] = p
    BY <1>3, <1>8
  <2>2. 1..(Len(stack') - 1) = {}
    BY <2>1
  <2> QED
    BY <1>7, <2>1, <2>2 DEF Path
<1> QED
  BY <1>2, <1>8, <1>9, CallInStep

\* victim_present goes down to the battery that comes first.
LEMMA DescendInStep ==
  ASSUME IInv, NEW u, Reached(u), descend
  PROVE  Reached(u)'
<1>1. ctx \in Contexts /\ st.resolved = ToSet(u) /\ Path(ctx, ToSet(u), stack)
  BY DEF IInv, TypeInv, Reached
<1>2. fight = {} /\ stack # <<>>
  BY DEF descend, Calling
<1> DEFINE L == Len(stack)
           B == ToSet(ctx.pending)
<1>3. PICK p \in ahead : p = first_leaf(ctx, top, ToSet(u)) /\ stack' = Append(stack, p)
  BY <1>1 DEF descend
<1>4. ahead = leaves_for(ctx, top, ToSet(u))
  BY <1>1 DEF ahead
<1>5. Leaf(ctx, top, ToSet(u), p)
  BY <1>1, <1>3, <1>4, LeafIs
<1>6. p \in B
  BY <1>3, <1>4 DEF leaves_for
<1>7. stack \in Seq(B) /\ L \in Nat /\ L # 0 /\ top = stack[L]
  BY <1>1, <1>2 DEF Path, top
<1>8. /\ stack' \in Seq(B) /\ Len(stack') = L + 1 /\ stack'[L + 1] = p
      /\ \A i \in 1..L : stack'[i] = stack[i]
  BY <1>3, <1>6, <1>7
<1>9. FirstOf(ctx.pending, B \ ToSet(u), stack'[1])
  <2>1. stack'[1] = stack[1]
    BY <1>7, <1>8
  <2> QED
    BY <1>1, <1>2, <2>1 DEF Path
<1>10. ASSUME NEW i \in 1..((L + 1) - 1) PROVE Leaf(ctx, stack'[i], ToSet(u), stack'[i + 1])
  <2>1. CASE i = L
    BY <1>5, <1>7, <1>8, <2>1
  <2>2. CASE i # L
    <3>1. i \in 1..(L - 1) /\ i \in 1..L /\ i + 1 \in 1..L
      BY <1>7, <2>2
    <3>2. Leaf(ctx, stack[i], ToSet(u), stack[i + 1])
      BY <1>1, <3>1 DEF Path
    <3> QED
      BY <1>8, <3>1, <3>2
  <2> QED
    BY <2>1, <2>2
<1>11. Path(ctx, ToSet(u), stack')
  BY <1>8, <1>9, <1>10 DEF Path
<1>12. UNCHANGED <<ctx, st, fight>>
  BY DEF descend
<1> QED
  BY <1>2, <1>11, <1>12, CallInStep

\* A RecursionError leaves no call open.
LEMMA OverflowInStep ==
  ASSUME IInv, NEW u, Reached(u), overflow
  PROVE  Reached(u)'
<1>1. fight = {} /\ stack' = <<>> /\ UNCHANGED <<ctx, st, fight>>
  BY DEF overflow, Calling
<1>2. Path(ctx, ToSet(u), stack')
  <2>1. stack' \in Seq(ToSet(ctx.pending)) /\ 1..(Len(stack') - 1) = {}
    BY <1>1
  <2> QED
    BY <1>1, <2>1 DEF Path
<1> QED
  BY <1>1, <1>2, CallInStep

\* The victim is gone: resolve_square changes nothing else.
LEMMA MissInStep ==
  ASSUME IInv, NEW u, Reached(u), miss
  PROVE  \E w : Reached(w)'
<1>1. st.resolved = ToSet(u) /\ st = resolved_in(ctx, u)
  BY DEF Reached, miss, Calling
<1>2. st' = [st EXCEPT !.resolved = @ \cup {top}] /\ resolved_top /\ UNCHANGED ctx /\ stack # <<>>
  BY DEF miss, Calling
<1>3. top.victim \notin at_hand(st) /\ leaves_for(ctx, top, ToSet(u)) = {}
  BY <1>1 DEF miss, ahead
<1>4. st' = resolve_square(ctx, resolved_in(ctx, u), top)
  BY <1>1, <1>2, <1>3, ResolveIs
<1>5. st'.resolved = st.resolved \cup {top}
  <2>1. st = [occupancy |-> st.occupancy, alive |-> st.alive, captured |-> st.captured,
              fired |-> st.fired, resolved |-> st.resolved]
    BY DEF IInv, TypeInv
  <2> QED
    BY <1>2, <2>1
<1> QED
  BY <1>2, <1>3, <1>4, <1>5, ReturnInStep

\* The victim is struck: the chain of the battery begins.
LEMMA StrikeInStep ==
  ASSUME IInv, NEW u, Reached(u), strike
  PROVE  Reached(u)'
<1>1. /\ ctx \in Contexts /\ StageRecord(st) /\ st.fired \in Seq(Recaptures)
  BY DEF IInv, TypeInv, StageRecord
<1>2. st.resolved = ToSet(u) /\ st = resolved_in(ctx, u) /\ Begins(ctx, u) /\ Path(ctx, ToSet(u), stack)
  BY DEF Reached, strike, Calling
<1>3. top.victim \in at_hand(st) /\ leaves_for(ctx, top, ToSet(u)) = {}
  BY <1>2 DEF strike, ahead
<1>4. /\ st' = struck(st, top).st
      /\ fight' = {[victim |-> top.victim, holder |-> top.holder]}
      /\ UNCHANGED <<ctx, stack>>
  BY DEF strike, struck
<1>5. st.fired \in Seq(ToSet(st.fired))
  <2>1. st.fired = [i \in 1..Len(st.fired) |-> st.fired[i]] /\ Len(st.fired) \in Nat
    BY <1>1
  <2> QED
    BY <2>1, ListOf
<1>6. ASSUME NEW f \in fight' PROVE Halfway(u, f)'
  <2>1. 0 \in 0..Len(ctx.res) /\ exchanges(ctx, top, st)[0] = struck(st, top)
    BY <1>1, ListFacts, ExchangesAre
  <2>2. struck(st, top) = [st |-> st', victim |-> f.victim, holder |-> f.holder]
    BY <1>4, <1>6 DEF struck
  <2>3. exchanges(ctx, top, resolved_in(ctx, u))[0] = [st |-> st', victim |-> f.victim, holder |-> f.holder]
    BY <1>2, <2>1, <2>2
  <2>4. top' = top /\ ctx' = ctx
    BY <1>4 DEF top
  <2>5. StageRecord(resolved_in(ctx, u)) /\ resolved_in(ctx, u).fired \in Seq(ToSet(resolved_in(ctx, u).fired))
        /\ top.victim \in at_hand(resolved_in(ctx, u))
    BY <1>1, <1>2, <1>3, <1>5
  <2> QED
    BY <1>3, <2>1, <2>3, <2>4, <2>5 DEF Halfway
<1>7. st'.resolved = ToSet(u)
  BY <1>1, <1>2, <1>4 DEF struck, StageRecord
<1>8. fight' # {}
  BY <1>4
<1> QED
  BY <1>2, <1>4, <1>6, <1>7, <1>8 DEF Reached

\* The reservation that fires is the one the operator chooses: of those that
\* may fire one is the oldest.
LEMMA OneFires ==
  ASSUME NEW c \in Contexts, NEW s, NEW victim, NEW square,
         NEW x \in find_valid_defender(c, s, victim, square),
         NEW y \in find_valid_defender(c, s, victim, square)
  PROVE  x = y
<1>1. x \in ToSet(c.res) /\ y \in ToSet(c.res) /\ x.protege = victim /\ y.protege = victim
  BY DEF find_valid_defender
<1>4. /\ x.age[1] < y.age[1] \/ (x.age[1] = y.age[1] /\ x.age[2] <= y.age[2])
      /\ y.age[1] < x.age[1] \/ (y.age[1] = x.age[1] /\ y.age[2] <= x.age[2])
  BY DEF find_valid_defender
<1>2. /\ \A a \in ToSet(c.res) : a.age \in Nat \X Nat
      /\ \A a, b \in ToSet(c.res) : a.protege = b.protege /\ a.age = b.age => a = b
  BY ListFacts
<1>3. x.age = y.age
  <2>0. x.age \in Nat \X Nat /\ y.age \in Nat \X Nat
    BY <1>1, <1>2
  <2>1. x.age = <<x.age[1], x.age[2]>> /\ y.age = <<y.age[1], y.age[2]>>
    BY <2>0
  <2>2. x.age[1] \in Nat /\ x.age[2] \in Nat /\ y.age[1] \in Nat /\ y.age[2] \in Nat
    BY <2>0
  <2>3. x.age[1] = y.age[1] /\ x.age[2] = y.age[2]
    BY <1>4, <2>2
  <2> QED
    BY <2>1, <2>3
<1> QED
  BY <1>1, <1>2, <1>3

\* A recapture is the next exchange.
LEMMA FireInStep ==
  ASSUME IInv, NEW u, Reached(u), fire
  PROVE  Reached(u)'
<1>1. /\ ctx \in Contexts /\ StageRecord(st)
  BY DEF IInv, TypeInv, StageRecord
<1>2. st.resolved = ToSet(u) /\ Begins(ctx, u) /\ Path(ctx, ToSet(u), stack)
  BY DEF Reached
<1>3. PICK f \in fight, rho \in ToSet(ctx.res) :
        /\ rho \in find_valid_defender(ctx, st, f.victim, top.square)
        /\ st' = recapture(ctx, st, rho, f.holder, top.square)
        /\ fight' = {[victim |-> f.holder, holder |-> rho.defender]}
  BY DEF fire
<1>4. UNCHANGED <<ctx, stack>>
  BY DEF fire
<1> DEFINE s == resolved_in(ctx, u)
           n == Len(ctx.res)
           g == exchanges(ctx, top, s)
<1>5. /\ leaves_for(ctx, top, ToSet(u)) = {}
      /\ StageRecord(s) /\ s.fired \in Seq(ToSet(s.fired)) /\ top.victim \in at_hand(s)
      /\ \E k \in 0..n : g[k] = [st |-> st, victim |-> f.victim, holder |-> f.holder]
  BY <1>3 DEF Reached, Halfway
<1>6. PICK k \in 0..n : g[k] = [st |-> st, victim |-> f.victim, holder |-> f.holder]
  BY <1>5
<1>7. n \in Nat
  BY <1>1, ListFacts
<1>8. find_valid_defender(ctx, g[n].st, g[n].victim, top.square) = {}
  BY <1>1, <1>5, ExchangesEnd
<1>9. k \in 0..(n - 1)
  <2>1. k # n
    BY <1>3, <1>6, <1>8
  <2> QED
    BY <1>7, <2>1
<1>10. g[k + 1] = answer(ctx, top.square, g[k])
  BY <1>1, <1>9, ExchangesAre
<1> HIDE DEF g
<1>11. g[k].st = st /\ g[k].victim = f.victim /\ g[k].holder = f.holder
  BY <1>6
<1>12. (CHOOSE x \in find_valid_defender(ctx, st, f.victim, top.square) : TRUE) = rho
  <2> DEFINE V == find_valid_defender(ctx, st, f.victim, top.square)
  <2>1. rho \in V /\ \A x, y \in V : x = y
    BY <1>1, <1>3, OneFires
  <2> HIDE DEF V
  <2>2. (CHOOSE x \in V : TRUE) = rho
    BY <2>1
  <2> QED
    BY <2>2 DEF V
<1>13. g[k + 1] = [st |-> st', victim |-> f.holder, holder |-> rho.defender]
  <2>1. find_valid_defender(ctx, st, f.victim, top.square) # {}
    BY <1>3
  <2>2. answer(ctx, top.square, g[k]) =
          [st |-> recapture(ctx, st, rho, f.holder, top.square), victim |-> f.holder, holder |-> rho.defender]
    BY <1>11, <1>12, <2>1 DEF answer
  <2> QED
    BY <1>3, <1>10, <2>2
<1>14. ASSUME NEW h \in fight' PROVE Halfway(u, h)'
  <2>1. h.victim = f.holder /\ h.holder = rho.defender
    BY <1>3, <1>14
  <2>2. k + 1 \in 0..n
    BY <1>7, <1>9
  <2>3. \E j \in 0..Len(ctx.res) :
          exchanges(ctx, top, resolved_in(ctx, u))[j] = [st |-> st', victim |-> h.victim, holder |-> h.holder]
    BY <1>13, <2>1, <2>2 DEF g
  <2>4. top' = top /\ ctx' = ctx
    BY <1>4 DEF top
  <2> QED
    BY <1>5, <2>3, <2>4 DEF Halfway
<1>15. st'.resolved = ToSet(u)
  BY <1>1, <1>2, <1>3 DEF recapture, StageRecord
<1>16. fight' # {}
  BY <1>3
<1> QED
  BY <1>2, <1>4, <1>14, <1>15, <1>16 DEF Reached

\* When no defender answers any more the loop ends as the chain does.
LEMMA SettleInStep ==
  ASSUME IInv, NEW u, Reached(u), settle
  PROVE  \E w : Reached(w)'
<1>1. ctx \in Contexts /\ StageRecord(st)
  BY DEF IInv, TypeInv, StageRecord
<1>2. PICK f \in fight : find_valid_defender(ctx, st, f.victim, top.square) = {}
  BY DEF settle
<1>3. /\ st' = [st EXCEPT !.resolved = @ \cup {top}] /\ resolved_top /\ UNCHANGED ctx /\ stack # <<>>
  BY DEF settle
<1> DEFINE s == resolved_in(ctx, u)
           n == Len(ctx.res)
           g == exchanges(ctx, top, s)
<1>4. /\ leaves_for(ctx, top, ToSet(u)) = {} /\ top.victim \in at_hand(s)
      /\ \E k \in 0..n : g[k] = [st |-> st, victim |-> f.victim, holder |-> f.holder]
  BY <1>2 DEF Reached, Halfway
<1>5. PICK k \in 0..n : g[k] = [st |-> st, victim |-> f.victim, holder |-> f.holder]
  BY <1>4
<1>6. g[n] = g[k]
  <2>1. find_valid_defender(ctx, g[k].st, g[k].victim, top.square) = {}
    BY <1>2, <1>5
  <2> QED
    BY <1>1, <2>1, ExchangesStay
<1>7. g[n].st = st
  BY <1>5, <1>6
<1>8. st' = resolve_square(ctx, s, top)
  BY <1>3, <1>4, <1>7, ResolveIs
<1>9. st'.resolved = st.resolved \cup {top}
  BY <1>1, <1>3 DEF StageRecord
<1> QED
  BY <1>3, <1>4, <1>8, <1>9, ReturnInStep

\* Every step keeps step.
LEMMA NextInStep == IInv /\ InStep /\ [Next]_vars => InStep'
<1> SUFFICES ASSUME IInv, InStep, [Next]_vars, ~ ctx'.tie_break PROVE \E w : Reached(w)'
  BY DEF InStep
<1>1. ctx' = ctx
  BY DEF Next, visit, descend, overflow, miss, strike, fire, settle, vars
<1>2. PICK u : Reached(u)
  BY <1>1 DEF InStep
<1>3. ASSUME NEW p \in Batteries, visit(p) PROVE Reached(u)'
  BY <1>1, <1>2, <1>3, VisitInStep
<1>4. CASE descend
  BY <1>2, <1>4, DescendInStep
<1>5. CASE overflow
  BY <1>2, <1>5, OverflowInStep
<1>6. CASE miss
  BY <1>2, <1>6, MissInStep
<1>7. CASE strike
  BY <1>2, <1>7, StrikeInStep
<1>8. CASE fire
  BY <1>2, <1>8, FireInStep
<1>9. CASE settle
  BY <1>2, <1>9, SettleInStep
<1>10. CASE UNCHANGED vars
  <2>1. Reached(u)'
    BY <1>2, <1>10 DEF Reached, Halfway, vars, top
  <2> QED
    BY <2>1
<1> QED
  BY <1>3, <1>4, <1>5, <1>6, <1>7, <1>8, <1>9, <1>10 DEF Next

\* What the recursion has done when it is done, in reading ii, is what phi uses.
LEMMA DoneIsStageB ==
  ASSUME IntermezzoReading = "ii", IInv, InStep
  PROVE  ComputesStageB
<1> SUFFICES ASSUME Done, ~ ctx.tie_break PROVE st = resolve_defense(ctx)
  BY DEF ComputesStageB
<1>1. ctx \in Contexts
  BY DEF IInv, TypeInv
<1>2. PICK u : Reached(u)
  BY DEF InStep
<1> DEFINE B == ToSet(ctx.pending)
           n == Len(ctx.pending)
<1>3. ToSet(u) = B
  <2>1. st.resolved = ToSet(u) /\ st.resolved \subseteq B /\ B \ st.resolved = {}
    BY <1>2 DEF Reached, Done, Open, Batteries, IInv, TypeInv
  <2> QED
    BY <2>1
<1>4. stack = <<>>
  <2>1. Path(ctx, ToSet(u), stack)
    BY <1>2 DEF Reached
  <2>2. \A i \in 1..Len(stack) : stack[i] \in B \ ToSet(u)
    BY <1>1, <2>1, PathIsOpen
  <2>3. stack \in Seq(B)
    BY <2>1 DEF Path
  <2> QED
    BY <1>3, <2>2, <2>3
<1>5. fight = {}
  BY <1>4 DEF IInv, Agreement, Contested
<1>6. st = resolved_in(ctx, u)
  BY <1>2, <1>5 DEF Reached
<1>7. PICK k \in 0..n : u = orders(ctx)[k] /\ Sorted(ctx, k, u)
  BY <1>2 DEF Reached, Begins
<1>8. k = n
  <2>1. Cardinality(ToSet(u)) = k /\ Cardinality(B) = n
    BY <1>1, <1>7, ListFacts DEF Sorted
  <2> QED
    BY <1>3, <2>1
<1>9. u = precedence_order(ctx)
  BY <1>1, <1>7, <1>8, OrdersAre
<1> QED
  BY <1>6, <1>9 DEF resolve_defense

\* In reading ii, whatever the batteries and reservations, the recursion that
\* resolves what a victim may leave for before the victim falls ends, if it
\* ends, with the board, captures and recaptures phi works with: those of the
\* batteries in order of precedence, one after the other.
THEOREM CascadeComputesStageB ==
  ASSUME IntermezzoReading = "ii"
  PROVE  Spec => []ComputesStageB
<1>1. Spec => []IInv
  BY CascadeInvariant
<1>2. Spec => []InStep
  <2>1. Init => InStep
    BY InitInStep
  <2>2. IInv /\ InStep /\ [Next]_vars => InStep'
    BY NextInStep
  <2> QED
    BY <1>1, <2>1, <2>2, PTL DEF Spec
<1>3. IInv /\ InStep => ComputesStageB
  BY DoneIsStageB
<1> QED
  BY <1>1, <1>2, <1>3, PTL

-----------------------------------------------------------------------------
(***************************************************************************)
(* The contexts that phases build.                                         *)
(***************************************************************************)
\* What ContextOK asks of a context is no more than what every phase gives it:
\* the context that phi builds for a well-formed state and two legal programs
\* has distinct tokens on distinct squares, attackers that have arrived where
\* their stationary victims stand, each live token but the victims once in the
\* occupancy map, and of two reservations of one token an older one.  (The hook
\* is no part of it.)
THEOREM ContextsOfPhases ==
  ASSUME NEW s, NEW w, NEW b, Playable(s, w, b)
  PROVE  ContextOK(Scene(s, w, b))
<1> DEFINE c == Scene(s, w, b)
           effect == Effect(s, w, b)
           P == ToSet(c.pending)
<1>1. Setting(c) /\ c.board = s.board /\ c.res = effect
  BY PhaseDefence
<1>2. c.silent = mutual_cycle_blacklist(c.pending, c.res)
  BY DEF Scene, context
<1>3. effect \in Seq(Pairs(s)) /\ Aged(effect)
  BY EffectFacts DEF Playable, WellFormed
<1> HIDE DEF effect, c
<1>4. SoundBoard(c.board) /\ c.alive \subseteq live(c.board)
  BY <1>1 DEF Setting
<1>5. BoardOf(c)
  BY <1>4 DEF BoardOf, SoundBoard, live
<1>6. /\ \A p \in P : /\ p.square \in DOMAIN c.occupancy /\ c.occupancy[p.square] = p.holder
                      /\ p.holder.id \in c.moved
                      /\ p.victim \in c.alive /\ p.victim.id \notin c.moved
                      /\ c.board[p.victim] = p.square
                      /\ p.holder.color # p.victim.color
      /\ \A p, x \in P : p.square = x.square => p = x
  BY <1>1 DEF Setting
<1>7. /\ \A q \in DOMAIN c.occupancy :
           /\ c.occupancy[q] \in c.alive
           /\ c.occupancy[q].id \notin c.moved => c.board[c.occupancy[q]] = q
      /\ \A q, r \in DOMAIN c.occupancy : c.occupancy[q] = c.occupancy[r] => q = r
      /\ \A t \in c.alive : \/ \E q \in DOMAIN c.occupancy : c.occupancy[q] = t
                            \/ \E p \in P : p.victim = t
  BY <1>1 DEF Setting
<1>8. BatteriesOf(c)
  BY <1>6, <1>7 DEF BatteriesOf
<1>9. \A q \in DOMAIN c.occupancy, p \in P : c.occupancy[q] # p.victim
  <2> SUFFICES ASSUME NEW q \in DOMAIN c.occupancy, NEW p \in P, c.occupancy[q] = p.victim PROVE FALSE
    OBVIOUS
  <2>1. q = p.square
    BY <1>6, <1>7
  <2> QED
    BY <1>6, <2>1
<1>10. ArrivalsOf(c)
  <2>1. {c.occupancy[q] : q \in DOMAIN c.occupancy} = c.alive \ {p.victim : p \in P}
    BY <1>7, <1>9
  <2> QED
    BY <1>7, <2>1 DEF ArrivalsOf
<1>11. DOMAIN c.res = 1..Len(c.res) /\ Len(c.res) \in Nat /\ c.res = [i \in 1..Len(c.res) |-> c.res[i]]
  BY <1>1, <1>3
<1>12. \A rho \in ToSet(c.res) :
         /\ rho.defender \in DOMAIN c.board /\ rho.age \in Nat \X Nat
         /\ rho.defender.color = rho.protege.color
  <2>1. \A rho \in Pairs(s) : /\ rho.defender \in DOMAIN s.board /\ rho.age \in Nat \X Nat
                              /\ rho.defender.color = rho.protege.color
    BY DEF Pairs, Held, own_tokens, live
  <2>2. ToSet(c.res) \subseteq Pairs(s)
    BY <1>1, <1>3, SeqElements
  <2> QED
    BY <1>1, <2>1, <2>2
<1>13. ReservationsOf(c)
  BY <1>12 DEF ReservationsOf
<1>14. ListsOf(c)
  <2>1. c.pending \in Seq(P) /\ NoRepeats(c.pending)
    BY <1>1 DEF Setting
  <2>2. c.res \in Seq(ToSet(c.res))
    BY <1>11, ListOf
  <2>3. ASSUME NEW x \in ToSet(c.res), NEW y \in ToSet(c.res), x.protege = y.protege, x.age = y.age
        PROVE  x = y
    <3>1. PICK i \in 1..Len(c.res), j \in 1..Len(c.res) : x = c.res[i] /\ y = c.res[j]
      BY <1>11 DEF ToSet
    <3>2. x.defender.color = y.defender.color
      BY <1>12, <2>3
    <3>3. x.age[1] \in Nat /\ x.age[2] \in Nat
      BY <1>12
    <3>4. ~ is_older(x.age, y.age) /\ ~ is_older(y.age, x.age)
      BY <2>3, <3>3 DEF is_older
    <3>5. ~ (i < j) /\ ~ (j < i)
      BY <1>1, <1>3, <1>11, <3>1, <3>2, <3>4 DEF Aged
    <3>6. i = j
      BY <1>11, <3>5
    <3> QED
      BY <3>1, <3>6
  <2> QED
    BY <1>12, <2>1, <2>2, <2>3 DEF ListsOf, NoRepeats
<1>15. SilenceOf(c)
  BY <1>2 DEF SilenceOf
<1>16. ContextOK(c)
  BY <1>5, <1>8, <1>10, <1>13, <1>14, <1>15 DEF ContextOK
<1> QED
  BY <1>16 DEF c
=============================================================================
