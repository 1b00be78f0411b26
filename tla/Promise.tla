------------------------------- MODULE Promise ------------------------------
(***************************************************************************)
(* What an online match promises the two players, with no word about how   *)
(* (net/session.py's docstring): each peer sees the phases of one game in  *)
(* one order, at most one phase ahead of the other, and a peer that is     *)
(* told a result is told the same one, after the same phases.  A peer may  *)
(* give up at any time; it is then told an error and nothing more.         *)
(***************************************************************************)
EXTENDS Naturals, Sequences

CONSTANTS Peers, Errors

VARIABLES
  games,    \* the phases each peer has seen resolved
  verdicts  \* what each peer was told: nothing yet, a result or an error

vars == <<games, verdicts>>

others(p)  == Peers \ {p}
results(v) == v \ Errors

Init ==
  /\ games = [p \in Peers |-> <<>>]
  /\ verdicts = [p \in Peers |-> {}]

\* The peer sees one more phase: the one another peer has seen, or a new one.
Extends(p) ==
  /\ games'[p] # <<>>
  /\ games' = [games EXCEPT ![p] = Append(@, games'[p][Len(games'[p])])]
  /\ \A q \in others(p) :
       /\ Len(games[q]) >= Len(games[p])
       /\ Len(games[q]) > Len(games[p]) => games[q][Len(games'[p])] = games'[p][Len(games'[p])]

\* The peer is told a result that agrees with whatever another was told.
Tells(p) ==
  /\ verdicts'[p] # {}
  /\ verdicts' = [verdicts EXCEPT ![p] = verdicts'[p]]
  /\ \A q \in others(p) :
       results(verdicts[q]) # {} /\ results(verdicts'[p]) # {}
         => verdicts[q] = verdicts'[p] /\ games[q] = games'[p]

Step(p) ==
  /\ verdicts[p] = {}
  /\ \/ Extends(p) /\ Tells(p)
     \/ Extends(p) /\ UNCHANGED verdicts
     \/ Tells(p) /\ UNCHANGED games

Next == \E p \in Peers : Step(p)
Spec == Init /\ [][Next]_vars
=============================================================================
