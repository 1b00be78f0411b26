------------------------------ MODULE MCCascade -----------------------------
(***************************************************************************)
(* Cascade on every way three white knights may take a black queen, rook   *)
(* and bishop that can all defend one another, with the black king behind  *)
(* them and a white bishop behind one knight: every order of attack, every *)
(* sequence of at most MaxDefences black reservations, with and without    *)
(* the white one.                                                          *)
(***************************************************************************)
EXTENDS Cascade, Positions

CONSTANT MaxDefences

Knight(i) == Piece(40 + i, "W", "n")

CascadeBoard ==
  WK :> <<0, 0>> @@ Knight(1) :> <<0, 1>> @@ Knight(2) :> <<0, 2>>
    @@ Knight(3) :> <<1, 2>> @@ WB :> <<1, 1>>
    @@ BQ :> <<2, 2>> @@ BR :> <<2, 3>> @@ BB :> <<3, 3>> @@ BK :> <<3, 2>>

Landing == [i \in 1..3 |-> CASE i = 1 -> <<2, 2>> [] i = 2 -> <<2, 3>> [] i = 3 -> <<3, 3>>]

\* The attacks, each order of each choice of at most N of the three.
Attacks ==
  {a \in UNION {[1..k -> 1..3] : k \in 1..N} :
     \A i, j \in DOMAIN a : i # j => a[i] # a[j]}

attack_moves(a) ==
  [i \in DOMAIN a |->
     [token |-> Knight(a[i]), color |-> "W", index |-> i,
      trajectory |-> Trajectory(<<CascadeBoard[Knight(a[i])], Landing[a[i]]>>, TRUE)]]

BlackPairs ==
  {x \in {BQ, BR, BB, BK} \X {BQ, BR, BB} :
     x[1] # x[2] /\ capturing_pattern_at(x[1].typ, "B", CascadeBoard[x[1]],
                      CascadeBoard[x[2]], {CascadeBoard[t] : t \in DOMAIN CascadeBoard})}

Defences ==
  {d \in UNION {[1..k -> BlackPairs] : k \in 0..MaxDefences} :
     \A i, j \in DOMAIN d : i # j => d[i] # d[j]}

reservations_of(d) ==
  [i \in DOMAIN d |-> Stands(d[i][1], d[i][2], BlackAgeOffset + i)]

CascadeState == Position(CascadeBoard, {}, <<>>, <<>>, {})

contexts(attacks, hook) ==
  {context(CascadeState, attack_moves(a), attack_moves(a), w \o reservations_of(d))
     @@ [tie_break |-> hook] :
     a \in attacks, d \in Defences, w \in {<<>>, <<Stands(WB, Knight(1), 0)>>}}

TwoAttacks   == {a \in Attacks : Len(a) < 3}
ThreeAttacks == Attacks \ TwoAttacks

\* At most two attacks in pending order, or three in any order.
CascadeContexts == contexts(TwoAttacks, FALSE) \cup contexts(ThreeAttacks, TRUE)
RingContexts    == contexts(ThreeAttacks, FALSE)
=============================================================================
