----------------------------- MODULE MCSession ------------------------------
(***************************************************************************)
(* Session for a host and a guest, started alike or not, two phases long.  *)
(* A player may play quietly, with or without a draw offer, strike at the  *)
(* king, play what L rejects, resign, abort, or accept a standing offer.   *)
(***************************************************************************)
EXTENDS Session

Terms(m, r) == [protocol_version |-> 1, spec_version |-> "1.1", ruleset_fingerprint |-> r,
                initial_state_hash |-> "standard", max_phases |-> m]
Blitz == [initial_bank |-> 3, increment |-> 1, bonus |-> 1,
          bonus_rule |-> "capped_difference", dead_zone |-> 0]
Bonus == [Blitz EXCEPT !.bonus = 2, !.bonus_rule = "winner_take_all"]
Start(m, r, c, n, tc) == [terms |-> Terms(m, r), color |-> c, nonce |-> n, clock |-> tc]

HostAndGuest == {"host", "guest"}
Pair(h, g) == [p \in HostAndGuest |-> IF p = "host" THEN h ELSE g]

MCSettings ==
  { Pair(Start(2, "base", "W", 0, {}), Start(2, "base", "B", 0, {})),
    Pair(Start(1, "base", "W", 1, {}), Start(1, "base", "W", 2, {})),
    Pair(Start(2, "base", "W", 0, {}), Start(2, "base", "W", 0, {})),
    Pair(Start(2, "base", "W", 0, {}), Start(2, "other", "B", 0, {})),
    Pair(Start(1, "base", "W", 0, {}), Start(2, "base", "B", 0, {})),
    Pair(Start(2, "base", "B", 0, {Blitz}), Start(2, "base", "B", 1, {Blitz})),
    Pair(Start(1, "base", "W", 0, {Blitz}), Start(1, "base", "B", 0, {})),
    Pair(Start(1, "base", "W", 0, {Blitz}), Start(1, "base", "B", 0, {Bonus})) }

Play(program, offer) ==
  [kind |-> "commit", program |-> program, offer |-> offer, elapsed |-> {}]
Say(kind) == [kind |-> kind, program |-> "none", offer |-> FALSE, elapsed |-> {}]

MCDecides(c, g, offered) ==
  {Play("quiet", FALSE), Play("quiet", TRUE)}
    \cup (IF g = <<>> THEN {Say("abort"), Play("rejected", FALSE)}
          ELSE {Say("resign"), Play("strike", FALSE)})
    \cup {Say(k) : k \in {x \in {"accept_draw"} : offered}}

MCLegal(g, program, c) == program # "rejected"

MCTerminal(g) ==
  LET strikes == {c \in Color : g[Len(g)].programs[c] = "strike"}
  IN  IF strikes = {} THEN {}
      ELSE {result(IF strikes = Color THEN "draw" ELSE wins(CHOOSE c \in strikes : TRUE),
                   "regicide")}
=============================================================================
