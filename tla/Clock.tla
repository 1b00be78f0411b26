-------------------------------- MODULE Clock -------------------------------
(***************************************************************************)
(* The concurrent-bank clock of timed matches (net/clock.py).  Times are   *)
(* whole microseconds, the unit in which they are revealed and hashed; a   *)
(* function of the colours stands for each white/black pair of fields.     *)
(***************************************************************************)
EXTENDS Integers, Players

LOCAL INSTANCE FiniteSetsExt

BonusRules == {"capped_difference", "winner_take_all", "dead_zone", "none"}

\* A control has a bank and an increment, and a bonus its rule pays out.
TimeControl ==
  [initial_bank : Nat, increment : Nat, bonus : Nat, bonus_rule : BonusRules, dead_zone : Nat]

capped_difference(t_self, t_other, tc) ==
  IF t_self < t_other THEN Min({tc.bonus, t_other - t_self}) ELSE 0

winner_take_all(t_self, t_other, tc) == IF t_self < t_other THEN tc.bonus ELSE 0

gap(t_self, t_other) == IF t_self < t_other THEN t_other - t_self ELSE t_self - t_other
dead_zone(t_self, t_other, tc) ==
  IF gap(t_self, t_other) < tc.dead_zone THEN 0 ELSE capped_difference(t_self, t_other, tc)

race_bonus(t_self, t_other, tc) ==
  CASE tc.bonus_rule = "capped_difference" -> capped_difference(t_self, t_other, tc)
    [] tc.bonus_rule = "winner_take_all"   -> winner_take_all(t_self, t_other, tc)
    [] tc.bonus_rule = "dead_zone"         -> dead_zone(t_self, t_other, tc)
    [] OTHER                               -> 0

initial_banks(tc) == [c \in Color |-> tc.initial_bank]

flagged(banks, think) == {c \in Color : banks[c] - think[c] <= 0}

\* A fall ends the match before a bonus or an increment is earned.
earned(banks, tc, think) ==
  [c \in Color |->
     IF flagged(banks, think) # {} THEN 0 ELSE race_bonus(think[c], think[opponent(c)], tc)]

\* Fault: a player that is not flagged earns its increment all the same.
banks_paid_anyway(banks, tc, think) ==
  [c \in Color |-> banks[c] - think[c] + tc.increment + earned(banks, tc, think)[c]]
banks_after(banks, tc, think) ==
  [c \in Color |->
     banks[c] - think[c] + (IF flagged(banks, think) = {} THEN tc.increment ELSE 0)
       + earned(banks, tc, think)[c]]

\* The ledger row, which is what entry_hash digests.
clock_entry(banks, tc, think, phase) ==
  [phase |-> phase, think |-> think, bonus |-> earned(banks, tc, think),
   after |-> banks_after(banks, tc, think)]
=============================================================================
