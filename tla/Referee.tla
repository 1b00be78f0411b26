------------------------------- MODULE Referee -------------------------------
(***************************************************************************)
(* One game between two players, whoever drives it (referee/match.py): its *)
(* state, how a phase of two legal programs moves it on, and the limit on  *)
(* its phases.  Match and LocalPlay both play by it.                       *)
(*                                                                         *)
(* A program is any legal one whose actions come from Considered(s, c) and *)
(* are its colour's own.                                                   *)
(***************************************************************************)
EXTENDS Phi

CONSTANTS
  Considered(_, _),  \* the actions a player of that colour draws from
  MaxPhases          \* play_match's max_phases

ASSUME MaxPhasesAssumption == MaxPhases \in Nat \ {0}

VARIABLES
  state,     \* the current game state
  outcome,   \* ongoing, a result, or phase_limit_reached
  played,    \* phases played so far
  last       \* the last phase's programs and trace

Outcomes == {"ongoing", "white_wins", "black_wins", "draw", "phase_limit_reached"}
NoTrace  == [fizzled |-> {}, executing |-> <<>>, events |-> {}, annihilated |-> {},
             survivors |-> {}, captured |-> <<>>, fired |-> <<>>, promoted |-> {}, cancelled |-> {}]

SeqsUpTo(S, n) == UNION {[1..k -> S] : k \in 0..n}
legal_programs(s, c) ==
  {p \in SeqsUpTo(Considered(s, c) \cap actions(s, c), N) : is_legal_program(s, c, p)}

begins_in(starts) ==
  /\ state \in starts
  /\ outcome = "ongoing"
  /\ played = 0
  /\ last = [white |-> <<>>, black |-> <<>>, trace |-> NoTrace]

\* One phase with these two legal programs.
plays(w, b) ==
  /\ LET r == phi(state, w, b)
     IN  /\ state' = r.state
         /\ outcome' = r.outcome
         /\ last' = [white |-> w, black |-> b, trace |-> r.trace]
  /\ played' = played + 1

goes_on == outcome = "ongoing" /\ played < MaxPhases

phase_limit ==
  /\ outcome = "ongoing"
  /\ played = MaxPhases
  /\ outcome' = "phase_limit_reached"
  /\ UNCHANGED <<state, played, last>>
=============================================================================
