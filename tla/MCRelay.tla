------------------------------ MODULE MCRelay -------------------------------
(***************************************************************************)
(* Three connections that may all name the same room, or the empty one.    *)
(* One of them sends two bytes, the others one.                            *)
(***************************************************************************)
EXTENDS Relay

CONSTANTS a, b, c
ThreeClients == {a, b, c}
FewBytes     == [x \in ThreeClients |-> IF x = a THEN 2 ELSE 1]
=============================================================================
