------------------------------ MODULE Handshake -----------------------------
(***************************************************************************)
(* The opening proposals of two peers (net/handshake.py): what a handshake *)
(* says, the fields that must agree, and who plays which colour.  Versions,*)
(* fingerprints and hashes are compared for equality only.                 *)
(***************************************************************************)
EXTENDS Naturals, Sequences, Players

\* The fields that must agree, in the order they are compared.
Agreed == <<"protocol_version", "spec_version", "ruleset_fingerprint",
            "initial_state_hash", "max_phases">>

\* Each comparison raises an error of its own.
Mismatch == [protocol_version    |-> "ProtocolVersionMismatch",
             spec_version        |-> "SpecVersionMismatch",
             ruleset_fingerprint |-> "RulesetMismatch",
             initial_state_hash  |-> "InitialStateMismatch",
             max_phases          |-> "MaxPhasesMismatch"]

\* The handshake of a peer started with these settings.
to_message(s) ==
  [type |-> "handshake", terms |-> s.terms, proposed_color |-> s.color, nonce |-> s.nonce]

disagreeing(local, remote) ==
  {i \in DOMAIN Agreed : remote.terms[Agreed[i]] # local.terms[Agreed[i]]}
\* Fault: the phase limit is not compared.
all_but_the_last(local, remote) ==
  {Mismatch[Agreed[i]] : i \in {j \in disagreeing(local, remote) : j < Len(Agreed)}}
\* The error of the first field that disagrees, if any does.
mismatches(local, remote) ==
  {Mismatch[Agreed[i]] : i \in {j \in disagreeing(local, remote) :
                                   \A k \in disagreeing(local, remote) : j <= k}}

\* The colour this peer plays; none when equal proposals meet equal nonces.
negotiate_color(local, remote) ==
  IF local.proposed_color # remote.proposed_color THEN {local.proposed_color}
  ELSE IF local.nonce = remote.nonce THEN {}
  ELSE IF local.nonce > remote.nonce THEN {local.proposed_color}
  ELSE {opponent(local.proposed_color)}
=============================================================================
