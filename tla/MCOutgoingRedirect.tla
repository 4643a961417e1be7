-------------------------- MODULE MCOutgoingRedirect --------------------------
(* Nicks and people are interchangeable. *)
EXTENDS OutgoingRedirect, TLC

Symm == Permutations(Nicks) \cup Permutations(Persons)
=============================================================================
