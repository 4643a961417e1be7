------------------------------ MODULE MCE2eTrust ------------------------------
(* Keys and handles are interchangeable. *)
EXTENDS E2eTrust, TLC

Symm == Permutations(Fps) \cup Permutations(Handles)
\* Bound: warnings, requests of ours and cached requests open at a time.
FewOpen ==
  Len(notices) + Cardinality(pending)
    + Cardinality({x \in Handles \X Channels : inbound[x[1]][x[2]] # NoFp}) <= 2

=============================================================================
