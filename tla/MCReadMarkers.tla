---------------------------- MODULE MCReadMarkers ----------------------------
(* A target with a row in its history and one that comes in live, and one in *)
(* which nothing was said: its marker is only asked for.                     *)
EXTENDS ReadMarkers

CONSTANTS talk, quiet
Pair     == {talk, quiet}
PairRows == [t \in Pair |-> IF t = talk THEN {1, 2} ELSE {}]
History  == [t \in Pair |-> IF t = talk THEN {1} ELSE {}]

=============================================================================
