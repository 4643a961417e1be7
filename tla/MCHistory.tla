------------------------------ MODULE MCHistory ------------------------------
(* Five rows said before the program was started, of which it stored the     *)
(* last but one in an earlier session, or none; the second is not stored.    *)
EXTENDS History

Earlier == {{}, {4}}
Events  == {2}

=============================================================================
