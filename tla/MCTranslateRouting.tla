-------------------------- MODULE MCTranslateRouting --------------------------
(***************************************************************************)
(* The sessions TLC looks at in TranslateRouting.                          *)
(***************************************************************************)
EXTENDS TranslateRouting

\* Reflections and split sends; local echoes and the URL shrinker; one text
\* sent again and again; reflections and the shrinker together.
Mixed ==
  { [echo |-> TRUE,  shrinking |-> FALSE, retype |-> FALSE, parts |-> 2, ids |-> 3],
    [echo |-> FALSE, shrinking |-> TRUE,  retype |-> FALSE, parts |-> 2, ids |-> 3],
    [echo |-> TRUE,  shrinking |-> FALSE, retype |-> TRUE,  parts |-> 1, ids |-> 4],
    [echo |-> TRUE,  shrinking |-> FALSE, retype |-> TRUE,  parts |-> 2, ids |-> 3],
    [echo |-> TRUE,  shrinking |-> FALSE, retype |-> FALSE, parts |-> 3, ids |-> 2],
    [echo |-> TRUE,  shrinking |-> TRUE,  retype |-> FALSE, parts |-> 2, ids |-> 3] }

\* Sends in up to three lines.
Long ==
  { [echo |-> TRUE,  shrinking |-> FALSE, retype |-> FALSE, parts |-> 3, ids |-> 4] }
=============================================================================
