--------------------------- MODULE OrderedTimeline ---------------------------
(***************************************************************************)
(* What the reorder queue promises a buffer (src/src/translate/queue.rs,   *)
(* its module documentation): rows get keys in the order they arrive, each *)
(* key holds a place, and a row is shown only when no smaller key still    *)
(* holds one.  A key may forfeit its place; its rows are then shown as     *)
(* well as can be.                                                         *)
(*                                                                         *)
(* TranslateRouting implements this specification.                         *)
(***************************************************************************)
EXTENDS Integers, Sequences

VARIABLES timeline,    \* keys of the rows shown, in order
          held,        \* keys that hold a place
          forfeited,   \* keys that gave their place up, or never had one
          next         \* the next key

vars == <<timeline, held, forfeited, next>>

Init ==
  /\ timeline = <<>>
  /\ held = {}
  /\ forfeited = {}
  /\ next = 1

\* One handler: keys are handed out, places taken and given up, and `rows`
\* shown.
Step(rows, upTo) ==
  LET new == next..(upTo - 1)
  IN  /\ next' = upTo
      /\ timeline' = timeline \o rows
      /\ forfeited \subseteq forfeited'
      /\ forfeited' \subseteq forfeited \cup held \cup new
      /\ held' \subseteq held \cup new \cup forfeited'
      /\ \A i \in 1..Len(rows) :
           /\ rows[i] \in held \cup new \cup forfeited'
           /\ \A k \in held' : rows[i] < k
      /\ \A i, j \in 1..Len(rows) :
           i < j /\ rows[j] \notin forfeited' => rows[i] <= rows[j]

Next ==
  \E upTo \in Nat, rows \in Seq(Nat) : upTo >= next /\ Step(rows, upTo)

Spec == Init /\ [][Next]_vars

-----------------------------------------------------------------------------
TypeOK ==
  /\ timeline \in Seq(Nat)
  /\ held \subseteq Nat
  /\ forfeited \subseteq Nat
  /\ next \in Nat

\* Keys are known before they are used.
KeysHandedOut ==
  /\ \A k \in held \cup forfeited : k < next
  /\ \A i \in 1..Len(timeline) : timeline[i] < next

\* No row shown so far is newer than a place that is still held in earnest.
NothingOvertook ==
  \A i \in 1..Len(timeline), k \in held \ forfeited : timeline[i] < k

\* Rows stand in the order of their keys, except those that forfeited their
\* place.
InOrder ==
  \A i, j \in 1..Len(timeline) :
    i < j /\ timeline[j] \notin forfeited => timeline[i] <= timeline[j]

IndInv == TypeOK /\ KeysHandedOut /\ NothingOvertook /\ InOrder
=============================================================================
