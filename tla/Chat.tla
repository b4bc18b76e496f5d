-------------------------------- MODULE Chat --------------------------------
(***************************************************************************)
(* What the program promises its users (README.md:5): whoever has a window *)
(* open is shown, of those who write to him, a text for what they said, in *)
(* the order they said it and for nothing twice. He may miss some, some    *)
(* may reach him as an empty text, and some garbled. What he sees stays    *)
(* until the next text, or until he closes the window.                     *)
(***************************************************************************)
EXTENDS Integers

CONSTANTS
  Users,
  WritersTo,  \* WritersTo[q]: the users who write to q
  Nothing,    \* what a window without a text shows
  Empty,      \* an empty text
  Garbled     \* any other text than what was said

VARIABLES
  said,       \* said[p]: how many texts p has said
  seen,       \* seen[q][p]: the number of the latest text of p that q saw
  view        \* what the window of q shows: a text <<p, k>>, Nothing or Empty

vars == <<said, seen, view>>

Init ==
  /\ said = [p \in Users |-> 0]
  /\ seen = [q \in Users |-> [p \in Users |-> 0]]
  /\ view = [q \in Users |-> Nothing]

Say(p) ==
  /\ said' = [said EXCEPT ![p] = @ + 1]
  /\ UNCHANGED <<seen, view>>

See(q, p) ==
  \E k \in (seen[q][p] + 1)..said[p] :
    /\ seen' = [seen EXCEPT ![q][p] = k]
    /\ view' \in {[view EXCEPT ![q] = x] : x \in {<<p, k>>, Garbled}}
    /\ UNCHANGED said

Show(q, x) ==
  /\ view' = [view EXCEPT ![q] = x]
  /\ UNCHANGED <<said, seen>>

Next ==
  \/ \E p \in Users : Say(p)
  \/ \E q \in Users : \E p \in WritersTo[q] : See(q, p)
  \/ \E q \in Users : Show(q, Empty) \/ Show(q, Nothing)

Spec == Init /\ [][Next]_vars

=============================================================================
