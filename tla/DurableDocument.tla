--------------------------- MODULE DurableDocument ---------------------------
(***************************************************************************)
(* What crates/config promises of a document it stores: at every moment    *)
(* there is one whole document, or still none.  A save replaces it in one  *)
(* step, between being asked for and being answered, or not at all.  When  *)
(* the power fails, saves that were not yet on the disk may be taken back, *)
(* but only to what was once stored.                                       *)
(***************************************************************************)
CONSTANTS Documents,    \* what may be stored at first, no document included
          Savable       \* what may be saved

VARIABLES stored,       \* what a reader finds
          asked,        \* what somebody is saving
          earlier       \* what the disk may still come back with

vars == <<stored, asked, earlier>>

Init ==
  /\ stored \in Documents
  /\ asked = {}
  /\ earlier = {stored}

\* Saves are asked for, and answered, with or without having been done.
Ask ==
  /\ asked' \in SUBSET Savable
  /\ UNCHANGED <<stored, earlier>>

Save ==
  /\ stored' \in asked
  /\ asked' \in SUBSET asked
  /\ earlier' = earlier \cup {stored'}

ComeBack ==
  /\ stored' \in earlier
  /\ earlier' = {stored'}
  /\ asked' = {}

Next == Ask \/ Save \/ ComeBack

Spec == Init /\ [][Next]_vars
==============================================================================
