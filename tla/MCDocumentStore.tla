--------------------------- MODULE MCDocumentStore ---------------------------
(* One document as TLC checks it: what a first run may find.               *)
EXTENDS DocumentStore, TLC

CONSTANTS a, b          \* what documents say

\* None, one from an older build, one of this build, one from a newer build
\* and one nobody can read.
MCOriginals == {Missing, Malformed} \cup {Document(v, a) : v \in VERSION - 1 .. VERSION + 1}

\* Which file the disk takes next makes no difference, nor which instance is which.
AnyFileOrInstance == Permutations(Files) \cup Permutations(Instances)
==============================================================================
