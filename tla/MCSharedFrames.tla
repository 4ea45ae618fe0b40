--------------------------- MODULE MCSharedFrames ----------------------------
(* SharedFrames for TLC: the words of a picture are interchangeable.       *)
EXTENDS SharedFrames, TLC

CONSTANTS w1, w2, w3

MCWords == {w1, w2, w3}
Symmetry == Permutations(MCWords)
==============================================================================
