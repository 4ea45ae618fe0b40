---------------------------- MODULE FrameRegister ----------------------------
(***************************************************************************)
(* What the shared framebuffer promises to whoever reads it: a register of *)
(* whole pictures.  A writer publishes ever newer generations; a read      *)
(* returns, in one step, every word of one single generation, which is at  *)
(* most Lag behind the newest and never older than the one read before.    *)
(***************************************************************************)
EXTENDS Integers

CONSTANTS Words,    \* the parts of a picture a copy can see separately
          Lag       \* how far behind the newest generation a read may be

VARIABLES newest,   \* the newest generation readers can find, 0 for none
          picture   \* per word, the generation the last read returned

vars == <<newest, picture>>

Init == /\ newest = 0
        /\ picture = [w \in Words |-> 0]

Publish == /\ newest' \in Nat
           /\ newest' > newest
           /\ UNCHANGED picture

Read == \E generation \in 1 .. newest :
          /\ newest - generation <= Lag
          /\ \A w \in Words : picture[w] <= generation
          /\ picture' = [w \in Words |-> generation]
          /\ UNCHANGED newest

Next == Publish \/ Read

Spec == Init /\ [][Next]_vars

==============================================================================
