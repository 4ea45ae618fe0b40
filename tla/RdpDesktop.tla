----------------------------- MODULE RdpDesktop ------------------------------
(***************************************************************************)
(* What one PDU of an RDP server does in the helper, from proto-rdp's      *)
(* ActiveSession::apply to the messages that bestterm-rdp's `publish`      *)
(* sends.  A desktop is the framebuffer IronRDP draws into and the mapping *)
(* that carries it to the host; sizes are pixel counts, and of what is     *)
(* drawn only the size of the picture is kept.                             *)
(***************************************************************************)
EXTENDS Naturals, Sequences

CONSTANTS FirstSize,    \* the size agreed on when the session opens
          Sizes,        \* the sizes a reactivation may end with
          MaxPixels,    \* above it no mapping is created
          Pdus          \* what the PDUs of a server may amount to

ASSUME SizesAssumption == Sizes \cup {FirstSize} \subseteq Nat \ {0}
ASSUME MaxPixelsAssumption == MaxPixels \in Nat

NoSize == 0

\* What comes of one PDU (ActiveStageOutput): damage, the end of the session,
\* a reactivation and the size it ends with.
Outputs == [damage : BOOLEAN, over : BOOLEAN, resize : Sizes \cup {NoSize}]
ASSUME PdusAssumption == Pdus \subseteq Outputs

\* ActiveSession::new and Frames::create.
Desktop(size, slot, generation) == [size |-> size, slot |-> slot, generation |-> generation]
FreshDesktop == Desktop(FirstSize, FirstSize, 0)

FrameMessage(desktop) ==
  [type |-> "Frame", size |-> desktop.size, generation |-> desktop.generation,
   whole |-> desktop.size <= desktop.slot]
ResizedMessage(size) == [type |-> "Resized", size |-> size]
ClosedMessage == [type |-> "Closed"]

\* stage.process and then apply: what is drawn goes into the framebuffer, and a
\* reactivation, which comes last, puts an empty one in its place.
Applied(desktop, out) ==
  IF out.resize # NoSize THEN Desktop(out.resize, desktop.slot, desktop.generation) ELSE desktop

\* Frames::fit: a mapping is replaced when it is outgrown, and numbers its
\* pictures from the beginning.
Fitted(desktop) ==
  IF desktop.size <= desktop.slot THEN desktop
  ELSE Desktop(desktop.size, desktop.size, 0)

CanFit(desktop) == desktop.size <= desktop.slot \/ desktop.size <= MaxPixels

\* A picture is the framebuffer as it is when `publish` comes to it.
Framed(desktop) == Desktop(desktop.size, desktop.slot, desktop.generation + 1)

\* The updates of one PDU in the order of apply, as publish sends them: the
\* end first, and nothing after it; then the damage; then the new size.  A
\* size nothing can be allocated for ends the helper without a word.
Batch(desktop, out) ==
  LET framed == IF out.damage THEN Framed(desktop) ELSE desktop
      frame == IF out.damage THEN <<FrameMessage(framed)>> ELSE <<>>
  IN CASE out.over -> [over |-> TRUE, desktop |-> desktop, messages |-> <<ClosedMessage>>]
       [] ~out.over /\ out.resize = NoSize ->
            [over |-> FALSE, desktop |-> framed, messages |-> frame]
       [] ~out.over /\ out.resize # NoSize /\ CanFit(framed) ->
            [over |-> FALSE, desktop |-> Fitted(framed),
             messages |-> Append(frame, ResizedMessage(desktop.size))]
       [] ~out.over /\ out.resize # NoSize /\ ~CanFit(framed) ->
            [over |-> TRUE, desktop |-> framed, messages |-> Append(frame, ClosedMessage)]

==============================================================================
