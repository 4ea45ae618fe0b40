---------------------------- MODULE SharedFrames -----------------------------
(***************************************************************************)
(* One mapping of crates/ipc-frame/src/shared.rs, written by the helper    *)
(* process and read by the host, with no lock between them.  `write` fills *)
(* a slot word by word and then stores the counter; `read_latest` loads    *)
(* the counter, copies the slot word by word, loads the counter again and  *)
(* keeps the copy only when the writer cannot have reached its slot.  The  *)
(* words of a picture are copied, and written, in any order; the content   *)
(* of a word is the generation that wrote it.                              *)
(*                                                                         *)
(* The counter is stored with Release and loaded with Acquire.  That keeps *)
(* the stores of a fill before the store of its own generation.  Whether   *)
(* the stores of the NEXT fill also stay after it is a matter of the       *)
(* machine and of the compiler, and is the constant Ordered.               *)
(***************************************************************************)
EXTENDS FrameLayout

CONSTANTS Words,            \* the parts of a picture that travel separately
          Ordered,          \* TRUE: stores become visible in program order
          MaxGeneration     \* bound: the writer stops here

ASSUME OrderedAssumption == Ordered \in BOOLEAN
ASSUME BoundAssumption == MaxGeneration \in Nat

VARIABLES
  slots,        \* the mapped memory: slot -> word -> generation that wrote it
  published,    \* the counter as the writer last stored it
  seen,         \* the counter as the other process can load it
  writer,       \* "idle", or "filling" the slot of generation published + 1
  filled,       \* the words of that slot already written
  reader,       \* "idle", "copying", or about to load the counter again
  started,      \* the generation read_latest found, 0 when it found none
  copied,       \* the words already copied
  out,          \* the caller's buffer
  kept          \* the last result of read_latest that was not None

writerVars == <<slots, published, writer, filled>>
readerVars == <<reader, started, copied, out, kept>>
vars == <<slots, published, seen, writer, filled, reader, started, copied, out, kept>>

Blank == [w \in Words |-> 0]

\* SharedFrames::create: a fresh file is zeros, and the counter says so.
Init ==
  /\ slots = [s \in Slots |-> Blank]
  /\ published = 0
  /\ seen = 0
  /\ writer = "idle"
  /\ filled = {}
  /\ reader = "idle"
  /\ started = 0
  /\ copied = {}
  /\ out = Blank
  /\ kept = [generation |-> 0, pixels |-> Blank]

------------------------------------------------------------------------------
(* The writer: SharedFrames::write, called with published + 1.             *)

\* When stores are visible in order, the next fill is seen by nobody before
\* the counter of the last one.
BeginFill ==
  /\ writer = "idle"
  /\ published < MaxGeneration
  /\ Ordered => seen = published
  /\ writer' = "filling"
  /\ filled' = {}
  /\ UNCHANGED <<slots, published, seen, readerVars>>

FillWord(w) ==
  /\ writer = "filling"
  /\ w \in Words \ filled
  /\ slots' = [slots EXCEPT ![SlotOf(published + 1)][w] = published + 1]
  /\ filled' = filled \cup {w}
  /\ UNCHANGED <<published, seen, writer, readerVars>>

Publish ==
  /\ writer = "filling"
  /\ filled = Words
  /\ published' = published + 1
  /\ writer' = "idle"
  /\ UNCHANGED <<slots, seen, filled, readerVars>>

\* The store of the counter reaches the other process.
CounterArrives ==
  /\ seen < published
  /\ seen' \in seen + 1 .. published
  /\ UNCHANGED <<writerVars, readerVars>>

------------------------------------------------------------------------------
(* The reader: SharedFrames::read_latest.                                  *)

\* Mutant: copies a generation it was told about instead of the newest.
StartReadNamed ==
  /\ reader = "idle"
  /\ reader' = "copying"
  /\ started' \in 1 .. seen
  /\ copied' = {}
  /\ UNCHANGED <<writerVars, seen, out, kept>>

\* The first load.  With nothing published there is nothing to do.
StartRead ==
  /\ reader = "idle"
  /\ seen > 0
  /\ reader' = "copying"
  /\ started' = seen
  /\ copied' = {}
  /\ UNCHANGED <<writerVars, seen, out, kept>>

CopyWord(w) ==
  /\ reader = "copying"
  /\ w \in Words \ copied
  /\ out' = [out EXCEPT ![w] = slots[SlotOf(started)][w]]
  /\ copied' = copied \cup {w}
  /\ UNCHANGED <<writerVars, seen, reader, started, kept>>

\* The second load, and what is returned: the generation, or None when the
\* writer lapped the copy.
FinishRead ==
  /\ reader = "copying"
  /\ copied = Words
  /\ reader' = "idle"
  /\ kept' = IF CopyIsIntact(started, seen)
             THEN [generation |-> started, pixels |-> out]
             ELSE kept
  /\ UNCHANGED <<writerVars, seen, started, copied, out>>

------------------------------------------------------------------------------

Next ==
  \/ BeginFill
  \/ \E w \in Words : FillWord(w)
  \/ Publish
  \/ CounterArrives
  \/ StartRead
  \/ \E w \in Words : CopyWord(w)
  \/ FinishRead

Spec == Init /\ [][Next]_vars

------------------------------------------------------------------------------
(* Properties                                                              *)

\* Every variable stays in its domain; the counter only reaches the reader
\* after the writer stored it.
TypeOK ==
  /\ slots \in [Slots -> [Words -> 0 .. MaxGeneration]]
  /\ published \in 0 .. MaxGeneration
  /\ seen \in 0 .. published
  /\ writer \in {"idle", "filling"}
  /\ filled \subseteq Words
  /\ reader \in {"idle", "copying"}
  /\ started \in 0 .. seen
  /\ copied \subseteq Words
  /\ out \in [Words -> 0 .. MaxGeneration]
  /\ kept \in [generation : 0 .. MaxGeneration, pixels : [Words -> 0 .. MaxGeneration]]

\* read_latest never returns a torn picture: whatever the writer did during
\* the copy, a copy that passes copy_is_intact holds the words of exactly the
\* generation it is returned as.
NoTornCopy == \A w \in Words : kept.pixels[w] = kept.generation

\* The mapping is a register of whole pictures for its reader: every read
\* that returns something is the atomic read of a generation at most
\* SLOT_COUNT - 2 behind the counter, and pictures never run backwards.
Register == INSTANCE FrameRegister
              WITH newest <- seen, picture <- kept.pixels, Lag <- SLOT_COUNT - 2

ImplementsRegister == Register!Spec

------------------------------------------------------------------------------
(* The strengthening behind NoTornCopy.                                    *)

\* The newest generation any of whose words may be in memory.
Reach == IF writer = "filling" THEN published + 1 ELSE published

\* A slot is written again SLOT_COUNT generations later.
Untouched(generation) == generation + SLOT_COUNT > Reach

\* A published generation is whole in its slot until the writer returns.
SlotsHoldPublished ==
  \A generation \in 1 .. published :
    Untouched(generation) =>
      \A w \in Words : slots[SlotOf(generation)][w] = generation

\* The words filled so far are the next generation's.
FilledIsNext ==
  writer = "filling" =>
    /\ published < MaxGeneration
    /\ \A w \in filled : slots[SlotOf(published + 1)][w] = published + 1

\* The words copied so far are the generation the reader started from,
\* as long as the writer has not come back to its slot.
CopiedIsStarted ==
  reader = "copying" =>
    /\ started > 0
    /\ kept.generation <= started
    /\ Untouched(started) => \A w \in copied : out[w] = started

\* With visible stores in order, the writer is never two counters ahead of
\* what the reader can load, and not ahead at all while it fills.
CounterKeepsUp ==
  Ordered => /\ Reach <= seen + 1
             /\ writer = "filling" => seen = published

\* Whatever the stores do, a read is only ever of something published; that
\* the copy is whole is what Ordered is for.
KeptIsWhole ==
  /\ kept.generation <= seen
  /\ Ordered => NoTornCopy

\* Inductive: each step keeps every part, given all of them.
IInv ==
  /\ TypeOK
  /\ SlotsHoldPublished
  /\ FilledIsNext
  /\ CopiedIsStarted
  /\ CounterKeepsUp
  /\ KeptIsWhole

==============================================================================
