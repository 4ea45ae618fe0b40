----------------------------- MODULE FrameLayout -----------------------------
(***************************************************************************)
(* The arithmetic both ends of the shared framebuffer agree on             *)
(* (crates/ipc-frame/src/shared.rs): which slot a generation lives in, and *)
(* when a finished copy may be trusted.  The file's header never changes   *)
(* after it is created, so the number of slots is a constant.              *)
(***************************************************************************)
EXTENDS Integers

CONSTANT SLOT_COUNT     \* the slots of one mapping, 3 in the code

\* total_bytes refuses a mapping with fewer than two slots.
ASSUME SlotCountAssumption == SLOT_COUNT \in Nat /\ SLOT_COUNT >= 2

Slots == 0 .. SLOT_COUNT - 1

SlotOf(generation) == generation % SLOT_COUNT

\* u64::saturating_sub: the counter never runs backwards, but the code does
\* not rely on it.
SaturatingSub(a, b) == IF a >= b THEN a - b ELSE 0

\* Mutant: one generation too patient.
CopyIsIntactOffByOne(started, now) == SaturatingSub(now, started) <= SLOT_COUNT - 1

CopyIsIntact(started, now) == SaturatingSub(now, started) < SLOT_COUNT - 1

==============================================================================
