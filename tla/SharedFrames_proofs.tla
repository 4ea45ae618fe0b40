------------------------- MODULE SharedFrames_proofs -------------------------
(***************************************************************************)
(* For every number of slots, every set of words and any bound: with       *)
(* stores visible in program order, no read of the shared framebuffer is   *)
(* ever torn, and the mapping is a register of whole pictures.             *)
(***************************************************************************)
EXTENDS SharedFrames, TLAPS

\* A multiple of n lies strictly between 0 and n for no factor.
LEMMA NoMultipleBetween ==
  ASSUME NEW n \in Nat, NEW k \in Int, 0 < n * k, n * k < n
  PROVE  FALSE
<1>1. CASE k <= 0
  <2>1. n * k <= 0
    BY <1>1
  <2>2. QED
    BY <2>1
<1>2. CASE k >= 1
  <2>1. n * k >= n
    BY <1>2
  <2>2. QED
    BY <2>1
<1>3. QED
  BY <1>1, <1>2

\* Fewer than SLOT_COUNT generations apart, two generations never share a
\* slot: this is what keeps the writer out of the slot being read.
LEMMA SlotsApart ==
  ASSUME NEW a \in Nat, NEW b \in Nat, a < b, b < a + SLOT_COUNT
  PROVE  SlotOf(a) # SlotOf(b)
<1>n. SLOT_COUNT \in Nat /\ SLOT_COUNT > 0
  BY SlotCountAssumption
<1>1. SUFFICES ASSUME SlotOf(a) = SlotOf(b) PROVE FALSE
  OBVIOUS
<1>2. /\ a \div SLOT_COUNT \in Int
      /\ a = SLOT_COUNT * (a \div SLOT_COUNT) + (a % SLOT_COUNT)
  BY <1>n
<1>3. /\ b \div SLOT_COUNT \in Int
      /\ b = SLOT_COUNT * (b \div SLOT_COUNT) + (b % SLOT_COUNT)
  BY <1>n
<1> DEFINE k == (b \div SLOT_COUNT) - (a \div SLOT_COUNT)
<1>4. k \in Int /\ b - a = SLOT_COUNT * k
  BY <1>n, <1>1, <1>2, <1>3 DEF SlotOf
<1>5. 0 < SLOT_COUNT * k /\ SLOT_COUNT * k < SLOT_COUNT
  BY <1>n, <1>4
<1> HIDE DEF k
<1>6. QED
  BY <1>n, <1>4, <1>5, NoMultipleBetween

\* A generation's slot is a slot of the mapping: slot_range never fails for
\* a mapping whose length matches its header.
LEMMA SlotInMapping ==
  ASSUME NEW a \in Nat
  PROVE  SlotOf(a) \in Slots
BY SlotCountAssumption DEF SlotOf, Slots

------------------------------------------------------------------------------
(* Type correctness, which needs no ordering of stores.                    *)

\* While a slot is being filled the bound is not reached, so the generation
\* written is still in range.
BelowBound == writer = "filling" => published < MaxGeneration

LEMMA TypeStep ==
  ASSUME TypeOK, BelowBound, [Next]_vars
  PROVE  TypeOK' /\ BelowBound'
<1> USE BoundAssumption DEF TypeOK, BelowBound
<1>1. CASE BeginFill
  BY <1>1 DEF BeginFill, readerVars
<1>2. ASSUME NEW w \in Words, FillWord(w) PROVE TypeOK' /\ BelowBound'
  <2>1. SlotOf(published + 1) \in Slots
    BY SlotInMapping
  <2>2. published + 1 \in 0 .. MaxGeneration
    BY <1>2 DEF FillWord
  <2>3. slots' \in [Slots -> [Words -> 0 .. MaxGeneration]]
    BY <1>2, <2>1, <2>2 DEF FillWord
  <2>4. QED
    BY <1>2, <2>3 DEF FillWord, readerVars
<1>3. CASE Publish
  BY <1>3 DEF Publish, readerVars
<1>4. CASE CounterArrives
  BY <1>4 DEF CounterArrives, writerVars, readerVars
<1>5. CASE StartRead
  BY <1>5 DEF StartRead, writerVars
<1>6. ASSUME NEW w \in Words, CopyWord(w) PROVE TypeOK' /\ BelowBound'
  <2>1. slots[SlotOf(started)][w] \in 0 .. MaxGeneration
    BY SlotInMapping
  <2>2. out' \in [Words -> 0 .. MaxGeneration]
    BY <1>6, <2>1 DEF CopyWord
  <2>3. QED
    BY <1>6, <2>2 DEF CopyWord, writerVars
<1>7. CASE FinishRead
  <2>1. kept' \in [generation : 0 .. MaxGeneration, pixels : [Words -> 0 .. MaxGeneration]]
    BY <1>7 DEF FinishRead
  <2>2. QED
    BY <1>7, <2>1 DEF FinishRead, writerVars
<1>8. CASE UNCHANGED vars
  BY <1>8 DEF vars
<1>9. QED
  BY <1>1, <1>2, <1>3, <1>4, <1>5, <1>6, <1>7, <1>8 DEF Next

\* Every variable of a mapping stays in its domain: in particular no slot
\* index leaves the mapping, and the counter the reader loads is never ahead
\* of the one the writer stored.
THEOREM TypeCorrect == Spec => []TypeOK
<1>1. Init => TypeOK /\ BelowBound
  BY BoundAssumption DEF Init, TypeOK, BelowBound, Blank
<1>2. TypeOK /\ BelowBound /\ [Next]_vars => TypeOK' /\ BelowBound'
  BY TypeStep
<1>3. QED
  BY <1>1, <1>2, PTL DEF Spec

------------------------------------------------------------------------------
(* The inductive invariant, one part at a time.                            *)

\* The writer never touches the slot of a generation still in reach of a
\* reader, so what is published stays whole.
LEMMA SlotsStep ==
  ASSUME IInv, TypeOK', [Next]_vars
  PROVE  SlotsHoldPublished'
<1> USE BoundAssumption, SlotCountAssumption
    DEF IInv, TypeOK, SlotsHoldPublished, Untouched, Reach
<1>1. CASE BeginFill
  BY <1>1 DEF BeginFill, readerVars
<1>2. ASSUME NEW w \in Words, FillWord(w) PROVE SlotsHoldPublished'
  <2> SUFFICES ASSUME NEW generation \in 1 .. published', Untouched(generation)',
                      NEW v \in Words
               PROVE  slots'[SlotOf(generation)][v] = generation
    OBVIOUS
  <2>1. /\ generation \in Nat /\ published + 1 \in Nat
        /\ generation < published + 1 /\ published + 1 < generation + SLOT_COUNT
    BY <1>2 DEF FillWord
  <2>2. SlotOf(generation) # SlotOf(published + 1)
    BY <2>1, SlotsApart
  <2>3. slots[SlotOf(generation)][v] = generation
    BY <1>2 DEF FillWord
  <2>4. slots'[SlotOf(generation)] = slots[SlotOf(generation)]
    BY <1>2, <2>1, <2>2, SlotInMapping DEF FillWord
  <2>5. QED
    BY <2>3, <2>4
<1>3. CASE Publish
  <2> SUFFICES ASSUME NEW generation \in 1 .. published', Untouched(generation)',
                      NEW v \in Words
               PROVE  slots'[SlotOf(generation)][v] = generation
    OBVIOUS
  <2>1. CASE generation = published + 1
    BY <1>3, <2>1 DEF Publish, FilledIsNext
  <2>2. CASE generation # published + 1
    BY <1>3, <2>2 DEF Publish
  <2>3. QED
    BY <2>1, <2>2
<1>4. CASE CounterArrives
  BY <1>4 DEF CounterArrives, writerVars, readerVars
<1>5. CASE StartRead
  BY <1>5 DEF StartRead, writerVars
<1>6. ASSUME NEW w \in Words, CopyWord(w) PROVE SlotsHoldPublished'
  BY <1>6 DEF CopyWord, writerVars
<1>7. CASE FinishRead
  BY <1>7 DEF FinishRead, writerVars
<1>8. CASE UNCHANGED vars
  BY <1>8 DEF vars
<1>9. QED
  BY <1>1, <1>2, <1>3, <1>4, <1>5, <1>6, <1>7, <1>8 DEF Next

\* A word once filled keeps the next generation until it is published.
LEMMA FilledStep ==
  ASSUME IInv, TypeOK', [Next]_vars
  PROVE  FilledIsNext'
<1> USE BoundAssumption DEF IInv, TypeOK, FilledIsNext
<1>1. CASE BeginFill
  BY <1>1 DEF BeginFill, readerVars
<1>2. ASSUME NEW w \in Words, FillWord(w) PROVE FilledIsNext'
  BY <1>2, SlotInMapping DEF FillWord
<1>3. CASE Publish
  BY <1>3 DEF Publish
<1>4. CASE CounterArrives
  BY <1>4 DEF CounterArrives, writerVars, readerVars
<1>5. CASE StartRead
  BY <1>5 DEF StartRead, writerVars
<1>6. ASSUME NEW w \in Words, CopyWord(w) PROVE FilledIsNext'
  BY <1>6 DEF CopyWord, writerVars
<1>7. CASE FinishRead
  BY <1>7 DEF FinishRead, writerVars
<1>8. CASE UNCHANGED vars
  BY <1>8 DEF vars
<1>9. QED
  BY <1>1, <1>2, <1>3, <1>4, <1>5, <1>6, <1>7, <1>8 DEF Next

\* What has been copied is the generation the reader started from, unless
\* the writer is already back in that slot.
LEMMA CopiedStep ==
  ASSUME IInv, TypeOK', [Next]_vars
  PROVE  CopiedIsStarted'
<1> USE BoundAssumption, SlotCountAssumption
    DEF IInv, TypeOK, CopiedIsStarted, Untouched, Reach
<1>1. CASE BeginFill
  BY <1>1 DEF BeginFill, readerVars
<1>2. ASSUME NEW w \in Words, FillWord(w) PROVE CopiedIsStarted'
  BY <1>2 DEF FillWord, readerVars
<1>3. CASE Publish
  BY <1>3 DEF Publish, readerVars
<1>4. CASE CounterArrives
  BY <1>4 DEF CounterArrives, writerVars, readerVars
<1>5. CASE StartRead
  BY <1>5 DEF StartRead, writerVars, KeptIsWhole
<1>6. ASSUME NEW w \in Words, CopyWord(w) PROVE CopiedIsStarted'
  <2>1. Untouched(started) => slots[SlotOf(started)][w] = started
    BY <1>6 DEF CopyWord, SlotsHoldPublished
  <2>2. QED
    BY <1>6, <2>1 DEF CopyWord, writerVars
<1>7. CASE FinishRead
  BY <1>7 DEF FinishRead
<1>8. CASE UNCHANGED vars
  BY <1>8 DEF vars
<1>9. QED
  BY <1>1, <1>2, <1>3, <1>4, <1>5, <1>6, <1>7, <1>8 DEF Next

LEMMA StillWithinOne ==
  ASSUME NEW p \in Int, NEW s \in Int, NEW t \in Int, p <= s + 1, s + 1 <= t
  PROVE  p <= t + 1
OBVIOUS

\* Arriving brings the reader's counter closer, and never during a fill.
LEMMA CounterArrivesStep ==
  ASSUME IInv, CounterArrives
  PROVE  CounterKeepsUp'
<1> SUFFICES ASSUME Ordered
             PROVE  Reach' <= seen' + 1 /\ (writer' = "filling" => seen' = published')
  BY DEF CounterKeepsUp
<1>1. seen \in Int /\ published \in Int /\ Reach <= seen + 1
  BY BoundAssumption DEF IInv, TypeOK, CounterKeepsUp
<1>2. seen < published /\ (writer = "filling" => seen = published)
  BY DEF CounterArrives, IInv, CounterKeepsUp
<1>3. writer # "filling" /\ published <= seen + 1
  BY <1>1, <1>2 DEF Reach
<1>4. seen' \in seen + 1 .. published /\ UNCHANGED <<published, writer>>
  BY DEF CounterArrives, writerVars
<1>5. seen' \in Int /\ seen + 1 <= seen'
  BY <1>1, <1>4
<1>6. published <= seen' + 1
  BY <1>1, <1>3, <1>5, StillWithinOne
<1>7. writer' # "filling" /\ Reach' <= seen' + 1
  BY <1>3, <1>4, <1>6 DEF Reach
<1>8. QED
  BY <1>7

\* The writer starts a fill only when its last counter has arrived.
LEMMA CounterStep ==
  ASSUME IInv, TypeOK', [Next]_vars
  PROVE  CounterKeepsUp'
<1> USE BoundAssumption DEF IInv, TypeOK, CounterKeepsUp, Reach
<1>1. CASE BeginFill
  BY <1>1 DEF BeginFill, readerVars
<1>2. ASSUME NEW w \in Words, FillWord(w) PROVE CounterKeepsUp'
  BY <1>2 DEF FillWord, readerVars
<1>3. CASE Publish
  BY <1>3 DEF Publish, readerVars
<1>4. CASE CounterArrives
  BY <1>4, CounterArrivesStep
<1>5. CASE StartRead
  BY <1>5 DEF StartRead, writerVars
<1>6. ASSUME NEW w \in Words, CopyWord(w) PROVE CounterKeepsUp'
  BY <1>6 DEF CopyWord, writerVars
<1>7. CASE FinishRead
  BY <1>7 DEF FinishRead, writerVars
<1>8. CASE UNCHANGED vars
  BY <1>8 DEF vars
<1>9. QED
  BY <1>1, <1>2, <1>3, <1>4, <1>5, <1>6, <1>7, <1>8 DEF Next

\* A copy that passes the check was finished before the writer came back:
\* the counter the reader loads is at most one behind the writer's reach.
LEMMA IntactIsUntouched ==
  ASSUME IInv, Ordered, CopyIsIntact(started, seen)
  PROVE  Untouched(started)
BY BoundAssumption, SlotCountAssumption
   DEF IInv, TypeOK, CounterKeepsUp, Untouched, Reach, CopyIsIntact, SaturatingSub

\* FinishRead is the only step that changes what was returned.
LEMMA KeptStep ==
  ASSUME IInv, TypeOK', [Next]_vars
  PROVE  KeptIsWhole'
<1> USE BoundAssumption DEF IInv, TypeOK, KeptIsWhole, NoTornCopy
<1>1. CASE BeginFill
  BY <1>1 DEF BeginFill, readerVars
<1>2. ASSUME NEW w \in Words, FillWord(w) PROVE KeptIsWhole'
  BY <1>2 DEF FillWord, readerVars
<1>3. CASE Publish
  BY <1>3 DEF Publish, readerVars
<1>4. CASE CounterArrives
  BY <1>4 DEF CounterArrives, writerVars, readerVars
<1>5. CASE StartRead
  BY <1>5 DEF StartRead, writerVars
<1>6. ASSUME NEW w \in Words, CopyWord(w) PROVE KeptIsWhole'
  BY <1>6 DEF CopyWord, writerVars
<1>7. CASE FinishRead
  <2>1. CASE CopyIsIntact(started, seen)
    <3>1. Ordered => \A w \in Words : out[w] = started
      BY <1>7, <2>1, IntactIsUntouched DEF FinishRead, CopiedIsStarted
    <3>2. kept' = [generation |-> started, pixels |-> out] /\ seen' = seen
      BY <1>7, <2>1 DEF FinishRead
    <3>3. QED
      BY <3>1, <3>2
  <2>2. CASE ~CopyIsIntact(started, seen)
    BY <1>7, <2>2 DEF FinishRead
  <2>3. QED
    BY <2>1, <2>2
<1>8. CASE UNCHANGED vars
  BY <1>8 DEF vars
<1>9. QED
  BY <1>1, <1>2, <1>3, <1>4, <1>5, <1>6, <1>7, <1>8 DEF Next

LEMMA InitInv == Init => IInv
BY BoundAssumption, SlotCountAssumption, SlotInMapping
   DEF Init, IInv, TypeOK, SlotsHoldPublished, FilledIsNext, CopiedIsStarted,
       CounterKeepsUp, KeptIsWhole, NoTornCopy, Reach, Untouched, Blank

LEMMA InvStep == IInv /\ [Next]_vars => IInv'
<1> SUFFICES ASSUME IInv, [Next]_vars PROVE IInv'
  OBVIOUS
<1>1. TypeOK'
  BY TypeStep DEF IInv, FilledIsNext, BelowBound
<1>2. QED
  BY <1>1, SlotsStep, FilledStep, CopiedStep, CounterStep, KeptStep DEF IInv

\* The strengthened invariant holds of every reachable state, whatever the
\* order of stores.
THEOREM Invariance == Spec => []IInv
BY InitInv, InvStep, PTL DEF Spec

\* With stores visible in order, read_latest never returns a torn picture,
\* for any number of slots and however often the writer laps the reader.
THEOREM NeverTorn ==
  ASSUME Ordered
  PROVE  Spec => []NoTornCopy
<1>1. IInv => NoTornCopy
  BY DEF IInv, KeptIsWhole
<1>2. QED
  BY <1>1, Invariance, PTL

------------------------------------------------------------------------------
(* The mapping implements the register.                                    *)

LEMMA RegisterInit == Init => Register!Init
BY DEF Init, Register!Init, Blank

LEMMA RegisterStep ==
  ASSUME Ordered, IInv, IInv', [Next]_vars
  PROVE  [Register!Next]_Register!vars
<1> USE DEF Register!vars
<1>1. CASE BeginFill
  BY <1>1 DEF BeginFill, readerVars
<1>2. ASSUME NEW w \in Words, FillWord(w) PROVE UNCHANGED Register!vars
  BY <1>2 DEF FillWord, readerVars
<1>3. CASE Publish
  BY <1>3 DEF Publish, readerVars
<1>4. CASE CounterArrives
  <2>1. Register!Publish
    BY <1>4, BoundAssumption
       DEF CounterArrives, readerVars, Register!Publish, IInv, TypeOK
  <2>2. QED
    BY <2>1 DEF Register!Next
<1>5. CASE StartRead
  BY <1>5 DEF StartRead, writerVars
<1>6. ASSUME NEW w \in Words, CopyWord(w) PROVE UNCHANGED Register!vars
  BY <1>6 DEF CopyWord, writerVars
<1>7. CASE FinishRead
  <2>1. CASE CopyIsIntact(started, seen)
    <3>1. /\ started \in 1 .. seen
          /\ seen - started <= SLOT_COUNT - 2
      BY <1>7, <2>1, BoundAssumption, SlotCountAssumption
         DEF FinishRead, IInv, TypeOK, CopiedIsStarted, CopyIsIntact, SaturatingSub
    <3>2. \A w \in Words : kept.pixels[w] <= started
      BY <1>7 DEF FinishRead, IInv, CopiedIsStarted, KeptIsWhole, NoTornCopy
    <3>3. out = [w \in Words |-> started]
      <4>1. \A w \in Words : out[w] = started
        BY <1>7, <2>1, IntactIsUntouched DEF FinishRead, IInv, CopiedIsStarted
      <4>2. QED
        BY <4>1 DEF IInv, TypeOK
    <3>4. kept'.pixels = [w \in Words |-> started] /\ seen' = seen
      BY <1>7, <2>1, <3>3 DEF FinishRead
    <3>5. Register!Read
      BY <3>1, <3>2, <3>4 DEF Register!Read
    <3>6. QED
      BY <3>5 DEF Register!Next
  <2>2. CASE ~CopyIsIntact(started, seen)
    BY <1>7, <2>2 DEF FinishRead
  <2>3. QED
    BY <2>1, <2>2
<1>8. CASE UNCHANGED vars
  BY <1>8 DEF vars
<1>9. QED
  BY <1>1, <1>2, <1>3, <1>4, <1>5, <1>6, <1>7, <1>8 DEF Next

\* The word-by-word mapping implements the atomic register: a read that
\* returns something takes effect at one instant, is at most SLOT_COUNT - 2
\* generations old, and pictures never run backwards.
THEOREM Refinement ==
  ASSUME Ordered
  PROVE  Spec => ImplementsRegister
<1>1. IInv /\ IInv' /\ [Next]_vars => [Register!Next]_Register!vars
  BY RegisterStep
<1>2. QED
  BY <1>1, RegisterInit, Invariance, PTL DEF Spec, ImplementsRegister, Register!Spec

==============================================================================
