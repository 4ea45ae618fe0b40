-------------------------- MODULE TerminalTab_proofs --------------------------
(***************************************************************************)
(* Proofs about TerminalTab, for any output, sizes and budget: a tab that  *)
(* says its session ended shows all of it and says how it ended; the size  *)
(* last drawn is the size the peer has; what the peer asks is answered     *)
(* once and in order.                                                      *)
(***************************************************************************)
EXTENDS TerminalTab, FiniteSetTheorems, WellFoundedInduction, TLAPS

------------------------------------------------------------------------------
(* Numbers and sequences                                                   *)

LEMMA Least ==
  ASSUME NEW S \in SUBSET Nat, S # {}
  PROVE  \E n \in S : \A k \in S : n <= k
<1>1. PICK n \in S : \A k \in S : ~(<<k, n>> \in OpToRel(<, Nat))
  BY NatLessThanWellFounded, WFMin
<1>2. \A k \in S : ~(k < n)
  BY <1>1 DEF OpToRel
<1> QED
  BY <1>2

LEMMA AppendElements ==
  ASSUME NEW S, NEW s \in Seq(S), NEW e \in S
  PROVE  /\ Append(s, e) \in Seq(S) /\ Len(Append(s, e)) = Len(s) + 1
         /\ Append(s, e) # <<>> /\ Append(s, e)[Len(s) + 1] = e
         /\ \A n \in 1 .. Len(s) : Append(s, e)[n] = s[n]
OBVIOUS

LEMMA TailElements ==
  ASSUME NEW S, NEW s \in Seq(S), s # <<>>
  PROVE  /\ Tail(s) \in Seq(S) /\ Len(Tail(s)) = Len(s) - 1 /\ Len(s) > 0
         /\ \A n \in 1 .. Len(s) - 1 : Tail(s)[n] = s[n + 1]
         /\ Head(s) = s[1] /\ Head(s) \in S
OBVIOUS

LEMMA ConcatElements ==
  ASSUME NEW S, NEW s \in Seq(S), NEW t \in Seq(S)
  PROVE  /\ s \o t \in Seq(S) /\ Len(s \o t) = Len(s) + Len(t)
         /\ \A n \in 1 .. Len(s) : (s \o t)[n] = s[n]
         /\ \A n \in 1 .. Len(t) : (s \o t)[Len(s) + n] = t[n]
OBVIOUS

LEMMA EmptyConcat ==
  ASSUME NEW S, NEW s \in Seq(S)
  PROVE  <<>> \o s = s /\ s \o <<>> = s
OBVIOUS

LEMMA AppendThenConcat ==
  ASSUME NEW S, NEW s \in Seq(S), NEW e \in S, NEW t \in Seq(S)
  PROVE  Append(s, e) \o t = s \o (<<e>> \o t)
OBVIOUS

LEMMA ConcatAssociates ==
  ASSUME NEW S, NEW s \in Seq(S), NEW t \in Seq(S), NEW u \in Seq(S)
  PROVE  (s \o t) \o u = s \o (t \o u)
OBVIOUS

LEMMA RestElements ==
  ASSUME NEW S, NEW s \in Seq(S), NEW n \in 0 .. Len(s)
  PROVE  LET rest == SubSeq(s, n + 1, Len(s))
         IN  /\ rest \in Seq(S) /\ Len(rest) = Len(s) - n
             /\ \A k \in 1 .. Len(s) - n : rest[k] = s[n + k]
OBVIOUS

LEMMA TailIsRest ==
  ASSUME NEW S, NEW s \in Seq(S), s # <<>>
  PROVE  Tail(s) = SubSeq(s, 1 + 1, Len(s)) /\ (Len(s) = 1 => Tail(s) = <<>>)
<1> DEFINE t == Tail(s)
           r == SubSeq(s, 1 + 1, Len(s))
<1>1. /\ t \in Seq(S) /\ Len(t) = Len(s) - 1 /\ Len(s) > 0 /\ Len(s) \in Nat
      /\ \A n \in 1 .. Len(s) - 1 : t[n] = s[n + 1]
  BY TailElements
<1>2. /\ r \in Seq(S) /\ Len(r) = Len(s) - 1
      /\ \A n \in 1 .. Len(s) - 1 : r[n] = s[1 + n]
  <2>1. 1 \in 0 .. Len(s)
    BY <1>1
  <2> QED
    BY <2>1, RestElements
<1> HIDE DEF t, r
<1>3. \A n \in 1 .. Len(s) - 1 : n + 1 = 1 + n
  BY <1>1
<1>4. t = r
  BY <1>1, <1>2, <1>3
<1>5. Len(s) = 1 => t = <<>>
  BY <1>1
<1> QED
  BY <1>4, <1>5 DEF t, r

------------------------------------------------------------------------------
(* What travels                                                            *)

LEMMA Fields ==
  /\ \A e \in Pieces : e.type = "Output" /\ e.n \in 1 .. MaxOutput
  /\ \A n : Piece(n).type = "Output" /\ Piece(n).n = n
  /\ \A e \in Endings : e.type = "Closed" /\ e.message \in BOOLEAN
  /\ \A e \in Signals : e.type \in {"status", "eof", "gone"}
  /\ \A e \in DataCommands : e.type = "Data" /\ e.bytes \in Replies
  /\ \A e \in Commands :
       /\ e.type = "Data" => e \in DataCommands
       /\ e.type = "Resize" => e.size \in Sizes
       /\ e.type \in {"Data", "Resize"} \/ e = Shutdown
  /\ \A to : Resize(to).type = "Resize" /\ Resize(to).size = to
  /\ \A bytes : Data(bytes).type = "Data" /\ Data(bytes).bytes = bytes
  /\ Shutdown.type = "Shutdown"
  /\ \A type : Signal(type).type = type
BY DEF Pieces, Piece, Endings, Closed, Signals, Signal, DataCommands, Data, Commands, Resize,
       Shutdown

\* What a pump takes: everything before where it stops is output.
LEMMA PumpedIs ==
  ASSUME TypeOK
  PROVE  /\ Pumped \in 0 .. Len(queue)
         /\ Pumped = 0 <=> queue = <<>>
         /\ \A k \in 1 .. Pumped - 1 : queue[k] \in Pieces
         /\ EndIsPumped => queue[Pumped] \in Endings
         /\ Pumped > 0 /\ ~EndIsPumped => queue[Pumped] \in Pieces
<1> DEFINE stops == {n \in 1 .. Len(queue) : n = Len(queue) \/ n = Budget \/ Ends(n)}
<1>1. queue \in Seq(Pieces \cup Endings) /\ Len(queue) \in Nat
  <2>1. queue \in Seq(Pieces \cup Endings)
    BY DEF TypeOK, RelayTypeOK
  <2> QED
    BY <2>1
<1>2. \A k \in 1 .. Len(queue) : IF Ends(k) THEN queue[k] \in Endings ELSE queue[k] \in Pieces
  <2>1. \A k \in 1 .. Len(queue) : queue[k] \in Pieces \cup Endings
    BY <1>1
  <2>2. (\A e \in Pieces : e.type = "Output") /\ (\A e \in Endings : e.type = "Closed")
    BY Fields
  <2> QED
    BY <2>1, <2>2 DEF Ends
<1>3. CASE stops = {}
  <2>1. Len(queue) = 0
    BY <1>1, <1>3
  <2>2. Pumped = 0
    BY <1>3 DEF Pumped
  <2> QED
    BY <1>1, <2>1, <2>2 DEF EndIsPumped
<1>4. CASE stops # {}
  <2>1. \E n \in stops : \A k \in stops : n <= k
    <3>1. stops \in SUBSET Nat
      OBVIOUS
    <3> HIDE DEF stops
    <3> QED
      BY <1>4, <3>1, Least
  <2>2. Pumped \in stops /\ \A k \in stops : Pumped <= k
    BY <1>4, <2>1 DEF Pumped
  <2>3. \A k \in 1 .. Pumped - 1 : ~Ends(k)
    BY <1>1, <2>2
  <2> QED
    BY <1>1, <1>2, <2>2, <2>3 DEF EndIsPumped
<1> QED
  BY <1>3, <1>4

LEMMA OutputType ==
  ASSUME TypeOK
  PROVE  Output \in Seq(1 .. MaxOutput) /\ Exit \in Endings \cup {NoExit}
<1> DEFINE m == IF EndIsPumped THEN Pumped - 1 ELSE Pumped
<1>1. m \in Nat /\ \A k \in 1 .. m : queue[k] \in Pieces
  BY PumpedIs DEF EndIsPumped
<1>2. \A k \in 1 .. m : queue[k].n \in 1 .. MaxOutput
  BY <1>1, Fields
<1>3. Output = [k \in 1 .. m |-> queue[k].n]
  BY DEF Output
<1> HIDE DEF m
<1>4. Output \in Seq(1 .. MaxOutput)
  BY <1>1, <1>2, <1>3
<1>5. Exit \in Endings \cup {NoExit}
  BY PumpedIs DEF Exit, TypeOK, TabTypeOK
<1> QED
  BY <1>4, <1>5

------------------------------------------------------------------------------
(* Among: the elements of a list that are in a set, in order               *)

\* Where they are, and how many of them there are up to a place.
Places(list, set) == {k \in DOMAIN list : list[k] \in set}
UpTo(A, k) == {j \in A : j <= k}
Rank(A, k) == Cardinality(UpTo(A, k))

\* The places of a list that follows one of m elements.
After(m, B) == {m + j : j \in B}

\* The places up to one are those up to the one before, and perhaps itself.
LEMMA UpToGrows ==
  ASSUME NEW A \in SUBSET Nat, NEW k \in Nat \ {0}
  PROVE  /\ UpTo(A, k) = UpTo(A, k - 1) \cup (A \cap {k})
         /\ k \notin UpTo(A, k - 1)
<1>1. \A x \in Nat : x \in UpTo(A, k) <=> x \in UpTo(A, k - 1) \/ (x \in A /\ x = k)
  BY DEF UpTo
<1>2. UpTo(A, k) \subseteq Nat /\ UpTo(A, k - 1) \subseteq Nat
  BY DEF UpTo
<1>3. k \notin UpTo(A, k - 1)
  BY DEF UpTo
<1> QED
  BY <1>1, <1>2, <1>3

LEMMA UpToIsMonotone ==
  ASSUME NEW A \in SUBSET Nat, NEW j \in Nat, NEW k \in Nat, j <= k
  PROVE  UpTo(A, j) \subseteq UpTo(A, k)
<1>1. \A x \in Nat : x \in UpTo(A, j) => x \in UpTo(A, k)
  BY DEF UpTo
<1>2. UpTo(A, j) \subseteq Nat
  BY DEF UpTo
<1> QED
  BY <1>1, <1>2

LEMMA RankSteps ==
  ASSUME NEW m \in Nat, NEW A \in SUBSET (1 .. m)
  PROVE  /\ IsFiniteSet(A) /\ Cardinality(A) \in Nat
         /\ Rank(A, 0) = 0 /\ Rank(A, m) = Cardinality(A)
         /\ \A k \in 0 .. m : Rank(A, k) \in Nat
         /\ \A j, k \in 0 .. m : j <= k => Rank(A, j) <= Rank(A, k)
         /\ \A k \in 1 .. m : Rank(A, k) = Rank(A, k - 1) + (IF k \in A THEN 1 ELSE 0)
<1>0. A \in SUBSET Nat
  OBVIOUS
<1>1. IsFiniteSet(A) /\ Cardinality(A) \in Nat
  <2>1. IsFiniteSet(1 .. m)
    BY FS_Interval
  <2> QED
    BY <2>1, FS_Subset, FS_CardinalityType
<1>2. \A k \in 0 .. m : UpTo(A, k) \subseteq A /\ IsFiniteSet(UpTo(A, k)) /\ Rank(A, k) \in Nat
  <2>1. \A k \in 0 .. m : UpTo(A, k) \subseteq A
    BY DEF UpTo
  <2> QED
    BY <1>1, <2>1, FS_Subset, FS_CardinalityType DEF Rank
<1>3. UpTo(A, 0) = {} /\ UpTo(A, m) = A
  <2>1. \A x \in 1 .. m : (x \in UpTo(A, m) <=> x \in A) /\ x \notin UpTo(A, 0)
    BY DEF UpTo
  <2>2. UpTo(A, m) \subseteq A /\ UpTo(A, 0) \subseteq A
    BY DEF UpTo
  <2> QED
    BY <2>1, <2>2
<1>4. ASSUME NEW j \in 0 .. m, NEW k \in 0 .. m, j <= k
      PROVE  Rank(A, j) <= Rank(A, k)
  <2>1. UpTo(A, j) \subseteq UpTo(A, k)
    BY <1>0, <1>4, UpToIsMonotone
  <2> QED
    BY <1>2, <2>1, FS_Subset DEF Rank
<1>5. ASSUME NEW k \in 1 .. m
      PROVE  Rank(A, k) = Rank(A, k - 1) + (IF k \in A THEN 1 ELSE 0)
  <2>1. IsFiniteSet(UpTo(A, k - 1)) /\ Rank(A, k - 1) \in Nat
    BY <1>2
  <2>2. UpTo(A, k) = UpTo(A, k - 1) \cup (A \cap {k}) /\ k \notin UpTo(A, k - 1)
    BY <1>0, UpToGrows
  <2>3. CASE k \in A
    <3>1. UpTo(A, k) = UpTo(A, k - 1) \cup {k}
      BY <2>2, <2>3
    <3> QED
      BY <2>1, <2>2, <2>3, <3>1, FS_AddElement DEF Rank
  <2>4. CASE k \notin A
    <3>1. UpTo(A, k) = UpTo(A, k - 1)
      BY <2>2, <2>4
    <3> QED
      BY <2>1, <2>4, <3>1 DEF Rank
  <2> QED
    BY <2>3, <2>4
<1> QED
  BY <1>1, <1>2, <1>3, <1>4, <1>5, FS_EmptySet DEF Rank

\* Every number up to how many there are is the rank of exactly one.
LEMMA Ranks ==
  ASSUME NEW m \in Nat, NEW A \in SUBSET (1 .. m)
  PROVE  /\ \A k \in A : Rank(A, k) \in 1 .. Cardinality(A)
         /\ \A j, k \in A : Rank(A, j) = Rank(A, k) => j = k
         /\ \A r \in 1 .. Cardinality(A) : \E k \in A : Rank(A, k) = r
<1>1. /\ Cardinality(A) \in Nat /\ Rank(A, 0) = 0 /\ Rank(A, m) = Cardinality(A)
      /\ \A k \in 0 .. m : Rank(A, k) \in Nat
      /\ \A j, k \in 0 .. m : j <= k => Rank(A, j) <= Rank(A, k)
      /\ \A k \in 1 .. m : Rank(A, k) = Rank(A, k - 1) + (IF k \in A THEN 1 ELSE 0)
  BY RankSteps
<1>2. \A k \in A : k \in 1 .. m /\ k - 1 \in 0 .. m /\ k \in 0 .. m
  OBVIOUS
<1>3. \A k \in A : Rank(A, k) = Rank(A, k - 1) + 1 /\ Rank(A, k - 1) \in Nat
  BY <1>1, <1>2
<1>4. \A k \in A : Rank(A, k) \in 1 .. Cardinality(A)
  <2>1. \A k \in A : Rank(A, k) <= Rank(A, m)
    BY <1>1, <1>2
  <2> QED
    BY <1>1, <1>2, <1>3, <2>1
<1>5. ASSUME NEW j \in A, NEW k \in A, Rank(A, j) = Rank(A, k), j < k
      PROVE  FALSE
  <2>1. Rank(A, j) <= Rank(A, k - 1)
    BY <1>1, <1>2, <1>5
  <2> QED
    BY <1>3, <1>5, <2>1
<1>6. \A j, k \in A : Rank(A, j) = Rank(A, k) => j = k
  BY <1>2, <1>5
<1>7. ASSUME NEW r \in 1 .. Cardinality(A)
      PROVE  \E k \in A : Rank(A, k) = r
  <2> DEFINE S == {k \in 0 .. m : r <= Rank(A, k)}
  <2>1. S \in SUBSET Nat /\ S # {}
    BY <1>1
  <2> HIDE DEF S
  <2>2. PICK k \in S : \A j \in S : k <= j
    BY <2>1, Least
  <2>3. k \in 0 .. m /\ r <= Rank(A, k) /\ \A j \in 0 .. m : r <= Rank(A, j) => k <= j
    BY <2>2 DEF S
  <2>4. k # 0
    BY <1>1, <2>3
  <2>5. k - 1 \in 0 .. m /\ k \in 1 .. m /\ Rank(A, k - 1) < r
    BY <1>1, <2>3, <2>4
  <2> QED
    BY <1>1, <2>3, <2>5
<1> QED
  BY <1>4, <1>6, <1>7

LEMMA AmongIs ==
  ASSUME NEW S, NEW list \in Seq(S), NEW set
  PROVE  LET A == Places(list, set)
             some == Among(list, set)
         IN  /\ A \in SUBSET (1 .. Len(list)) /\ Cardinality(A) \in Nat
             /\ some \in Seq(S) /\ Len(some) = Cardinality(A)
             /\ \A n \in 1 .. Len(some) : some[n] \in set
             /\ \A k \in A : Rank(A, k) \in 1 .. Len(some) /\ some[Rank(A, k)] = list[k]
<1> DEFINE A == Places(list, set)
           some == Among(list, set)
           nth(n) == CHOOSE k \in A : Rank(A, k) = n
<1>1. Len(list) \in Nat /\ A \in SUBSET (1 .. Len(list))
  BY DEF Places
<1>2. some = [n \in 1 .. Cardinality(A) |-> list[nth(n)]]
  BY DEF Among, Rank, UpTo, Places
<1>3. \A k \in A : k \in DOMAIN list /\ list[k] \in S \cap set
  BY DEF Places
<1> HIDE DEF A, some
<1>4. Cardinality(A) \in Nat
  BY <1>1, RankSteps
<1>5. /\ \A k \in A : Rank(A, k) \in 1 .. Cardinality(A)
      /\ \A j, k \in A : Rank(A, j) = Rank(A, k) => j = k
      /\ \A r \in 1 .. Cardinality(A) : \E k \in A : Rank(A, k) = r
  BY <1>1, Ranks
<1>6. \A n \in 1 .. Cardinality(A) : nth(n) \in A /\ Rank(A, nth(n)) = n
  BY <1>5
<1>7. \A k \in A : nth(Rank(A, k)) = k
  BY <1>5, <1>6
<1> HIDE DEF nth
<1>8. /\ some \in Seq(S) /\ Len(some) = Cardinality(A)
      /\ \A n \in 1 .. Len(some) : some[n] \in set
  BY <1>2, <1>3, <1>4, <1>6
<1>9. \A k \in A : Rank(A, k) \in 1 .. Len(some) /\ some[Rank(A, k)] = list[k]
  BY <1>2, <1>5, <1>7, <1>8
<1> QED
  BY <1>1, <1>4, <1>8, <1>9 DEF A, some

\* Counted up to a place of the second of two lists: all that are in the first,
\* and those of the second up to there.
LEMMA RankOfSecond ==
  ASSUME NEW m \in Nat, NEW A \in SUBSET (1 .. m),
         NEW B \in SUBSET (Nat \ {0}), IsFiniteSet(B),
         NEW k \in Nat
  PROVE  Rank(A \cup After(m, B), m + k) = Cardinality(A) + Rank(B, k)
<1> DEFINE C == A \cup After(m, B)
           U == UpTo(B, k)
           W == After(m, U)
           f == [j \in U |-> m + j]
<1>1. IsFiniteSet(A) /\ Cardinality(A) \in Nat
  BY RankSteps
<1>2. U \subseteq B
  BY DEF UpTo
<1>3. IsFiniteSet(U) /\ Cardinality(U) = Rank(B, k)
  BY <1>1, <1>2, FS_Subset DEF Rank
<1>4. f \in Bijection(U, W)
  <2>1. \A j \in U : j \in Nat
    <3>1. B \subseteq Nat
      OBVIOUS
    <3> HIDE DEF U
    <3> QED
      BY <1>2, <3>1
  <2>2. f \in [U -> W]
    BY DEF After
  <2>3. \A i, j \in U : f[i] = f[j] => i = j
    <3>1. \A i, j \in U : m + i = m + j => i = j
      BY <2>1
    <3> QED
      BY <3>1
  <2>4. \A w \in W : \E j \in U : f[j] = w
    BY DEF After
  <2> HIDE DEF f, W, U
  <2> QED
    BY <2>2, <2>3, <2>4 DEF Bijection, Injection, Surjection, IsInjective
<1>5. IsFiniteSet(W) /\ Cardinality(W) = Rank(B, k)
  BY <1>3, <1>4, FS_Bijection DEF ExistsBijection
<1>6. UpTo(C, m + k) = A \cup W /\ A \cap W = {}
  <2>1. A \subseteq Nat /\ B \subseteq Nat /\ \A a \in A : a <= m /\ \A b \in B : b >= 1
    OBVIOUS
  <2>2. \A b \in B : m + b <= m + k <=> b <= k
    OBVIOUS
  <2>3. \A a \in A : a <= m + k
    OBVIOUS
  <2>4. UpTo(C, m + k) = A \cup W
    BY <2>2, <2>3 DEF UpTo, After
  <2>5. A \cap W = {}
    <3>1. \A b \in B : m + b \notin A
      OBVIOUS
    <3> QED
      BY <1>2, <3>1 DEF After
  <2> QED
    BY <2>4, <2>5
<1>7. Cardinality(A \cup W) = Cardinality(A) + Cardinality(W)
  <2> HIDE DEF W
  <2>1. Cardinality(A \cup W) = Cardinality(A) + Cardinality(W) - Cardinality(A \cap W)
    BY <1>1, <1>5, FS_Union
  <2>2. Cardinality(A \cap W) = 0
    BY <1>6, FS_EmptySet
  <2>3. Cardinality(W) \in Nat
    BY <1>5, FS_CardinalityType
  <2> QED
    BY <1>1, <2>1, <2>2, <2>3
<1> QED
  BY <1>5, <1>6, <1>7 DEF Rank

\* What is picked from two lists put together is what is picked from each.
LEMMA PutTogether ==
  ASSUME NEW S, NEW a \in Seq(S), NEW b \in Seq(S), NEW c \in Seq(S),
         Len(c) = Len(a) + Len(b),
         \A r \in 1 .. Len(a) : c[r] = a[r],
         \A r \in 1 .. Len(b) : c[Len(a) + r] = b[r]
  PROVE  c = a \o b
<1> DEFINE d == a \o b
<1>1. /\ d \in Seq(S) /\ Len(d) = Len(a) + Len(b)
      /\ \A k \in 1 .. Len(a) : d[k] = a[k]
      /\ \A k \in 1 .. Len(b) : d[Len(a) + k] = b[k]
  BY ConcatElements
<1>2. Len(a) \in Nat /\ Len(b) \in Nat
  OBVIOUS
<1> HIDE DEF d
<1>3. \A k \in 1 .. Len(a) + Len(b) : c[k] = d[k]
  <2> TAKE k \in 1 .. Len(a) + Len(b)
  <2>1. CASE k <= Len(a)
    BY <1>1, <1>2, <2>1
  <2>2. CASE k > Len(a)
    <3> DEFINE r == k - Len(a)
    <3>1. r \in 1 .. Len(b) /\ k = Len(a) + r
      BY <1>2, <2>2
    <3> HIDE DEF r
    <3> QED
      BY <1>1, <3>1
  <2> QED
    BY <1>2, <2>1, <2>2
<1>4. c = d
  BY <1>1, <1>3
<1> QED
  BY <1>4 DEF d

LEMMA AmongConcat ==
  ASSUME NEW S, NEW s \in Seq(S), NEW t \in Seq(S), NEW set
  PROVE  Among(s \o t, set) = Among(s, set) \o Among(t, set)
<1>0. PICK st : st = s \o t
  OBVIOUS
<1> DEFINE A == Places(s, set)
           B == Places(t, set)
           C == Places(st, set)
           a == Among(s, set)
           b == Among(t, set)
           c == Among(st, set)
<1>m. PICK m \in Nat, n \in Nat : m = Len(s) /\ n = Len(t)
  OBVIOUS
<1>1. /\ st \in Seq(S) /\ Len(st) = m + n /\ m \in Nat /\ n \in Nat
      /\ \A k \in 1 .. m : st[k] = s[k]
      /\ \A k \in 1 .. n : st[m + k] = t[k]
  BY <1>0, <1>m, ConcatElements
<1>2. /\ A \in SUBSET (1 .. m) /\ Cardinality(A) \in Nat
      /\ a \in Seq(S) /\ Len(a) = Cardinality(A)
      /\ \A k \in A : Rank(A, k) \in 1 .. Len(a) /\ a[Rank(A, k)] = s[k]
  BY <1>m, AmongIs
<1>3. /\ B \in SUBSET (1 .. n) /\ Cardinality(B) \in Nat
      /\ b \in Seq(S) /\ Len(b) = Cardinality(B)
      /\ \A k \in B : Rank(B, k) \in 1 .. Len(b) /\ b[Rank(B, k)] = t[k]
  BY <1>m, AmongIs
<1>4. /\ C \in SUBSET (1 .. m + n)
      /\ c \in Seq(S) /\ Len(c) = Cardinality(C)
      /\ \A k \in C : c[Rank(C, k)] = st[k]
  BY <1>1, AmongIs
<1>5. C = A \cup After(m, B)
  <2>1. DOMAIN s = 1 .. m /\ DOMAIN t = 1 .. n /\ DOMAIN st = 1 .. m + n
    BY <1>1, <1>m
  <2>2. \A k \in 1 .. m : k \in C <=> k \in A
    BY <1>1, <2>1 DEF Places
  <2>3. \A j \in 1 .. n : m + j \in C <=> j \in B
    BY <1>1, <2>1 DEF Places
  <2>4. \A k \in 1 .. m + n : k \in 1 .. m \/ \E j \in 1 .. n : k = m + j
    <3> TAKE k \in 1 .. m + n
    <3>1. k > m => k - m \in 1 .. n /\ k = m + (k - m)
      BY <1>1
    <3> QED
      BY <1>1, <3>1
  <2>5. A \subseteq 1 .. m /\ B \subseteq 1 .. n /\ C \subseteq 1 .. m + n
    BY <1>2, <1>3, <1>4
  <2> HIDE DEF A, B, C
  <2> QED
    BY <1>1, <2>2, <2>3, <2>4, <2>5, ZenonT(40) DEF After
<1> HIDE DEF A, B, C, a, b, c
<1>6. \A k \in A : Rank(C, k) = Rank(A, k)
  <2> TAKE k \in A
  <2>1. \A j \in B : ~(m + j <= k)
    BY <1>1, <1>2, <1>3
  <2>2. UpTo(C, k) = UpTo(A, k)
    BY <1>5, <2>1 DEF UpTo, After
  <2> QED
    BY <2>2 DEF Rank
<1>7. \A k \in 0 .. n : Rank(C, m + k) = Len(a) + Rank(B, k)
  <2> TAKE k \in 0 .. n
  <2>1. Rank(C, m + k) = Cardinality(A) + Rank(B, k)
    <3>1. A \in SUBSET (1 .. m) /\ B \in SUBSET (Nat \ {0}) /\ IsFiniteSet(B) /\ k \in Nat
      <4>1. IsFiniteSet(B)
        BY <1>3, RankSteps
      <4> QED
        BY <1>2, <1>3, <4>1
    <3> QED
      BY <1>5, <3>1, RankOfSecond, ZenonT(40)
  <2> QED
    BY <1>2, <2>1
<1>8. Len(c) = Len(a) + Len(b)
  <2>1. Rank(C, m + n) = Cardinality(C) /\ Rank(B, n) = Cardinality(B)
    BY <1>1, <1>3, <1>4, RankSteps
  <2> QED
    BY <1>1, <1>3, <1>4, <1>7, <2>1
<1>9. \A r \in 1 .. Len(a) : c[r] = a[r]
  <2> TAKE r \in 1 .. Len(a)
  <2>1. PICK k \in A : Rank(A, k) = r
    BY <1>1, <1>2, Ranks
  <2>2. k \in 1 .. m /\ k \in C /\ c[Rank(C, k)] = st[k]
    BY <1>2, <1>4, <1>5, <2>1
  <2> QED
    BY <1>1, <1>2, <1>6, <2>1, <2>2
<1>10. \A r \in 1 .. Len(b) : c[Len(a) + r] = b[r]
  <2> TAKE r \in 1 .. Len(b)
  <2>1. PICK k \in B : Rank(B, k) = r
    BY <1>1, <1>3, Ranks
  <2>2. k \in 1 .. n /\ m + k \in C /\ c[Rank(C, m + k)] = st[m + k]
    BY <1>3, <1>4, <1>5, <2>1 DEF After
  <2> QED
    BY <1>1, <1>3, <1>7, <2>1, <2>2, SMTT(30)
<1>11. c = a \o b
  BY <1>2, <1>3, <1>4, <1>8, <1>9, <1>10, PutTogether
<1> QED
  BY <1>0, <1>11 DEF a, b, c

\* What is answered to pieces that come after others is answered after.
LEMMA AnsweringIs ==
  ASSUME NEW s \in Seq(1 .. MaxOutput)
  PROVE  /\ Answering(s) \in Seq(Replies)
         /\ Len(Answering(s)) = Len(Among(s, Queries))
         /\ \A k \in 1 .. Len(Among(s, Queries)) : Answering(s)[k] = Answer(Among(s, Queries)[k])
<1> DEFINE asked == Among(s, Queries)
<1>1. asked \in Seq(1 .. MaxOutput) /\ \A k \in 1 .. Len(asked) : asked[k] \in Queries
  BY AmongIs
<1>2. Answering(s) = [k \in DOMAIN asked |-> Answer(asked[k])]
  BY DEF Answering
<1> HIDE DEF asked
<1>3. DOMAIN asked = 1 .. Len(asked) /\ Len(asked) \in Nat
  BY <1>1
<1>4. \A k \in 1 .. Len(asked) : Answer(asked[k]) \in Replies
  BY <1>1 DEF Replies
<1>5. /\ Answering(s) \in Seq(Replies)
      /\ Len(Answering(s)) = Len(asked)
      /\ \A k \in 1 .. Len(asked) : Answering(s)[k] = Answer(asked[k])
  BY <1>2, <1>3, <1>4
<1> QED
  BY <1>5 DEF asked

LEMMA AnsweringConcat ==
  ASSUME NEW s \in Seq(1 .. MaxOutput), NEW t \in Seq(1 .. MaxOutput)
  PROVE  Answering(s \o t) = Answering(s) \o Answering(t)
<1>0. PICK st : st = s \o t
  OBVIOUS
<1> DEFINE a == Among(s, Queries)
           b == Among(t, Queries)
           c == Among(st, Queries)
<1>1. st \in Seq(1 .. MaxOutput) /\ c = a \o b
  BY <1>0, AmongConcat
<1>2. a \in Seq(1 .. MaxOutput) /\ b \in Seq(1 .. MaxOutput)
  BY AmongIs
<1>3. /\ Len(c) = Len(a) + Len(b)
      /\ \A k \in 1 .. Len(a) : c[k] = a[k]
      /\ \A k \in 1 .. Len(b) : c[Len(a) + k] = b[k]
  BY <1>1, <1>2, ConcatElements
<1>4. /\ Answering(s) \in Seq(Replies)
      /\ Len(Answering(s)) = Len(a)
      /\ \A k \in 1 .. Len(a) : Answering(s)[k] = Answer(a[k])
  BY AnsweringIs
<1>5. /\ Answering(t) \in Seq(Replies)
      /\ Len(Answering(t)) = Len(b)
      /\ \A k \in 1 .. Len(b) : Answering(t)[k] = Answer(b[k])
  BY AnsweringIs
<1>6. /\ Answering(st) \in Seq(Replies)
      /\ Len(Answering(st)) = Len(c)
      /\ \A k \in 1 .. Len(c) : Answering(st)[k] = Answer(c[k])
  BY <1>1, AnsweringIs
<1>7. Len(a) \in Nat /\ Len(b) \in Nat
  BY <1>2
<1> DEFINE x == Answering(s)
           y == Answering(t)
           z == Answering(st)
<1> HIDE DEF a, b, c
<1>8. \A k \in 1 .. Len(a) : k \in 1 .. Len(c) /\ Answering(st)[k] = Answering(s)[k]
  BY <1>3, <1>4, <1>6, <1>7
<1>9. \A k \in 1 .. Len(b) : Len(a) + k \in 1 .. Len(c) /\ Answering(st)[Len(a) + k] = Answering(t)[k]
  BY <1>3, <1>5, <1>6, <1>7
<1>10. /\ x \in Seq(Replies) /\ y \in Seq(Replies)
       /\ z \in Seq(Replies)
       /\ Len(x) = Len(a) /\ Len(y) = Len(b) /\ Len(z) = Len(x) + Len(y)
       /\ \A k \in 1 .. Len(x) : z[k] = x[k]
       /\ \A k \in 1 .. Len(y) : z[Len(x) + k] = y[k]
  BY <1>3, <1>4, <1>5, <1>6, <1>8, <1>9
<1> HIDE DEF x, y, z
<1>11. z = x \o y
  BY <1>10, PutTogether
<1> QED
  BY <1>0, <1>11 DEF x, y, z

------------------------------------------------------------------------------
(* Every variable stays in its domain                                      *)

LEMMA InitType == Init => TypeOK
<1> SUFFICES ASSUME Init PROVE TypeOK
  OBVIOUS
<1>1. PeerTypeOK
  BY SizesAssumption, BoundsAssumption DEF Init, OpenedAt, PeerTypeOK, Codes, NoCode
<1>2. ReadTypeOK
  BY DEF Init, ReadTypeOK, Codes, NoCode
<1>3. WriteTypeOK
  <2>1. size \in Sizes
    BY SizesAssumption DEF Init, OpenedAt
  <2>2. commands \in Seq(Commands)
    BY DEF Init
  <2> QED
    BY <2>1, <2>2, Zenon DEF Init, WriteTypeOK
<1>4. RelayTypeOK
  BY SizesAssumption, BoundsAssumption DEF Init, RelayTypeOK
<1>5. TabTypeOK
  BY SizesAssumption DEF Init, TabTypeOK
<1> QED
  BY <1>1, <1>2, <1>3, <1>4, <1>5 DEF TypeOK

LEMMA PeerType ==
  ASSUME TypeOK,
         PeerWrites \/ PeerLost \/ Disconnected
           \/ \E with \in {"ok", "failed"}, early \in BOOLEAN : PeerExits(with, early)
  PROVE  TypeOK'
<1>1. wire \in Seq(Pieces \cup Signals) /\ sent \in 0 .. MaxOutput /\ MaxOutput \in Nat
  BY BoundsAssumption DEF TypeOK, ReadTypeOK, PeerTypeOK
<1>2. Signal("status") \in Signals /\ Signal("eof") \in Signals /\ Signal("gone") \in Signals
  BY DEF Signals
<1>3. UNCHANGED <<writeVars, relayVars, windowVars, wake, tabVars>>
  BY DEF PeerWrites, PeerLost, Disconnected, PeerExits
<1>4. WriteTypeOK' /\ RelayTypeOK' /\ TabTypeOK'
  <2>1. WriteTypeOK'
    BY <1>3 DEF TypeOK, WriteTypeOK, writeVars
  <2>2. RelayTypeOK'
    BY <1>3 DEF TypeOK, RelayTypeOK, relayVars, windowVars
  <2>3. TabTypeOK'
    BY <1>3 DEF TypeOK, TabTypeOK, tabVars
  <2> QED
    BY <2>1, <2>2, <2>3
<1>5. CASE PeerWrites
  <2>1. sent + 1 \in 1 .. MaxOutput /\ Piece(sent + 1) \in Pieces
    BY <1>1, <1>5 DEF PeerWrites, Pieces
  <2>2. wire' \in Seq(Pieces \cup Signals) /\ sent' \in 0 .. MaxOutput
    BY <1>1, <1>5, <2>1, AppendElements DEF PeerWrites
  <2>3. PeerTypeOK'
    BY <1>5, <2>2 DEF PeerWrites, TypeOK, PeerTypeOK
  <2>4. ReadTypeOK'
    BY <1>5, <2>2 DEF PeerWrites, TypeOK, ReadTypeOK
  <2> QED
    BY <1>4, <2>3, <2>4 DEF TypeOK
<1>6. CASE PeerLost
  <2>1. wire' \in Seq(Pieces \cup Signals)
    BY <1>1, <1>2, <1>6, AppendElements DEF PeerLost
  <2>2. PeerTypeOK'
    BY <1>6 DEF PeerLost, TypeOK, PeerTypeOK
  <2>3. ReadTypeOK'
    BY <1>6, <2>1 DEF PeerLost, TypeOK, ReadTypeOK
  <2> QED
    BY <1>4, <2>2, <2>3 DEF TypeOK
<1>7. CASE Disconnected
  <2>1. PeerTypeOK'
    BY <1>7 DEF Disconnected, TypeOK, PeerTypeOK, peerVars
  <2>2. ReadTypeOK'
    BY <1>7 DEF Disconnected, TypeOK, ReadTypeOK, readVars
  <2> QED
    BY <1>4, <2>1, <2>2 DEF TypeOK
<1>8. ASSUME NEW with \in {"ok", "failed"}, NEW early \in BOOLEAN, PeerExits(with, early)
      PROVE  TypeOK'
  <2>1. PICK last \in Seq(Pieces \cup Signals) : wire' = wire \o last
    <3>1. <<Signal("status"), Signal("eof")>> \in Seq(Pieces \cup Signals)
      BY <1>2
    <3>2. <<Signal("eof")>> \in Seq(Pieces \cup Signals)
      BY <1>2
    <3> QED
      BY <1>8, <3>1, <3>2, Zenon DEF PeerExits
  <2>2. wire' \in Seq(Pieces \cup Signals)
    BY <1>1, <2>1, ConcatElements
  <2>3. PeerTypeOK'
    BY <1>8 DEF PeerExits, TypeOK, PeerTypeOK, Codes
  <2>4. ReadTypeOK'
    BY <1>8, <2>2 DEF PeerExits, TypeOK, ReadTypeOK
  <2> QED
    BY <1>4, <2>3, <2>4 DEF TypeOK
<1> QED
  BY <1>5, <1>6, <1>7, <1>8

LEMMA ReaderType ==
  ASSUME TypeOK, SerialStops \/ Reads \/ Reports
  PROVE  TypeOK'
<1>1. /\ wire \in Seq(Pieces \cup Signals) /\ source \in Seq(Pieces \cup Endings)
      /\ code \in Codes /\ status \in Codes
  BY DEF TypeOK, PeerTypeOK, ReadTypeOK
<1>2. UNCHANGED <<peerVars, death, writeVars, relayVars, windowVars, wake, tabVars>>
  BY DEF SerialStops, Reads, Reports
<1>3. PeerTypeOK' /\ WriteTypeOK' /\ RelayTypeOK' /\ TabTypeOK'
  <2>1. PeerTypeOK'
    BY <1>2 DEF TypeOK, PeerTypeOK, peerVars
  <2>2. WriteTypeOK'
    BY <1>2 DEF TypeOK, WriteTypeOK, writeVars
  <2>3. RelayTypeOK'
    BY <1>2 DEF TypeOK, RelayTypeOK, relayVars, windowVars
  <2>4. TabTypeOK'
    BY <1>2 DEF TypeOK, TabTypeOK, tabVars
  <2> QED
    BY <2>1, <2>2, <2>3, <2>4
<1>4. CASE SerialStops
  <2>1. ReadTypeOK'
    BY <1>4 DEF SerialStops, TypeOK, ReadTypeOK
  <2> QED
    BY <1>3, <2>1 DEF TypeOK
<1>5. CASE Reads
  <2>1. wire' \in Seq(Pieces \cup Signals) /\ Head(wire) \in Pieces \cup Signals
    BY <1>1, <1>5, TailElements DEF Reads
  <2>2. Head(wire).type = "Output" => Head(wire) \in Pieces
    BY <2>1, Fields
  <2>3. Head(wire).type = "Output" => Append(source, Head(wire)) \in Seq(Pieces \cup Endings)
    BY <1>1, <2>2, AppendElements
  <2> DEFINE head == Head(wire)
             longer == Append(source, head)
  <2>4. Takes(head) /\ reader = "reading" /\ death' = death
    BY <1>5 DEF Reads
  <2> HIDE DEF head
  <2>5. (Head(wire) = head) /\ (head.type = "Output" => longer \in Seq(Pieces \cup Endings))
    BY <2>3 DEF head
  <2> HIDE DEF longer
  <2>6. /\ source' = source \/ (head.type = "Output" /\ source' = longer)
        /\ status' \in {status, code} /\ reader' \in {"reading", "reporting", "done"}
    BY <2>4 DEF Takes, Sends, longer
  <2>7. source' \in Seq(Pieces \cup Endings) /\ status' \in Codes
    BY <1>1, <2>5, <2>6
  <2>8. ReadTypeOK'
    BY <2>1, <2>4, <2>6, <2>7 DEF ReadTypeOK, TypeOK
  <2> QED
    BY <1>3, <2>8 DEF TypeOK
<1>6. CASE Reports
  <2>1. Ending \in Endings
    <3> DEFINE said == (death = "told")
    <3>1. said \in BOOLEAN
      OBVIOUS
    <3>2. \A with \in Codes, message \in BOOLEAN : Closed(with, message) \in Endings
      BY DEF Endings
    <3>3. NoCode \in Codes
      BY DEF Codes
    <3>4. Ending \in {Closed(code, FALSE), Closed(status, said), Closed(NoCode, TRUE)}
      BY Zenon DEF Ending
    <3> HIDE DEF said
    <3> QED
      BY <1>1, <3>1, <3>2, <3>3, <3>4
  <2>2. Append(source, Ending) \in Seq(Pieces \cup Endings)
    BY <1>1, <2>1, AppendElements
  <2>3. source' \in Seq(Pieces \cup Endings)
    BY <1>1, <1>6, <2>2 DEF Reports
  <2>4. ReadTypeOK'
    BY <1>6, <2>3 DEF Reports, TypeOK, ReadTypeOK
  <2> QED
    BY <1>3, <2>4 DEF TypeOK
<1> QED
  BY <1>4, <1>5, <1>6

LEMMA WriterType ==
  ASSUME TypeOK, Writes \/ Dropped
  PROVE  TypeOK'
<1>1. /\ wire \in Seq(Pieces \cup Signals) /\ commands \in Seq(Commands)
      /\ got \in Seq(Replies)
      /\ peerSize \in Sizes
  BY DEF TypeOK, PeerTypeOK, ReadTypeOK, WriteTypeOK
<1>2. Signal("eof") \in Signals /\ Signal("gone") \in Signals
  BY DEF Signals
<1>3. UNCHANGED <<size, told, relayVars, windowVars, wake, tabVars>>
  BY DEF Writes, Dropped
<1>4. RelayTypeOK' /\ TabTypeOK'
  <2>1. RelayTypeOK'
    BY <1>3 DEF TypeOK, RelayTypeOK, relayVars, windowVars
  <2>2. TabTypeOK'
    BY <1>3 DEF TypeOK, TabTypeOK, tabVars
  <2> QED
    BY <2>1, <2>2
<1>5. CASE Writes
  <2>1. Tail(commands) \in Seq(Commands) /\ Head(commands) \in Commands
    BY <1>1, <1>5, TailElements DEF Writes
  <2>2. /\ Head(commands).type = "Data" => Head(commands).bytes \in Replies
        /\ Head(commands).type = "Resize" => Head(commands).size \in Sizes
    BY <2>1, Fields
  <2>3. commands' \in Seq(Commands)
    BY <1>5, <2>1 DEF Writes
  <2>4. wire' \in Seq(Pieces \cup Signals)
    <3>1. Append(wire, Signal("eof")) \in Seq(Pieces \cup Signals)
      BY <1>1, <1>2, AppendElements
    <3>2. wire' = wire \/ wire' = Append(wire, Signal("eof"))
      BY <1>5 DEF Writes
    <3> QED
      BY <1>1, <3>1, <3>2
  <2>5. got' \in Seq(Replies)
    <3>1. Head(commands).type = "Data" =>
            Append(got, Head(commands).bytes) \in Seq(Replies)
      BY <1>1, <2>2, AppendElements
    <3>2. got' = got \/ (Head(commands).type = "Data" /\ got' = Append(got, Head(commands).bytes))
      BY <1>5 DEF Writes
    <3> QED
      BY <1>1, <3>1, <3>2
  <2>6. peerSize' \in Sizes
    BY <1>1, <1>5, <2>2 DEF Writes
  <2>7. /\ peer' \in {peer, "exited"} /\ writer' \in {writer, "done"}
        /\ UNCHANGED <<kind, sent, code, reader, status, source, death>>
    BY <1>5 DEF Writes
  <2>8. PeerTypeOK'
    BY <2>5, <2>6, <2>7 DEF TypeOK, PeerTypeOK
  <2>9. ReadTypeOK'
    BY <2>4, <2>7 DEF TypeOK, ReadTypeOK
  <2>10. WriteTypeOK'
    BY <1>3, <2>3, <2>7 DEF TypeOK, WriteTypeOK
  <2> QED
    BY <1>4, <2>8, <2>9, <2>10 DEF TypeOK
<1>6. CASE Dropped
  <2>1. wire' \in Seq(Pieces \cup Signals)
    BY <1>1, <1>2, <1>6, AppendElements DEF Dropped
  <2>2. PeerTypeOK'
    BY <1>6 DEF Dropped, TypeOK, PeerTypeOK
  <2>3. ReadTypeOK'
    BY <1>6, <2>1 DEF Dropped, TypeOK, ReadTypeOK
  <2>4. WriteTypeOK'
    BY <1>6 DEF Dropped, TypeOK, WriteTypeOK
  <2> QED
    BY <1>4, <2>2, <2>3, <2>4 DEF TypeOK
<1> QED
  BY <1>5, <1>6

LEMMA RelayType ==
  ASSUME TypeOK, Relays \/ RelayEnds
  PROVE  TypeOK'
<1>1. source \in Seq(Pieces \cup Endings) /\ queue \in Seq(Pieces \cup Endings)
  BY DEF TypeOK, ReadTypeOK, RelayTypeOK
<1>2. UNCHANGED <<peerVars, wire, reader, status, death, writeVars, windowVars, tabVars>>
  BY DEF Relays, RelayEnds, readVars
<1>3. PeerTypeOK' /\ WriteTypeOK' /\ TabTypeOK'
  <2>1. PeerTypeOK'
    BY <1>2 DEF TypeOK, PeerTypeOK, peerVars
  <2>2. WriteTypeOK'
    BY <1>2 DEF TypeOK, WriteTypeOK, writeVars
  <2>3. TabTypeOK'
    BY <1>2 DEF TypeOK, TabTypeOK, tabVars
  <2> QED
    BY <2>1, <2>2, <2>3
<1>4. CASE Relays
  <2>1. source # <<>> => /\ Append(queue, Head(source)) \in Seq(Pieces \cup Endings)
                         /\ Tail(source) \in Seq(Pieces \cup Endings)
    BY <1>1, TailElements, AppendElements
  <2>2. source' \in Seq(Pieces \cup Endings)
    <3>1. \/ source' = source
          \/ source # <<>> /\ source' = Tail(source)
          \/ source' = <<>>
      BY <1>4 DEF Relays, Delivers
    <3>2. <<>> \in Seq(Pieces \cup Endings)
      OBVIOUS
    <3> QED
      BY <1>1, <2>1, <3>1, <3>2, Zenon
  <2>3. queue' \in Seq(Pieces \cup Endings)
    BY <1>1, <1>4, <2>1 DEF Relays, Delivers
  <2>4. relay' \in {"waiting", "waking", "waking last", "done"}
    BY <1>4 DEF Relays, Delivers
  <2>5. wake' \in BOOLEAN
    BY <1>4 DEF Relays, Delivers, TypeOK, RelayTypeOK
  <2>6. ReadTypeOK'
    BY <1>2, <2>2 DEF TypeOK, ReadTypeOK
  <2>7. RelayTypeOK'
    BY <1>2, <2>3, <2>4, <2>5 DEF TypeOK, RelayTypeOK, windowVars
  <2> QED
    BY <1>3, <2>6, <2>7 DEF TypeOK
<1>5. CASE RelayEnds
  <2>1. ReadTypeOK'
    BY <1>5 DEF RelayEnds, TypeOK, ReadTypeOK, readVars
  <2>2. RelayTypeOK'
    BY <1>5 DEF RelayEnds, TypeOK, RelayTypeOK, windowVars
  <2> QED
    BY <1>3, <2>1, <2>2 DEF TypeOK
<1> QED
  BY <1>4, <1>5

\* A pump's answers, and the commands they are written with.
LEMMA DataIs ==
  ASSUME TypeOK
  PROVE  LET data == [k \in DOMAIN Answers |-> Data(Answers[k])]
         IN  /\ Answers \in Seq(Replies) /\ Answers = Answering(Output)
             /\ data \in Seq(DataCommands) /\ data \in Seq(Commands) /\ Len(data) = Len(Answers)
             /\ \A k \in 1 .. Len(Answers) : data[k] = Data(Answers[k])
<1>1. Answers \in Seq(Replies) /\ Answers = Answering(Output)
  BY OutputType, AnsweringIs DEF Answers
<1>2. \A b \in Replies : Data(b) \in DataCommands
  BY DEF DataCommands
<1>3. \A k \in 1 .. Len(Answers) : Data(Answers[k]) \in DataCommands
  BY <1>1, <1>2
<1>4. DOMAIN Answers = 1 .. Len(Answers) /\ Len(Answers) \in Nat
  BY <1>1
<1>5. DataCommands \subseteq Commands
  BY DEF Commands
<1> QED
  BY <1>1, <1>3, <1>4, <1>5

LEMMA PaintType ==
  ASSUME TypeOK, NEW shown \in BOOLEAN, Paint(shown)
  PROVE  TypeOK'
<1> DEFINE data == [k \in DOMAIN Answers |-> Data(Answers[k])]
           resize == <<Resize(pane)>>
<1>1. /\ queue \in Seq(Pieces \cup Endings) /\ screen \in Seq(1 .. MaxOutput)
      /\ commands \in Seq(Commands) /\ got \in Seq(Replies)
      /\ pane \in Sizes /\ size \in Sizes /\ peerSize \in Sizes /\ told \in BOOLEAN
  BY DEF TypeOK, PeerTypeOK, WriteTypeOK, RelayTypeOK, TabTypeOK
<1>2. Output \in Seq(1 .. MaxOutput) /\ Exit \in Endings \cup {NoExit} /\ Pumped \in 0 .. Len(queue)
  BY OutputType, PumpedIs
<1>3. Answers \in Seq(Replies) /\ data \in Seq(Commands)
  BY DataIs
<1>5. resize \in Seq(Commands) /\ <<>> \in Seq(Commands)
  BY <1>1 DEF Commands
<1> HIDE DEF data, resize
<1>6. screen' \in Seq(1 .. MaxOutput) /\ queue' \in Seq(Pieces \cup Endings)
  <2>1. screen \o Output \in Seq(1 .. MaxOutput)
    BY <1>1, <1>2, ConcatElements
  <2>2. SubSeq(queue, Pumped + 1, Len(queue)) \in Seq(Pieces \cup Endings)
    BY <1>1, <1>2, RestElements
  <2> QED
    BY <2>1, <2>2 DEF Paint
<1>7. got' \in Seq(Replies)
  <2>1. got \o Answers \in Seq(Replies)
    BY <1>1, <1>3, ConcatElements
  <2>2. got' \in {got, got \o Answers}
    BY DEF Paint
  <2> QED
    BY <1>1, <2>1, <2>2
<1>8. size' \in {size, pane} /\ peerSize' \in {peerSize, pane} /\ told' \in BOOLEAN
  <2>1. size' \in {size, pane} /\ peerSize' \in {peerSize, pane}
    BY DEF Paint, Resized
  <2>2. told' \in BOOLEAN
    BY <1>1 DEF Paint, Resized
  <2> QED
    BY <2>1, <2>2
<1>9. commands' \in Seq(Commands)
  <2>1. commands' = commands \/ commands' = commands \o data \o resize \/ commands' = commands \o data \o <<>>
    BY DEF Paint, data, resize
  <2>2. commands \o data \in Seq(Commands)
    BY <1>1, <1>3, ConcatElements
  <2>3. (commands \o data) \o resize \in Seq(Commands) /\ (commands \o data) \o <<>> \in Seq(Commands)
    BY <1>5, <2>2, ConcatElements
  <2> QED
    BY <1>1, <2>1, <2>3
<1>10. PeerTypeOK'
  BY <1>1, <1>7, <1>8 DEF Paint, TypeOK, PeerTypeOK
<1>11. ReadTypeOK'
  BY DEF Paint, TypeOK, ReadTypeOK, readVars
<1>12. WriteTypeOK'
  BY <1>1, <1>8, <1>9 DEF Paint, TypeOK, WriteTypeOK
<1>13. RelayTypeOK'
  <2>1. wake' \in BOOLEAN /\ relay' = relay /\ pane' = pane /\ resizes' = resizes
    BY DEF Paint
  <2> QED
    BY <1>6, <2>1 DEF TypeOK, RelayTypeOK
<1>14. TabTypeOK'
  <2>1. exit' \in Endings \cup {NoExit} /\ grid' \in {grid, pane} /\ tab' = tab
    BY <1>2 DEF Paint
  <2> QED
    BY <1>1, <1>6, <2>1 DEF TypeOK, TabTypeOK
<1> QED
  BY <1>10, <1>11, <1>12, <1>13, <1>14 DEF TypeOK

LEMMA WindowType ==
  ASSUME TypeOK, CloseTab \/ \E to \in Sizes : ResizeWindow(to)
  PROVE  TypeOK'
<1>1. ASSUME NEW to \in Sizes, ResizeWindow(to)
      PROVE  TypeOK'
  <2>1. PeerTypeOK' /\ ReadTypeOK'
    BY <1>1 DEF ResizeWindow, TypeOK, PeerTypeOK, ReadTypeOK, peerVars, readVars
  <2>2. WriteTypeOK' /\ TabTypeOK'
    <3>1. WriteTypeOK'
      BY <1>1 DEF ResizeWindow, TypeOK, WriteTypeOK, writeVars
    <3>2. TabTypeOK'
      BY <1>1 DEF ResizeWindow, TypeOK, TabTypeOK, tabVars
    <3> QED
      BY <3>1, <3>2
  <2>3. RelayTypeOK'
    <3>1. resizes' \in 0 .. MaxResizes /\ pane' \in Sizes /\ wake' \in BOOLEAN
      <4>1. resizes \in 0 .. MaxResizes
        BY DEF TypeOK, RelayTypeOK
      <4> QED
        BY <1>1, <4>1, BoundsAssumption DEF ResizeWindow
    <3> QED
      BY <1>1, <3>1 DEF ResizeWindow, TypeOK, RelayTypeOK, relayVars
  <2> QED
    BY <2>1, <2>2, <2>3 DEF TypeOK
<1>2. CASE CloseTab
  <2>1. wire \in Seq(Pieces \cup Signals) /\ commands \in Seq(Commands)
    BY DEF TypeOK, ReadTypeOK, WriteTypeOK
  <2>2. Append(wire, Signal("eof")) \in Seq(Pieces \cup Signals)
    BY <2>1, AppendElements DEF Signals
  <2>3. Append(commands, Shutdown) \in Seq(Commands)
    BY <2>1, AppendElements DEF Commands
  <2>4. wire' \in Seq(Pieces \cup Signals) /\ commands' \in Seq(Commands)
    BY <1>2, <2>1, <2>2, <2>3 DEF CloseTab
  <2>5. PeerTypeOK'
    BY <1>2, SizesAssumption DEF CloseTab, TypeOK, PeerTypeOK, Codes
  <2>6. ReadTypeOK'
    BY <1>2, <2>4 DEF CloseTab, TypeOK, ReadTypeOK
  <2>7. WriteTypeOK'
    <3>1. size' \in Sizes /\ told' \in BOOLEAN /\ writer' = writer
      BY <1>2, SizesAssumption DEF CloseTab
    <3> QED
      BY <2>4, <3>1 DEF TypeOK, WriteTypeOK
  <2>8. RelayTypeOK'
    <3>1. queue' \in Seq(Pieces \cup Endings)
      BY <1>2 DEF CloseTab
    <3>2. pane' \in Sizes /\ wake' \in BOOLEAN /\ relay' = relay
      BY <1>2, SizesAssumption DEF CloseTab
    <3>3. resizes' \in 0 .. MaxResizes
      BY <1>2, BoundsAssumption DEF CloseTab
    <3> QED
      BY <3>1, <3>2, <3>3 DEF TypeOK, RelayTypeOK
  <2>9. TabTypeOK'
    BY <1>2, SizesAssumption DEF CloseTab, TabTypeOK
  <2> QED
    BY <2>5, <2>6, <2>7, <2>8, <2>9 DEF TypeOK
<1> QED
  BY <1>1, <1>2

LEMMA NextType == TypeOK /\ [Next]_vars => TypeOK'
<1> SUFFICES ASSUME TypeOK, [Next]_vars PROVE TypeOK'
  OBVIOUS
<1>1. CASE Next
  BY <1>1, PeerType, ReaderType, WriterType, RelayType, PaintType, WindowType DEF Next
<1>2. CASE UNCHANGED vars
  <2>1. PeerTypeOK' /\ ReadTypeOK'
    BY <1>2 DEF TypeOK, PeerTypeOK, ReadTypeOK, vars, peerVars, readVars
  <2>2. WriteTypeOK'
    BY <1>2 DEF TypeOK, WriteTypeOK, vars, writeVars
  <2>3. RelayTypeOK'
    BY <1>2 DEF TypeOK, RelayTypeOK, vars, relayVars, windowVars
  <2>4. TabTypeOK'
    BY <1>2 DEF TypeOK, TabTypeOK, vars, tabVars
  <2> QED
    BY <2>1, <2>2, <2>3, <2>4 DEF TypeOK
<1> QED
  BY <1>1, <1>2

------------------------------------------------------------------------------
(* The size on its way                                                     *)

\* A command carried out is one less to come.
LEMMA WillHaveTail ==
  ASSUME NEW list \in Seq(Commands), list # <<>>, NEW has, NEW to, WillHave(list, has, to)
  PROVE  /\ Head(list).type = "Resize" => WillHave(Tail(list), Head(list).size, to)
         /\ Head(list).type # "Resize" => WillHave(Tail(list), has, to)
<1> DEFINE rest == Tail(list)
           R == Resizes(list)
           T == Resizes(rest)
<1>1. /\ rest \in Seq(Commands) /\ Len(rest) = Len(list) - 1 /\ Len(list) > 0
      /\ \A n \in 1 .. Len(list) - 1 : rest[n] = list[n + 1]
      /\ Head(list) = list[1] /\ Len(list) \in Nat
  BY TailElements
<1>2. DOMAIN rest = 1 .. Len(list) - 1 /\ DOMAIN list = 1 .. Len(list)
  BY <1>1
<1> HIDE DEF rest
<1>3. \A k \in T : k \in 1 .. Len(list) - 1 /\ k + 1 \in R /\ rest[k] = list[k + 1]
  BY <1>1, <1>2 DEF Resizes
<1>4. \A k \in R : k \in 1 .. Len(list) /\ (k = 1 \/ k - 1 \in T)
  BY <1>1, <1>2 DEF Resizes
<1>5. 1 \in R <=> Head(list).type = "Resize"
  BY <1>1, <1>2 DEF Resizes
<1>6. /\ \A k \in R : (\A j \in R : j <= k) => list[k].size = to
      /\ R = {} => has = to
  BY DEF WillHave
<1> HIDE DEF R, T
<1>7. ASSUME NEW k \in T, \A j \in T : j <= k
      PROVE  rest[k].size = to
  <2>1. \A j \in R : j <= k + 1
    BY <1>3, <1>4, <1>7
  <2> QED
    BY <1>3, <1>6, <2>1
<1>8. ASSUME T = {}
      PROVE  IF 1 \in R THEN Head(list).size = to ELSE has = to
  <2>1. \A j \in R : j = 1
    BY <1>4, <1>8
  <2>2. CASE 1 \in R
    BY <1>1, <1>6, <2>1, <2>2
  <2>3. CASE 1 \notin R
    BY <1>6, <2>1, <2>3
  <2> QED
    BY <2>2, <2>3
<1> QED
  BY <1>5, <1>7, <1>8 DEF WillHave, T, rest

LEMMA WillHaveData ==
  ASSUME NEW list \in Seq(Commands), NEW data \in Seq(DataCommands), NEW has, NEW to,
         WillHave(list, has, to)
  PROVE  list \o data \in Seq(Commands) /\ WillHave(list \o data, has, to)
<1> DEFINE both == list \o data
<1>0. data \in Seq(Commands)
  BY DEF Commands
<1>1. /\ both \in Seq(Commands) /\ Len(both) = Len(list) + Len(data)
      /\ \A n \in 1 .. Len(list) : both[n] = list[n]
      /\ \A n \in 1 .. Len(data) : both[Len(list) + n] = data[n]
  BY <1>0, ConcatElements
<1>2. Len(list) \in Nat /\ Len(data) \in Nat
  OBVIOUS
<1>3. DOMAIN both = 1 .. Len(list) + Len(data) /\ DOMAIN list = 1 .. Len(list)
  BY <1>1, <1>2
<1>4. \A n \in 1 .. Len(data) : data[n].type = "Data"
  BY Fields
<1> HIDE DEF both
<1>5. \A k \in 1 .. Len(list) + Len(data) : k > Len(list) => both[k].type = "Data"
  <2> TAKE k \in 1 .. Len(list) + Len(data)
  <2> HAVE k > Len(list)
  <2> DEFINE r == k - Len(list)
  <2>1. r \in 1 .. Len(data) /\ k = Len(list) + r
    BY <1>2
  <2> HIDE DEF r
  <2> QED
    BY <1>1, <1>4, <2>1
<1>6. Resizes(both) = Resizes(list)
  BY <1>1, <1>2, <1>3, <1>5 DEF Resizes
<1>7. \A k \in Resizes(list) : both[k] = list[k]
  BY <1>1, <1>3 DEF Resizes
<1> QED
  BY <1>1, <1>6, <1>7 DEF WillHave, both

LEMMA WillHaveResize ==
  ASSUME NEW list \in Seq(Commands), NEW has, NEW to \in Sizes
  PROVE  WillHave(list \o <<Resize(to)>>, has, to)
<1> DEFINE both == list \o <<Resize(to)>>
<1>1. /\ Len(both) = Len(list) + 1 /\ both[Len(list) + 1] = Resize(to)
      /\ DOMAIN both = 1 .. Len(list) + 1 /\ Len(list) \in Nat
  OBVIOUS
<1> HIDE DEF both
<1>2. Len(list) + 1 \in Resizes(both)
  BY <1>1, Fields DEF Resizes
<1>3. \A k \in Resizes(both) : (\A j \in Resizes(both) : j <= k) => k = Len(list) + 1
  <2>1. \A k \in Resizes(both) : k \in 1 .. Len(list) + 1
    BY <1>1 DEF Resizes
  <2> QED
    BY <1>1, <1>2, <2>1
<1>4. Resize(to).size = to
  BY Fields
<1> QED
  BY <1>1, <1>2, <1>3, <1>4 DEF WillHave, both

\* The actions that leave the commands, and what they are about, as they were.
LEMMA SizeStutters ==
  ASSUME WriterFollows, SizeIsOnItsWay,
         UNCHANGED <<kind, peer, writer, commands, peerSize, size, told, grid>>
  PROVE  WriterFollows' /\ SizeIsOnItsWay'
BY DEF WriterFollows, SizeIsOnItsWay, WillHave, Resizes

LEMMA SizeInit ==
  ASSUME Init
  PROVE  WriterFollows /\ SizeIsOnItsWay
BY DEF Init, OpenedAt, WriterFollows, SizeIsOnItsWay, WillHave, Resizes

LEMMA WritesKeepSize ==
  ASSUME TypeOK, WriterFollows, SizeIsOnItsWay, Writes
  PROVE  WriterFollows' /\ SizeIsOnItsWay'
<1> DEFINE head == Head(commands)
<1>1. /\ commands \in Seq(Commands) /\ commands # <<>> /\ kind = "ssh" /\ kind' = kind
      /\ size' = size /\ told' = told /\ grid' = grid
  BY DEF TypeOK, WriteTypeOK, Writes, tabVars
<1>2. head = commands[1] /\ 1 \in DOMAIN commands /\ head \in Commands
  BY <1>1, TailElements
<1>3. head.type # "Shutdown"
  BY <1>2 DEF WriterFollows
<1>4. CASE peer # "up"
  BY <1>1, <1>4 DEF Writes, WriterFollows, SizeIsOnItsWay
<1>5. CASE peer = "up"
  <2>1. /\ commands' = Tail(commands) /\ writer' = writer /\ peer' = peer
        /\ \/ head.type = "Data" /\ peerSize' = peerSize
           \/ head.type = "Resize" /\ peerSize' = head.size
    BY <1>3, <1>5 DEF Writes
  <2>2. \A k \in DOMAIN Tail(commands) : Tail(commands)[k].type # "Shutdown"
    <3>1. /\ DOMAIN Tail(commands) = 1 .. Len(commands) - 1
          /\ \A k \in 1 .. Len(commands) - 1 : Tail(commands)[k] = commands[k + 1]
          /\ \A k \in 1 .. Len(commands) - 1 : k + 1 \in DOMAIN commands
      BY <1>1, TailElements
    <3> QED
      BY <3>1 DEF WriterFollows
  <2>3. WriterFollows'
    BY <1>1, <1>5, <2>1, <2>2 DEF WriterFollows
  <2>4. WillHave(commands, peerSize, size) /\ (told => size = grid)
    BY <1>1, <1>5 DEF SizeIsOnItsWay
  <2> DEFINE rest == Tail(commands)
  <2>5. WillHave(rest, peerSize', size)
    BY <1>1, <2>1, <2>4, WillHaveTail
  <2> HIDE DEF rest
  <2>6. WillHave(rest, peerSize', size')
    BY <1>1, <2>5
  <2>7. WillHave(commands', peerSize', size')
    BY <2>1, <2>6 DEF rest
  <2> QED
    BY <1>1, <2>1, <2>3, <2>4, <2>7 DEF SizeIsOnItsWay
<1> QED
  BY <1>4, <1>5

LEMMA PaintKeepsSize ==
  ASSUME TypeOK, WriterFollows, SizeIsOnItsWay, NEW shown \in BOOLEAN, Paint(shown)
  PROVE  WriterFollows' /\ SizeIsOnItsWay'
<1> DEFINE data == [k \in DOMAIN Answers |-> Data(Answers[k])]
           resize == <<Resize(pane)>>
           more == commands \o data
<1>1. /\ kind' = kind /\ peer' = peer /\ writer' = writer
      /\ grid' = IF shown THEN pane ELSE grid
  BY DEF Paint
<1>2. /\ commands \in Seq(Commands) /\ data \in Seq(DataCommands) /\ data \in Seq(Commands)
      /\ pane \in Sizes /\ kind \in {"pty", "ssh", "serial"} /\ writer \in {"running", "done"}
  BY DataIs DEF TypeOK, PeerTypeOK, WriteTypeOK, RelayTypeOK
<1>3. more \in Seq(Commands) /\ more \o resize \in Seq(Commands)
  <2>1. more \in Seq(Commands)
    BY <1>2, ConcatElements
  <2>2. resize \in Seq(Commands)
    BY <1>2 DEF Commands
  <2> HIDE DEF more, resize
  <2> QED
    BY <2>1, <2>2, ConcatElements
<1>4. \A k \in DOMAIN commands : commands[k].type # "Shutdown"
  BY DEF WriterFollows
<1>5. \A k \in DOMAIN more : more[k].type # "Shutdown"
  <2>1. /\ Len(more) = Len(commands) + Len(data)
        /\ \A n \in 1 .. Len(commands) : more[n] = commands[n]
        /\ \A n \in 1 .. Len(data) : more[Len(commands) + n] = data[n]
    BY <1>2, ConcatElements
  <2>2. \A n \in 1 .. Len(data) : data[n].type = "Data"
    BY <1>2, Fields
  <2>3. DOMAIN more = 1 .. Len(commands) + Len(data) /\ DOMAIN commands = 1 .. Len(commands)
    BY <1>2, <1>3, <2>1
  <2>4. Len(commands) \in Nat /\ Len(data) \in Nat
    BY <1>2
  <2> HIDE DEF more, data
  <2> TAKE k \in DOMAIN more
  <2>5. CASE k <= Len(commands)
    BY <1>4, <2>1, <2>3, <2>4, <2>5
  <2>6. CASE k > Len(commands)
    <3> DEFINE r == k - Len(commands)
    <3>1. r \in 1 .. Len(data) /\ k = Len(commands) + r
      BY <2>3, <2>4, <2>6
    <3> HIDE DEF r
    <3> QED
      BY <2>1, <2>2, <3>1
  <2> QED
    BY <2>3, <2>4, <2>5, <2>6
<1>6. \A k \in DOMAIN (more \o resize) : (more \o resize)[k].type # "Shutdown"
  <2>1. /\ Len(more \o resize) = Len(more) + 1 /\ (more \o resize)[Len(more) + 1] = Resize(pane)
        /\ \A n \in 1 .. Len(more) : (more \o resize)[n] = more[n]
        /\ DOMAIN more = 1 .. Len(more) /\ Len(more) \in Nat
        /\ DOMAIN (more \o resize) = 1 .. Len(more) + 1
    BY <1>3
  <2>2. Resize(pane).type # "Shutdown"
    BY Fields
  <2> HIDE DEF more, resize
  <2> QED
    BY <1>5, <2>1, <2>2
<1>7. CASE kind = "ssh" /\ writer = "running"
  <2> DEFINE tells == Asked(shown) /\ pane # size
  <2>1. /\ commands' = IF tells THEN more \o resize ELSE more \o <<>>
        /\ size' = IF Asked(shown) THEN pane ELSE size
        /\ told' = (told \/ tells) /\ peerSize' = peerSize
    BY <1>7 DEF Paint, Resized
  <2>2. more \o <<>> = more
    BY <1>3
  <2>3. WriterFollows'
    BY <1>1, <1>5, <1>6, <1>7, <2>1, <2>2 DEF WriterFollows
  <2>4. ASSUME peer = "up"
        PROVE  WillHave(commands', peerSize', size') /\ (told' => size' = grid')
    <3>1. WillHave(commands, peerSize, size) /\ (told => size = grid)
      BY <1>7, <2>4 DEF SizeIsOnItsWay
    <3>2. WillHave(more, peerSize, size)
      BY <1>2, <3>1, WillHaveData
    <3>3. WillHave(more \o resize, peerSize, pane)
      <4> HIDE DEF more
      <4> QED
        BY <1>2, <1>3, WillHaveResize
    <3> HIDE DEF more, resize
    <3>4. CASE tells
      <4>1. commands' = more \o resize /\ size' = pane /\ peerSize' = peerSize /\ grid' = pane
        BY <1>1, <2>1, <3>4 DEF Asked
      <4> QED
        BY <3>3, <4>1
    <3>5. CASE ~tells
      <4>1. commands' = more /\ size' = size /\ peerSize' = peerSize /\ (told' => told)
        <5>1. size' = size /\ peerSize' = peerSize /\ (told' => told)
          BY <2>1, <3>5 DEF Asked
        <5>2. commands' = more
          BY <2>1, <2>2, <3>5
        <5> QED
          BY <5>1, <5>2
      <4>2. told => size = grid'
        BY <1>1, <3>1, <3>5 DEF Asked
      <4> QED
        BY <3>2, <4>1, <4>2
    <3> QED
      BY <3>4, <3>5
  <2> QED
    BY <1>1, <1>7, <2>3, <2>4 DEF SizeIsOnItsWay
<1>8. CASE kind = "ssh" /\ writer = "done"
  <2>1. peer # "up" /\ commands' = commands
    BY <1>8 DEF Paint, WriterFollows
  <2> QED
    BY <1>1, <1>4, <1>8, <2>1 DEF WriterFollows, SizeIsOnItsWay
<1>9. CASE kind # "ssh"
  <2>1. commands' = commands /\ commands = <<>>
    BY <1>9 DEF Paint, WriterFollows
  <2>2. WriterFollows'
    BY <1>1, <1>4, <1>9, <2>1 DEF WriterFollows
  <2>3. ASSUME peer = "up", kind = "pty"
        PROVE  peerSize' = size' /\ size' = grid'
    <3>1. peerSize = size /\ size = grid
      BY <1>9, <2>1, <2>3 DEF SizeIsOnItsWay, WillHave, Resizes
    <3> QED
      BY <1>1, <2>3, <3>1 DEF Paint, Resized, Asked
  <2>4. Resizes(<<>>) = {}
    BY DEF Resizes
  <2> QED
    BY <1>1, <1>2, <1>9, <2>1, <2>2, <2>3, <2>4 DEF SizeIsOnItsWay, WillHave
<1> QED
  BY <1>2, <1>7, <1>8, <1>9

LEMMA SizeStep ==
  ASSUME TypeOK, [Next]_vars, tab = "open", tab' = "open", WriterFollows, SizeIsOnItsWay
  PROVE  WriterFollows' /\ SizeIsOnItsWay'
<1>1. CASE PeerWrites \/ Disconnected \/ SerialStops \/ Reads \/ Reports \/ Relays \/ RelayEnds
           \/ \E to \in Sizes : ResizeWindow(to)
  BY <1>1, SizeStutters
     DEF PeerWrites, Disconnected, SerialStops, Reads, Reports, Relays, RelayEnds, ResizeWindow,
         peerVars, writeVars, tabVars
<1>2. CASE PeerLost \/ \E with \in {"ok", "failed"}, early \in BOOLEAN : PeerExits(with, early)
  <2>1. peer' # "up" /\ UNCHANGED <<kind, writer, commands>>
    BY <1>2 DEF PeerLost, PeerExits, writeVars
  <2> QED
    BY <2>1 DEF WriterFollows, SizeIsOnItsWay
<1>3. CASE Dropped \/ CloseTab
  BY <1>3 DEF Dropped, CloseTab
<1>4. CASE UNCHANGED vars
  BY <1>4, SizeStutters DEF vars, peerVars, writeVars, tabVars
<1> QED
  BY <1>1, <1>2, <1>3, <1>4, WritesKeepSize, PaintKeepsSize DEF Next

------------------------------------------------------------------------------
(* What is written                                                         *)

LEMMA PrefixIs ==
  ASSUME NEW S, NEW s \in Seq(S), NEW t \in Seq(S)
  PROVE  IsPrefix(s, t) <=> Len(s) <= Len(t) /\ \A k \in 1 .. Len(s) : s[k] = t[k]
BY DEF IsPrefix

LEMMA PrefixGrows ==
  ASSUME NEW S, NEW s \in Seq(S), NEW t \in Seq(S), NEW u \in Seq(S)
  PROVE  /\ IsPrefix(s, s)
         /\ IsPrefix(s, t) => IsPrefix(s, t \o u)
         /\ IsPrefix(s \o u, t) => IsPrefix(s, t)
<1> DEFINE tu == t \o u
           su == s \o u
<1>1. tu \in Seq(S) /\ Len(tu) = Len(t) + Len(u) /\ \A k \in 1 .. Len(t) : tu[k] = t[k]
  BY ConcatElements
<1>2. su \in Seq(S) /\ Len(su) = Len(s) + Len(u) /\ \A k \in 1 .. Len(s) : su[k] = s[k]
  BY ConcatElements
<1>3. Len(s) \in Nat /\ Len(t) \in Nat /\ Len(u) \in Nat
  OBVIOUS
<1>4. IsPrefix(s, s)
  BY <1>3, PrefixIs
<1> HIDE DEF tu, su
<1>5. IsPrefix(s, t) => IsPrefix(s, tu)
  <2> SUFFICES ASSUME IsPrefix(s, t) PROVE IsPrefix(s, tu)
    OBVIOUS
  <2>1. Len(s) <= Len(t) /\ \A k \in 1 .. Len(s) : s[k] = t[k]
    BY PrefixIs
  <2>2. Len(s) <= Len(tu) /\ \A k \in 1 .. Len(s) : s[k] = tu[k]
    BY <1>1, <1>3, <2>1
  <2> QED
    BY <1>1, <2>2, PrefixIs
<1>6. IsPrefix(su, t) => IsPrefix(s, t)
  <2> SUFFICES ASSUME IsPrefix(su, t) PROVE IsPrefix(s, t)
    OBVIOUS
  <2>1. Len(su) <= Len(t) /\ \A k \in 1 .. Len(su) : su[k] = t[k]
    BY <1>2, PrefixIs
  <2>2. Len(s) <= Len(t) /\ \A k \in 1 .. Len(s) : s[k] = t[k]
    BY <1>2, <1>3, <2>1
  <2> QED
    BY <2>2, PrefixIs
<1> QED
  BY <1>4, <1>5, <1>6 DEF tu, su

LEMMA BytesIs ==
  ASSUME NEW list \in Seq(Commands)
  PROVE  LET data == Among(list, DataCommands)
         IN  /\ Bytes(list) \in Seq(Replies) /\ Len(Bytes(list)) = Len(data)
             /\ \A k \in 1 .. Len(data) : Bytes(list)[k] = data[k].bytes
<1> DEFINE data == Among(list, DataCommands)
<1>1. data \in Seq(Commands) /\ \A k \in 1 .. Len(data) : data[k] \in DataCommands
  BY AmongIs
<1>2. \A k \in 1 .. Len(data) : data[k].bytes \in Replies
  BY <1>1, Fields
<1>3. Bytes(list) = [k \in DOMAIN data |-> data[k].bytes]
  BY DEF Bytes
<1> HIDE DEF data
<1>4. DOMAIN data = 1 .. Len(data) /\ Len(data) \in Nat
  BY <1>1
<1>5. /\ Bytes(list) \in Seq(Replies) /\ Len(Bytes(list)) = Len(data)
      /\ \A k \in 1 .. Len(data) : Bytes(list)[k] = data[k].bytes
  BY <1>2, <1>3, <1>4
<1> QED
  BY <1>5 DEF data

LEMMA BytesConcat ==
  ASSUME NEW s \in Seq(Commands), NEW t \in Seq(Commands)
  PROVE  Bytes(s \o t) = Bytes(s) \o Bytes(t)
<1>0. PICK st : st = s \o t
  OBVIOUS
<1> DEFINE a == Among(s, DataCommands)
           b == Among(t, DataCommands)
           c == Among(st, DataCommands)
           x == Bytes(s)
           y == Bytes(t)
           z == Bytes(st)
<1>1. st \in Seq(Commands) /\ c = a \o b
  BY <1>0, AmongConcat
<1>2. a \in Seq(Commands) /\ b \in Seq(Commands)
  BY AmongIs
<1>3. /\ Len(c) = Len(a) + Len(b)
      /\ \A k \in 1 .. Len(a) : c[k] = a[k]
      /\ \A k \in 1 .. Len(b) : c[Len(a) + k] = b[k]
  BY <1>1, <1>2, ConcatElements
<1>4. x \in Seq(Replies) /\ Len(x) = Len(a) /\ \A k \in 1 .. Len(a) : x[k] = a[k].bytes
  BY BytesIs
<1>5. y \in Seq(Replies) /\ Len(y) = Len(b) /\ \A k \in 1 .. Len(b) : y[k] = b[k].bytes
  BY BytesIs
<1>6. z \in Seq(Replies) /\ Len(z) = Len(c) /\ \A k \in 1 .. Len(c) : z[k] = c[k].bytes
  BY <1>1, BytesIs
<1>7. Len(a) \in Nat /\ Len(b) \in Nat
  BY <1>2
<1> HIDE DEF a, b, c, x, y, z
<1>8. \A k \in 1 .. Len(x) : k \in 1 .. Len(c) /\ z[k] = x[k]
  BY <1>3, <1>4, <1>6, <1>7
<1>9. \A k \in 1 .. Len(y) : z[Len(x) + k] = y[k]
  <2> TAKE k \in 1 .. Len(y)
  <2>1. Len(a) + k \in 1 .. Len(c) /\ k \in 1 .. Len(b)
    BY <1>3, <1>5, <1>7
  <2>2. z[Len(a) + k] = c[Len(a) + k].bytes /\ c[Len(a) + k] = b[k] /\ y[k] = b[k].bytes
    BY <1>3, <1>5, <1>6, <2>1
  <2> QED
    BY <1>4, <2>2
<1>10. z = x \o y
  <2>1. Len(z) = Len(x) + Len(y)
    BY <1>3, <1>4, <1>5, <1>6
  <2> QED
    BY <1>4, <1>5, <1>6, <1>8, <1>9, <2>1, PutTogether, ZenonT(40)
<1> QED
  BY <1>0, <1>10 DEF x, y, z

\* Of commands that are all data, all is written; of a resize, nothing.
LEMMA BytesOfData ==
  ASSUME NEW said \in Seq(Replies), NEW data \in Seq(DataCommands), data \in Seq(Commands),
         Len(data) = Len(said), \A k \in 1 .. Len(said) : data[k] = Data(said[k])
  PROVE  Bytes(data) = said
<1> DEFINE A == Places(data, DataCommands)
           some == Among(data, DataCommands)
<1>1. Len(data) \in Nat /\ DOMAIN data = 1 .. Len(data)
  OBVIOUS
<1>2. A = 1 .. Len(data)
  BY <1>1 DEF Places
<1>3. /\ Len(some) = Cardinality(A)
      /\ \A k \in A : some[Rank(A, k)] = data[k]
  BY AmongIs
<1>4. Cardinality(A) = Len(data)
  <2>1. \A n \in Nat : Cardinality(1 .. n) = n
    BY FS_Interval
  <2> QED
    BY <1>1, <1>2, <2>1
<1>5. \A k \in 1 .. Len(data) : Rank(A, k) = k
  <2> TAKE k \in 1 .. Len(data)
  <2>1. UpTo(A, k) = 1 .. k
    BY <1>1, <1>2 DEF UpTo
  <2>2. Cardinality(1 .. k) = k
    BY <1>1, FS_Interval
  <2> QED
    BY <2>1, <2>2 DEF Rank
<1>6. \A k \in 1 .. Len(data) : some[k] = Data(said[k])
  BY <1>2, <1>3, <1>5
<1>7. /\ Bytes(data) \in Seq(Replies) /\ Len(Bytes(data)) = Len(some)
      /\ \A k \in 1 .. Len(some) : Bytes(data)[k] = some[k].bytes
  BY BytesIs
<1> HIDE DEF A, some
<1>8. \A k \in 1 .. Len(said) : Bytes(data)[k] = said[k]
  BY <1>3, <1>4, <1>6, <1>7, Fields
<1> QED
  BY <1>3, <1>4, <1>7, <1>8

LEMMA BytesOfNone ==
  /\ Bytes(<<>>) = <<>>
  /\ \A to \in Sizes : Bytes(<<Resize(to)>>) = <<>>
<1>1. ASSUME NEW list \in Seq(Commands), \A k \in DOMAIN list : list[k].type # "Data"
      PROVE  Bytes(list) = <<>>
  <2>1. \A k \in DOMAIN list : list[k] \notin DataCommands
    BY <1>1, Fields
  <2>2. Places(list, DataCommands) = {}
    BY <2>1 DEF Places
  <2> DEFINE A == Places(list, DataCommands)
             some == Among(list, DataCommands)
  <2>3. Len(some) = Cardinality(A)
    BY AmongIs
  <2>4. Cardinality(A) = 0
    BY <2>2, FS_EmptySet
  <2>5. Bytes(list) \in Seq(Replies) /\ Len(Bytes(list)) = Len(some)
    BY BytesIs
  <2> HIDE DEF A, some
  <2> QED
    BY <2>3, <2>4, <2>5
<1>2. Bytes(<<>>) = <<>>
  <2>1. <<>> \in Seq(Commands) /\ DOMAIN <<>> = {}
    OBVIOUS
  <2> QED
    BY <1>1, <2>1
<1>3. ASSUME NEW to \in Sizes
      PROVE  Bytes(<<Resize(to)>>) = <<>>
  <2>1. <<Resize(to)>> \in Seq(Commands)
    BY DEF Commands
  <2>2. \A k \in DOMAIN <<Resize(to)>> : <<Resize(to)>>[k].type # "Data"
    BY Fields
  <2> QED
    BY <1>1, <2>1, <2>2
<1> QED
  BY <1>2, <1>3

\* A state in which everything the peer asked is as written as it was.
LEMMA AnswersStutter ==
  ASSUME AnswersAreWritten, UNCHANGED <<kind, got, commands, screen>>,
         writer' = "running" => writer = "running", peer' = "up" => peer = "up"
  PROVE  AnswersAreWritten'
<1>1. Written' = Written /\ Answering(screen)' = Answering(screen)
  BY DEF Written, Bytes, Among, DataCommands, Replies, Answering
<1> QED
  BY <1>1 DEF AnswersAreWritten

LEMMA AnswersInit ==
  ASSUME Init
  PROVE  AnswersAreWritten
<1>1. got = <<>> /\ commands = <<>> /\ screen = <<>>
  BY DEF Init
<1>2. Written = <<>>
  <2>1. Written = <<>> \o <<>>
    BY <1>1, BytesOfNone DEF Written
  <2> QED
    BY <2>1
<1>3. Answering(<<>>) = <<>>
  <2> DEFINE none == <<>>
             A == Places(none, Queries)
             some == Among(none, Queries)
  <2>1. none \in Seq(1 .. MaxOutput) /\ A = {}
    BY DEF Places
  <2> HIDE DEF none
  <2>2. Len(some) = Cardinality(A)
    BY <2>1, AmongIs
  <2>3. Answering(none) \in Seq(Replies) /\ Len(Answering(none)) = Len(some)
    BY <2>1, AnsweringIs
  <2> HIDE DEF A, some
  <2>4. Answering(none) = <<>>
    BY <2>1, <2>2, <2>3, FS_EmptySet
  <2> USE DEF none
  <2> QED
    BY <2>4
<1>4. IsPrefix(<<>>, <<>>)
  BY DEF IsPrefix
<1> QED
  BY <1>1, <1>2, <1>3, <1>4 DEF AnswersAreWritten

\* What the writer carries out was still to be written, and now is.
LEMMA WritesKeepAnswers ==
  ASSUME TypeOK, WriterFollows, AnswersAreWritten, Writes
  PROVE  AnswersAreWritten'
<1> DEFINE head == Head(commands)
           rest == Tail(commands)
<1>1. /\ commands \in Seq(Commands) /\ commands # <<>> /\ got \in Seq(Replies) /\ screen \in Seq(1 .. MaxOutput)
      /\ kind = "ssh" /\ kind' = kind /\ screen' = screen /\ writer = "running"
  BY DEF TypeOK, PeerTypeOK, WriteTypeOK, TabTypeOK, Writes, tabVars
<1>2. head \in Commands /\ rest \in Seq(Commands) /\ head = commands[1] /\ 1 \in DOMAIN commands
  BY <1>1, TailElements
<1>3. /\ Bytes(commands) \in Seq(Replies) /\ Bytes(rest) \in Seq(Replies)
      /\ Answering(screen) \in Seq(Replies)
  BY <1>1, <1>2, BytesIs, AnsweringIs
<1>4. Written = Answering(screen)
  BY <1>1 DEF AnswersAreWritten
<1>5. CASE peer # "up"
  <2>1. got' = got /\ commands' = <<>> /\ writer' = "done"
    BY <1>5 DEF Writes
  <2>2. Bytes(<<>>) = <<>> /\ got \o <<>> = got
    BY <1>1, BytesOfNone
  <2>3. Written' = got
    <3>1. Written' = got' \o Bytes(commands')
      BY DEF Written, Bytes, Among, DataCommands, Replies
    <3> QED
      BY <2>1, <2>2, <3>1
  <2>4. IsPrefix(got \o Bytes(commands), Answering(screen))
    BY <1>4 DEF AnswersAreWritten, Written
  <2>5. IsPrefix(got, Answering(screen))
    BY <1>1, <1>3, <2>4, PrefixGrows
  <2>6. Answering(screen)' = Answering(screen)
    BY <1>1 DEF Answering, Among
  <2> QED
    BY <1>1, <2>1, <2>3, <2>5, <2>6 DEF AnswersAreWritten
<1>6. CASE peer = "up"
  <2>1. head.type # "Shutdown"
    BY <1>2 DEF WriterFollows
  <2>2. /\ commands' = rest
        /\ \/ head.type = "Data" /\ got' = Append(got, head.bytes)
           \/ head.type = "Resize" /\ got' = got
    BY <1>6, <2>1 DEF Writes
  <2>3. commands = <<head>> \o rest /\ <<head>> \in Seq(Commands)
    BY <1>1, <1>2
  <2> HIDE DEF head, rest
  <2>4. Bytes(commands) = Bytes(<<head>>) \o Bytes(rest)
    BY <1>2, <2>3, BytesConcat
  <2>5. got' \o Bytes(rest) = got \o Bytes(commands)
    <3>1. CASE head.type = "Data"
      <4>1. head \in DataCommands
        BY <1>2, <3>1, Fields
      <4>2. PICK said \in Replies : head = Data(said)
        BY <4>1 DEF DataCommands
      <4>3. head.bytes = said
        BY <4>2, Fields
      <4>4. Bytes(<<head>>) = <<said>>
        <5> DEFINE one == <<said>>
                   data == <<head>>
        <5>1. one \in Seq(Replies) /\ data \in Seq(DataCommands) /\ data \in Seq(Commands)
          BY <1>2, <4>1
        <5>2. Len(data) = Len(one) /\ \A k \in 1 .. Len(one) : data[k] = Data(one[k])
          BY <4>2
        <5> HIDE DEF one, data
        <5>3. Bytes(data) = one
          BY <5>1, <5>2, BytesOfData
        <5> QED
          BY <5>3 DEF one, data
      <4>5. got' = Append(got, said)
        BY <2>2, <3>1, <4>3
      <4>6. Append(got, said) \o Bytes(rest) = got \o (<<said>> \o Bytes(rest))
        BY <1>1, <1>3, AppendThenConcat, SMTT(30) DEF rest
      <4> QED
        BY <2>4, <4>4, <4>5, <4>6
    <3>2. CASE head.type = "Resize"
      <4>1. PICK to \in Sizes : head = Resize(to)
        BY <1>2, <3>2, Fields DEF Commands
      <4>2. Bytes(<<head>>) = <<>>
        BY <4>1, BytesOfNone
      <4>3. got' = got
        BY <2>2, <3>2
      <4>4. <<>> \o Bytes(rest) = Bytes(rest)
        BY <1>3, EmptyConcat DEF rest
      <4> QED
        BY <2>4, <4>2, <4>3, <4>4
    <3> QED
      BY <2>2, <3>1, <3>2
  <2>6. Written' = got' \o Bytes(rest)
    BY <2>2 DEF Written, Bytes, Among, DataCommands, Replies
  <2>7. Written' = Written /\ Answering(screen)' = Answering(screen)
    BY <1>1, <2>5, <2>6 DEF Written, Answering, Among
  <2> QED
    BY <1>4, <2>7, <1>3, PrefixGrows DEF AnswersAreWritten
<1> QED
  BY <1>5, <1>6

\* A frame's answers follow those that were written or are still to be.
LEMMA PaintKeepsAnswers ==
  ASSUME TypeOK, WriterFollows, AnswersAreWritten, NEW shown \in BOOLEAN, Paint(shown)
  PROVE  AnswersAreWritten'
<1> DEFINE data == [k \in DOMAIN Answers |-> Data(Answers[k])]
           more == commands \o data
           last == <<Resize(pane)>>
           before == Answering(screen)
           after == before \o Answers
<1>1. /\ commands \in Seq(Commands) /\ got \in Seq(Replies) /\ screen \in Seq(1 .. MaxOutput)
      /\ pane \in Sizes /\ kind \in {"pty", "ssh", "serial"} /\ writer \in {"running", "done"}
  BY DEF TypeOK, PeerTypeOK, WriteTypeOK, RelayTypeOK, TabTypeOK
<1>2. /\ Answers \in Seq(Replies) /\ Answers = Answering(Output)
      /\ data \in Seq(DataCommands) /\ data \in Seq(Commands) /\ Len(data) = Len(Answers)
      /\ \A k \in 1 .. Len(Answers) : data[k] = Data(Answers[k])
  BY DataIs
<1>3. Bytes(data) = Answers
  <2> HIDE DEF data
  <2> QED
    BY <1>2, BytesOfData
<1>4. last \in Seq(Commands) /\ Bytes(last) = <<>>
  BY <1>1, BytesOfNone DEF Commands
<1>5. UNCHANGED <<kind, peer, writer>> /\ screen' = screen \o Output
  BY DEF Paint
<1>6. Written' = got' \o Bytes(commands')
  BY DEF Written, Bytes, Among, DataCommands, Replies
<1>7. Answering(screen)' = after
  <2>1. Answering(screen \o Output) = Answering(screen) \o Answering(Output)
    BY <1>1, OutputType, AnsweringConcat
  <2>2. Answering(screen)' = Answering(screen')
    BY DEF Answering, Among
  <2> QED
    BY <1>2, <1>5, <2>1, <2>2
<1>8. /\ Bytes(commands) \in Seq(Replies) /\ before \in Seq(Replies)
      /\ Written \in Seq(Replies) /\ after \in Seq(Replies)
  <2>1. Bytes(commands) \in Seq(Replies) /\ before \in Seq(Replies)
    BY <1>1, BytesIs, AnsweringIs
  <2>2. Written \in Seq(Replies)
    BY <1>1, <2>1, ConcatElements DEF Written
  <2> HIDE DEF before
  <2>3. after \in Seq(Replies)
    BY <1>2, <2>1, ConcatElements
  <2> QED
    BY <2>1, <2>2, <2>3
<1> HIDE DEF data, last, before
<1>9. IsPrefix(Written, before) /\ IsPrefix(Written, after)
  <2>1. IsPrefix(Written, before)
    BY DEF AnswersAreWritten, before
  <2> QED
    BY <1>2, <1>8, <2>1, PrefixGrows
<1>10. ASSUME Written = before
       PROVE  IsPrefix(Written \o Answers, after) /\ Written \o Answers = after
  BY <1>8, <1>10, PrefixGrows
<1>11. CASE kind = "ssh" /\ writer = "running"
  <2>1. /\ got' = got
        /\ commands' = more \o last \/ commands' = more \o <<>>
    BY <1>11 DEF Paint, data, last
  <2>2. more \in Seq(Commands) /\ Bytes(more) = Bytes(commands) \o Answers
    BY <1>1, <1>2, <1>3, ConcatElements, BytesConcat
  <2>3. Bytes(more) \in Seq(Replies)
    BY <2>2, BytesIs
  <2> HIDE DEF more
  <2>4. more \o <<>> = more
    BY <2>2, EmptyConcat
  <2>5. Bytes(more \o last) = Bytes(more)
    <3>1. Bytes(more \o last) = Bytes(more) \o Bytes(last)
      BY <1>4, <2>2, BytesConcat
    <3> QED
      BY <1>4, <2>3, <3>1, EmptyConcat
  <2>6. Bytes(commands') = Bytes(commands) \o Answers
    BY <2>1, <2>2, <2>4, <2>5, Zenon
  <2>7. Written' = Written \o Answers
    <3>1. (got \o Bytes(commands)) \o Answers = got \o (Bytes(commands) \o Answers)
      <4>1. got \in Seq(Replies) /\ Bytes(commands) \in Seq(Replies) /\ Answers \in Seq(Replies)
        BY <1>1, <1>2, <1>8
      <4> QED
        BY <4>1, ConcatAssociates, SMTT(30)
    <3> QED
      BY <1>6, <2>1, <2>6, <3>1 DEF Written
  <2>8. Written = before
    BY <1>11 DEF AnswersAreWritten, before
  <2> QED
    BY <1>7, <1>10, <2>7, <2>8 DEF AnswersAreWritten
<1>12. CASE kind = "ssh" /\ writer = "done"
  <2>1. got' = got /\ commands' = commands
    BY <1>12 DEF Paint
  <2>2. Written' = Written
    BY <1>6, <2>1 DEF Written
  <2> QED
    BY <1>5, <1>7, <1>9, <1>12, <2>2 DEF AnswersAreWritten
<1>13. CASE kind # "ssh"
  <2>1. commands = <<>> /\ commands' = commands
    BY <1>13 DEF Paint, WriterFollows
  <2>2. got' = IF peer = "up" THEN got \o Answers ELSE got
    BY <1>13 DEF Paint
  <2>3. Bytes(commands) = <<>> /\ Written = got
    BY <1>1, <2>1, BytesOfNone, EmptyConcat DEF Written
  <2>4. CASE peer = "up"
    <3>1. Written = before
      BY <1>13, <2>4 DEF AnswersAreWritten, before
    <3>2. got \o Answers \in Seq(Replies)
      BY <1>1, <1>2, ConcatElements
    <3>3. Written' = Written \o Answers
      BY <1>6, <2>1, <2>2, <2>3, <2>4, <3>2, EmptyConcat
    <3> QED
      BY <1>7, <1>10, <3>1, <3>3 DEF AnswersAreWritten
  <2>5. CASE peer # "up"
    <3>1. Written' = Written
      BY <1>6, <2>1, <2>2, <2>5 DEF Written
    <3> QED
      BY <1>5, <1>7, <1>9, <1>13, <2>5, <3>1 DEF AnswersAreWritten
  <2> QED
    BY <2>4, <2>5
<1> QED
  BY <1>1, <1>11, <1>12, <1>13

LEMMA AnswersStep ==
  ASSUME TypeOK, [Next]_vars, tab = "open", tab' = "open", WriterFollows, AnswersAreWritten
  PROVE  AnswersAreWritten'
<1>1. CASE PeerWrites \/ Disconnected \/ SerialStops \/ Reads \/ Reports \/ Relays \/ RelayEnds
           \/ \E to \in Sizes : ResizeWindow(to)
  BY <1>1, AnswersStutter
     DEF PeerWrites, Disconnected, SerialStops, Reads, Reports, Relays, RelayEnds, ResizeWindow,
         peerVars, writeVars, tabVars
<1>2. CASE PeerLost \/ \E with \in {"ok", "failed"}, early \in BOOLEAN : PeerExits(with, early)
  BY <1>2, AnswersStutter DEF PeerLost, PeerExits, writeVars, tabVars
<1>3. CASE Dropped \/ CloseTab
  BY <1>3 DEF Dropped, CloseTab
<1>4. CASE UNCHANGED vars
  BY <1>4, AnswersStutter DEF vars, peerVars, writeVars, tabVars
<1> QED
  BY <1>1, <1>2, <1>3, <1>4, WritesKeepAnswers, PaintKeepsAnswers DEF Next

------------------------------------------------------------------------------
(* Lists of events, of which only the last may be an end                   *)

Events == Pieces \cup Endings

LEMMA EventTypes ==
  \A e \in Events : /\ e \in Pieces <=> e.type = "Output"
                    /\ e \in Endings <=> e.type = "Closed"
                    /\ e.type \in {"Output", "Closed"}
BY Fields DEF Events

LEMMA Counts ==
  ASSUME NEW list \in Seq(Events)
  PROVE  /\ Count(list) \in Nat /\ Len(list) \in Nat
         /\ Ended(list) => Len(list) = Count(list) + 1 /\ list # <<>>
         /\ ~Ended(list) => Len(list) = Count(list)
         /\ list = <<>> => ~Ended(list) /\ Count(list) = 0
<1>1. Len(list) \in Nat /\ (list = <<>> <=> Len(list) = 0)
  OBVIOUS
<1> QED
  BY <1>1 DEF Count, Ended

LEMMA OutputJoins ==
  ASSUME NEW list \in Seq(Events), ~Ended(list), NEW from \in Nat, Continues(list, from),
         NEW e \in Events, e = Piece(from + Count(list) + 1)
  PROVE  LET longer == Append(list, e)
         IN  ~Ended(longer) /\ Count(longer) = Count(list) + 1 /\ Continues(longer, from)
<1> DEFINE longer == Append(list, e)
<1>1. /\ longer \in Seq(Events) /\ Len(longer) = Len(list) + 1
      /\ longer[Len(list) + 1] = e /\ \A n \in 1 .. Len(list) : longer[n] = list[n]
  BY AppendElements
<1>2. e.type = "Output"
  BY Fields
<1>3. Count(list) = Len(list) /\ Len(list) \in Nat
  BY Counts
<1> HIDE DEF longer
<1>4. ~Ended(longer)
  BY <1>1, <1>2, <1>3 DEF Ended
<1>5. Count(longer) = Count(list) + 1
  BY <1>1, <1>3, <1>4 DEF Count
<1>6. \A k \in 1 .. Count(longer) : longer[k] = Piece(from + k)
  <2>1. \A k \in 1 .. Len(list) : list[k] = Piece(from + k)
    BY <1>3 DEF Continues
  <2>2. from + Count(list) + 1 = from + (Len(list) + 1)
    BY <1>3
  <2> QED
    BY <1>1, <1>3, <1>5, <2>1, <2>2
<1> QED
  BY <1>4, <1>5, <1>6 DEF Continues, longer

LEMMA EndJoins ==
  ASSUME NEW list \in Seq(Events), ~Ended(list), NEW from \in Nat, Continues(list, from),
         NEW e \in Endings
  PROVE  LET longer == Append(list, e)
         IN  /\ Ended(longer) /\ Count(longer) = Count(list) /\ Continues(longer, from)
             /\ Last(longer) = e
<1> DEFINE longer == Append(list, e)
<1>1. /\ longer \in Seq(Events) /\ Len(longer) = Len(list) + 1 /\ longer # <<>>
      /\ longer[Len(list) + 1] = e /\ \A n \in 1 .. Len(list) : longer[n] = list[n]
  BY AppendElements DEF Events
<1>2. e.type = "Closed"
  BY Fields
<1>3. Count(list) = Len(list) /\ Len(list) \in Nat
  BY Counts
<1> HIDE DEF longer
<1>4. Ended(longer) /\ Last(longer) = e
  BY <1>1, <1>2 DEF Ended, Last
<1>5. Count(longer) = Count(list)
  BY <1>1, <1>3, <1>4 DEF Count
<1>6. \A k \in 1 .. Count(longer) : longer[k] = Piece(from + k)
  BY <1>1, <1>3, <1>5 DEF Continues
<1> QED
  BY <1>4, <1>5, <1>6 DEF Continues, longer

\* Taken off the front: so many pieces of output.
LEMMA OutputLeaves ==
  ASSUME NEW list \in Seq(Events), NEW from \in Nat, Continues(list, from),
         NEW n \in 0 .. Count(list)
  PROVE  LET rest == SubSeq(list, n + 1, Len(list))
         IN  /\ rest \in Seq(Events) /\ Count(rest) = Count(list) - n /\ Continues(rest, from + n)
             /\ Ended(rest) <=> Ended(list)
             /\ Ended(list) => Last(rest) = Last(list)
<1> DEFINE rest == SubSeq(list, n + 1, Len(list))
<1>1. Count(list) \in Nat /\ Len(list) \in Nat /\ n \in Nat /\ n <= Len(list)
  BY Counts
<1>2. rest \in Seq(Events) /\ Len(rest) = Len(list) - n
      /\ \A k \in 1 .. Len(list) - n : rest[k] = list[n + k]
  BY <1>1, RestElements
<1> HIDE DEF rest
<1>3. ASSUME Ended(list)
      PROVE  Ended(rest) /\ Last(rest) = Last(list) /\ Count(rest) = Count(list) - n
  <2>1. Len(list) = Count(list) + 1
    BY <1>3, Counts
  <2>2. Len(rest) >= 1 /\ rest[Len(rest)] = list[Len(list)] /\ rest # <<>>
    BY <1>1, <1>2, <2>1
  <2>3. Ended(rest) /\ Last(rest) = Last(list)
    BY <1>3, <2>2 DEF Ended, Last
  <2>4. Count(rest) = Count(list) - n
    BY <1>1, <1>2, <2>1, <2>3 DEF Count
  <2> QED
    BY <2>3, <2>4
<1>4. ASSUME ~Ended(list)
      PROVE  ~Ended(rest) /\ Count(rest) = Count(list) - n
  <2>1. Len(list) = Count(list)
    BY <1>4, Counts
  <2>2. ~Ended(rest)
    <3>1. CASE Len(rest) = 0
      <4>1. rest = <<>>
        BY <1>2, <3>1
      <4> QED
        BY <4>1 DEF Ended
    <3>2. CASE Len(rest) # 0
      <4>1. rest[Len(rest)] = list[Len(list)] /\ list # <<>>
        <5>1. Len(list) - n \in 1 .. Len(list) - n /\ n + (Len(list) - n) = Len(list) /\ Len(list) # 0
          BY <1>1, <1>2, <3>2
        <5> QED
          BY <1>2, <5>1
      <4> QED
        BY <1>4, <4>1 DEF Ended
    <3> QED
      BY <3>1, <3>2
  <2>3. Count(rest) = Count(list) - n
    BY <1>1, <1>2, <2>1, <2>2 DEF Count
  <2> QED
    BY <2>2, <2>3
<1>5. Count(rest) = Count(list) - n /\ (Ended(rest) <=> Ended(list)) /\ (Ended(list) => Last(rest) = Last(list))
  BY <1>3, <1>4
<1>6. \A k \in 1 .. Count(rest) : rest[k] = Piece((from + n) + k)
  <2> TAKE k \in 1 .. Count(rest)
  <2>1. n + k \in 1 .. Count(list) /\ k \in 1 .. Len(list) - n /\ from + (n + k) = (from + n) + k
    <3>1. Count(list) <= Len(list)
      BY Counts
    <3> QED
      BY <1>1, <1>5, <3>1
  <2>2. list[n + k] = Piece(from + (n + k))
    BY <2>1 DEF Continues
  <2> QED
    BY <1>2, <2>1, <2>2
<1> QED
  BY <1>2, <1>5, <1>6 DEF Continues, rest

\* An end is the last of its list.
LEMMA EndIsLast ==
  ASSUME NEW list \in Seq(Events), NEW from \in Nat, Continues(list, from),
         NEW n \in 1 .. Len(list)
  PROVE  IF list[n].type = "Closed" THEN Ended(list) /\ n = Len(list) /\ Count(list) = n - 1
         ELSE n <= Count(list) /\ list[n] = Piece(from + n)
<1>1. Count(list) \in Nat /\ Len(list) \in Nat
  BY Counts
<1>2. \A k \in 1 .. Count(list) : list[k].type = "Output" /\ list[k] = Piece(from + k)
  BY Fields DEF Continues
<1>3. CASE list[n].type = "Closed"
  <2>1. n > Count(list)
    BY <1>1, <1>2, <1>3
  <2>2. Ended(list) /\ Len(list) = Count(list) + 1
    BY <1>1, <2>1, Counts
  <2> QED
    BY <1>1, <1>3, <2>1, <2>2
<1>4. CASE list[n].type # "Closed"
  <2>1. n <= Count(list)
    <3>1. CASE Ended(list)
      <4>1. n # Len(list)
        BY <1>4, <3>1 DEF Ended
      <4> QED
        BY <1>1, <3>1, <4>1, Counts
    <3>2. CASE ~Ended(list)
      BY <1>1, <3>2, Counts
    <3> QED
      BY <3>1, <3>2
  <2> QED
    BY <1>2, <1>4, <2>1
<1> QED
  BY <1>3, <1>4

------------------------------------------------------------------------------
(* The wire                                                                *)

LEMMA WireOutput ==
  ASSUME NEW list \in Seq(Pieces \cup Signals), NEW from \in Nat, NEW n \in Nat,
         Carries(list, from, n), n = Len(list),
         NEW e \in Pieces, e = Piece(from + n + 1)
  PROVE  Carries(Append(list, e), from, n + 1)
<1> DEFINE longer == Append(list, e)
<1>1. /\ longer \in Seq(Pieces \cup Signals) /\ Len(longer) = n + 1
      /\ longer[n + 1] = e /\ \A k \in 1 .. n : longer[k] = list[k]
  BY AppendElements
<1>2. DOMAIN longer = 1 .. n + 1 /\ DOMAIN list = 1 .. n
  BY <1>1
<1>3. from + n + 1 = from + (n + 1)
  OBVIOUS
<1> HIDE DEF longer
<1>4. \A k \in 1 .. n + 1 : longer[k] = Piece(from + k)
  BY <1>1, <1>2, <1>3 DEF Carries
<1> QED
  BY <1>1, <1>2, <1>4 DEF Carries, longer

LEMMA WireSignal ==
  ASSUME NEW list \in Seq(Pieces \cup Signals), NEW from \in Nat, NEW n \in Nat,
         Carries(list, from, n), NEW e \in Signals
  PROVE  Append(list, e) \in Seq(Pieces \cup Signals) /\ Carries(Append(list, e), from, n)
<1> DEFINE longer == Append(list, e)
<1>1. /\ longer \in Seq(Pieces \cup Signals) /\ Len(longer) = Len(list) + 1
      /\ longer[Len(list) + 1] = e /\ \A k \in 1 .. Len(list) : longer[k] = list[k]
  BY AppendElements
<1>2. DOMAIN longer = 1 .. Len(list) + 1 /\ DOMAIN list = 1 .. Len(list) /\ Len(list) \in Nat
  BY <1>1
<1>3. e.type # "Output"
  BY Fields
<1> HIDE DEF longer
<1>4. \A k \in DOMAIN longer : IF k <= n THEN longer[k] = Piece(from + k) ELSE longer[k].type # "Output"
  BY <1>1, <1>2, <1>3 DEF Carries
<1> QED
  BY <1>1, <1>2, <1>4 DEF Carries, longer

LEMMA WireTail ==
  ASSUME NEW list \in Seq(Pieces \cup Signals), NEW from \in Nat, NEW n \in Nat,
         Carries(list, from, n), list # <<>>
  PROVE  /\ Head(list).type = "Output" =>
              n >= 1 /\ Head(list) = Piece(from + 1) /\ Carries(Tail(list), from + 1, n - 1)
         /\ Head(list).type # "Output" => n = 0 /\ Carries(Tail(list), from, 0)
<1> DEFINE rest == Tail(list)
           head == Head(list)
<1>1. /\ rest \in Seq(Pieces \cup Signals) /\ Len(rest) = Len(list) - 1 /\ Len(list) > 0
      /\ \A k \in 1 .. Len(list) - 1 : rest[k] = list[k + 1]
      /\ head = list[1]
  BY TailElements
<1>2. DOMAIN rest = 1 .. Len(list) - 1 /\ DOMAIN list = 1 .. Len(list) /\ Len(list) \in Nat
  BY <1>1
<1> HIDE DEF rest, head
<1>3. /\ n <= Len(list)
      /\ \A k \in 1 .. Len(list) :
           IF k <= n THEN list[k] = Piece(from + k) ELSE list[k].type # "Output"
  BY <1>2 DEF Carries
<1>4. Piece(from + 1).type = "Output"
  BY Fields
<1>5. ASSUME head.type = "Output"
      PROVE  n >= 1 /\ head = Piece(from + 1) /\ Carries(rest, from + 1, n - 1)
  <2>1. n >= 1 /\ head = Piece(from + 1)
    BY <1>1, <1>2, <1>3, <1>5
  <2>2. ASSUME NEW k \in 1 .. Len(list) - 1
        PROVE  IF k <= n - 1 THEN rest[k] = Piece((from + 1) + k) ELSE rest[k].type # "Output"
    <3>1. k + 1 \in 1 .. Len(list) /\ from + (k + 1) = (from + 1) + k /\ (k <= n - 1 <=> k + 1 <= n)
      BY <1>2
    <3>2. rest[k] = list[k + 1]
      BY <1>1
    <3>3. IF k + 1 <= n THEN list[k + 1] = Piece(from + (k + 1)) ELSE list[k + 1].type # "Output"
      BY <1>3, <3>1
    <3> QED
      BY <3>1, <3>2, <3>3
  <2>3. n - 1 <= Len(rest)
    BY <1>1, <1>2, <1>3, <2>1
  <2>4. \A k \in DOMAIN rest :
          IF k <= n - 1 THEN rest[k] = Piece((from + 1) + k) ELSE rest[k].type # "Output"
    BY <1>2, <2>2
  <2> QED
    BY <2>1, <2>3, <2>4 DEF Carries
<1>6. ASSUME head.type # "Output"
      PROVE  n = 0 /\ Carries(rest, from, 0)
  <2>1. n = 0
    BY <1>1, <1>2, <1>3, <1>4, <1>6
  <2>2. \A k \in 1 .. Len(list) - 1 : k + 1 \in 1 .. Len(list) /\ ~(k <= 0) /\ ~(k + 1 <= n)
    BY <1>2, <2>1
  <2>3. \A k \in 1 .. Len(list) - 1 : rest[k].type # "Output"
    BY <1>1, <1>3, <2>2
  <2> QED
    BY <1>1, <1>2, <2>1, <2>2, <2>3 DEF Carries
<1> QED
  BY <1>5, <1>6 DEF rest, head

------------------------------------------------------------------------------
(* The end of a session                                                    *)

LEMMA EndTypes ==
  ASSUME TypeOK
  PROVE  /\ queue \in Seq(Events) /\ source \in Seq(Events) /\ wire \in Seq(Pieces \cup Signals)
         /\ screen \in Seq(1 .. MaxOutput) /\ exit \in Endings \cup {NoExit}
         /\ sent \in Nat /\ Len(screen) \in Nat /\ Count(queue) \in Nat /\ Count(source) \in Nat
         /\ Relayed \in Nat /\ Read \in Nat
<1>1. /\ queue \in Seq(Events) /\ source \in Seq(Events) /\ wire \in Seq(Pieces \cup Signals)
      /\ screen \in Seq(1 .. MaxOutput) /\ exit \in Endings \cup {NoExit}
  BY DEF TypeOK, ReadTypeOK, RelayTypeOK, TabTypeOK, Events
<1>2. sent \in Nat
  BY BoundsAssumption DEF TypeOK, PeerTypeOK
<1>3. Len(screen) \in Nat
  BY <1>1
<1>4. Count(queue) \in Nat /\ Count(source) \in Nat
  BY <1>1, Counts
<1> QED
  BY <1>1, <1>2, <1>3, <1>4 DEF Relayed, Read

LEMMA EndInit ==
  ASSUME Init
  PROVE  EndInv
<1>1. TypeOK
  BY InitType
<1>2. queue = <<>> /\ source = <<>> /\ screen = <<>> /\ wire = <<>> /\ sent = 0 /\ peer = "up"
      /\ reader = "reading" /\ relay = "waiting" /\ exit = NoExit
  BY DEF Init
<1>3. ~Ended(<<>>) /\ Count(<<>>) = 0
  <2>1. <<>> \in Seq(Events)
    OBVIOUS
  <2> QED
    BY <2>1, Counts
<1>4. Relayed = 0 /\ Read = 0
  BY <1>2, <1>3 DEF Relayed, Read
<1>5. DeliveredInOrder
  <2>1. screen = [n \in 1 .. Len(screen) |-> n]
    BY <1>2
  <2> QED
    BY <1>2, <1>3, <2>1 DEF DeliveredInOrder, Continues
<1>6. ReadInOrder
  BY <1>2, <1>4 DEF ReadInOrder, Carries
<1>7. EndsOnce /\ EndsAreTruthful
  BY <1>2, <1>3 DEF EndsOnce, EndsAreTruthful
<1>8. EndsByKind
  BY <1>2 DEF EndsByKind
<1> QED
  BY <1>5, <1>6, <1>7, <1>8 DEF EndInv

\* What was delivered stays delivered while nobody reads, relays or paints.
LEMMA DeliveredStutters ==
  ASSUME UNCHANGED <<screen, queue, source>>
  PROVE  /\ DeliveredInOrder => DeliveredInOrder'
         /\ Read' = Read /\ Relayed' = Relayed
         /\ Ended(queue)' = Ended(queue) /\ Ended(source)' = Ended(source)
BY DEF DeliveredInOrder, Read, Relayed, Count, Continues, Ended, Piece

LEMMA EndStutters ==
  ASSUME EndInv,
         UNCHANGED <<kind, peer, sent, code, wire, reader, death, source, relay, queue, screen, exit>>
  PROVE  EndInv'
<1>1. DeliveredInOrder' /\ Read' = Read
      /\ Ended(queue)' = Ended(queue) /\ Ended(source)' = Ended(source)
  BY DeliveredStutters DEF EndInv
<1>2. ReadInOrder'
  BY <1>1 DEF EndInv, ReadInOrder, Carries, Piece
<1>3. EndsOnce'
  BY <1>1 DEF EndInv, EndsOnce, NoExit, Closed
<1>4. EndsByKind'
  BY DEF EndInv, EndsByKind
<1>5. EndsAreTruthful'
  BY <1>1 DEF EndInv, EndsAreTruthful, Truthful, NoExit, Closed
<1> QED
  BY <1>1, <1>2, <1>3, <1>4, <1>5 DEF EndInv

\* Before its reader has reported, nobody has heard of a session's end.
LEMMA NothingEnded ==
  ASSUME TypeOK, EndsOnce, reader # "done"
  PROVE  ~Ended(queue) /\ ~Ended(source) /\ exit = NoExit /\ relay \notin {"waking last", "done"}
BY DEF EndsOnce

LEMMA PeerKeepsEnd ==
  ASSUME TypeOK, EndInv, tab = "open",
         PeerWrites \/ PeerLost
           \/ \E with \in {"ok", "failed"}, early \in BOOLEAN : PeerExits(with, early)
  PROVE  EndInv'
<1>1. /\ UNCHANGED <<kind, screen, queue, source, reader, relay, exit>> /\ reader # "done"
      /\ peer = "up" \/ PeerLost
  BY DEF PeerWrites, PeerLost, PeerExits, relayVars, tabVars, EndInv, ReadInOrder
<1>2. /\ ~Ended(queue) /\ ~Ended(source) /\ exit = NoExit /\ relay \notin {"waking last", "done"}
  BY <1>1, NothingEnded DEF EndInv
<1>3. DeliveredInOrder' /\ Read' = Read /\ ~Ended(queue)' /\ ~Ended(source)' /\ exit' = NoExit'
  BY <1>1, <1>2, DeliveredStutters DEF EndInv, NoExit, Closed
<1>4. EndsOnce' /\ EndsAreTruthful'
  BY <1>1, <1>2, <1>3 DEF EndsOnce, EndsAreTruthful
<1>5. /\ wire \in Seq(Pieces \cup Signals) /\ Read \in Nat /\ sent \in Nat /\ sent - Read \in Nat
      /\ Carries(wire, Read, sent - Read)
  BY EndTypes DEF EndInv, ReadInOrder
<1>6. CASE PeerWrites
  <2>1. /\ sent' = sent + 1 /\ wire' = Append(wire, Piece(sent + 1)) /\ peer' = peer /\ peer = "up"
        /\ death' = death
    BY <1>6 DEF PeerWrites
  <2>2. Len(wire) = sent - Read /\ reader = "reading" /\ Read <= sent
    BY <2>1 DEF EndInv, ReadInOrder
  <2>3. Piece(sent + 1) \in Pieces
    BY <1>6, BoundsAssumption DEF PeerWrites, TypeOK, PeerTypeOK, Pieces
  <2>4. sent' - Read' = (sent - Read) + 1 /\ Read + (sent - Read) + 1 = sent + 1
    BY <1>3, <1>5, <2>1
  <2> DEFINE n == sent - Read
             e == Piece(sent + 1)
  <2>5. e = Piece(Read + n + 1) /\ e \in Pieces /\ n = Len(wire)
    BY <2>2, <2>3, <2>4
  <2> HIDE DEF n, e
  <2>6. Carries(Append(wire, e), Read, n + 1)
    <3>1. n \in Nat /\ Carries(wire, Read, n)
      BY <1>5 DEF n
    <3> QED
      BY <1>5, <2>5, <3>1, WireOutput
  <2>7. Carries(wire', Read', sent' - Read') /\ Read' <= sent' /\ Len(wire') = sent' - Read'
    <3>1. Len(wire') = n + 1
      BY <1>5, <2>1, <2>5 DEF e
    <3> QED
      BY <1>3, <1>5, <2>1, <2>2, <2>4, <2>6, <3>1 DEF n, e
  <2>8. ReadInOrder'
    <3>1. Carries(wire, Read, sent - Read)'
      BY <2>7 DEF Carries, Piece
    <3> QED
      BY <1>1, <2>2, <2>7, <3>1 DEF ReadInOrder
  <2>9. EndsByKind'
    BY <1>1, <2>1 DEF EndInv, EndsByKind
  <2> QED
    BY <1>3, <1>4, <2>8, <2>9 DEF EndInv
<1>7. ASSUME NEW with \in {"ok", "failed"}, NEW early \in BOOLEAN, PeerExits(with, early)
      PROVE  EndInv'
  <2> DEFINE told1 == Append(wire, Signal("eof"))
             told2 == Append(Append(wire, Signal("status")), Signal("eof"))
  <2>1. sent' = sent /\ peer' = "exited" /\ peer = "up" /\ kind # "serial" /\ death' = death
    BY <1>7 DEF PeerExits
  <2>2. wire' = told1 \/ wire' = told2
    <3>1. wire \o <<Signal("eof")>> = told1
      BY <1>5
    <3>2. wire \o <<Signal("status"), Signal("eof")>> = told2
      BY <1>5
    <3> QED
      BY <1>7, <3>1, <3>2, Zenon DEF PeerExits
  <2>3. Signal("status") \in Signals /\ Signal("eof") \in Signals
    BY DEF Signals
  <2>4. Carries(told1, Read, sent - Read)
    BY <1>5, <2>3, WireSignal
  <2>5. Carries(told2, Read, sent - Read)
    <3>1. /\ Append(wire, Signal("status")) \in Seq(Pieces \cup Signals)
          /\ Carries(Append(wire, Signal("status")), Read, sent - Read)
      BY <1>5, <2>3, WireSignal
    <3> QED
      BY <1>5, <2>3, <3>1, WireSignal
  <2> HIDE DEF told1, told2
  <2>6. Carries(wire', Read', sent' - Read')
    BY <1>3, <2>1, <2>2, <2>4, <2>5
  <2>7. ReadInOrder'
    <3>1. Carries(wire, Read, sent - Read)'
      BY <2>6 DEF Carries, Piece
    <3>2. Read <= sent /\ reader = "reading"
      BY <2>1 DEF EndInv, ReadInOrder
    <3> QED
      BY <1>1, <1>3, <2>1, <3>1, <3>2 DEF ReadInOrder
  <2>8. EndsByKind'
    BY <1>1, <2>1 DEF EndInv, EndsByKind
  <2> QED
    BY <1>3, <1>4, <2>7, <2>8 DEF EndInv
<1>8. CASE PeerLost
  <2>1. /\ sent' = sent /\ peer' = (IF peer = "up" THEN "lost" ELSE peer) /\ peer' # "up"
        /\ peer # "lost" /\ kind # "pty"
        /\ wire' = Append(wire, Signal("gone")) /\ (kind = "ssh" => death' = "dying")
    BY <1>8 DEF PeerLost
  <2>2. Signal("gone") \in Signals
    BY DEF Signals
  <2>3. Carries(wire', Read', sent' - Read')
    BY <1>3, <1>5, <2>1, <2>2, WireSignal
  <2>4. ReadInOrder'
    <3>1. Carries(wire, Read, sent - Read)'
      BY <2>3 DEF Carries, Piece
    <3>2. Read <= sent /\ (reader # "reading" => Read = sent)
      BY DEF EndInv, ReadInOrder
    <3> QED
      BY <1>1, <1>3, <2>1, <3>1, <3>2 DEF ReadInOrder
  <2>5. EndsByKind'
    BY <1>1, <2>1 DEF EndInv, EndsByKind
  <2> QED
    BY <1>3, <1>4, <2>4, <2>5 DEF EndInv
<1> QED
  BY <1>6, <1>7, <1>8

LEMMA DisconnectKeepsEnd ==
  ASSUME TypeOK, EndInv, Disconnected
  PROVE  EndInv'
<1>1. /\ UNCHANGED <<kind, peer, sent, code, wire, reader, source, relay, queue, screen, exit>>
      /\ death = "dying" /\ death' = "told"
  BY DEF Disconnected, peerVars, readVars, relayVars, tabVars
<1>2. /\ DeliveredInOrder' /\ Read' = Read
      /\ Ended(queue)' = Ended(queue) /\ Ended(source)' = Ended(source)
  BY <1>1, DeliveredStutters DEF EndInv
<1>3. ReadInOrder'
  BY <1>1, <1>2 DEF EndInv, ReadInOrder, Carries, Piece
<1>4. EndsOnce'
  BY <1>1, <1>2 DEF EndInv, EndsOnce, NoExit, Closed
<1>5. EndsByKind'
  BY <1>1 DEF EndInv, EndsByKind
<1>6. EndsAreTruthful'
  BY <1>1, <1>2 DEF EndInv, EndsAreTruthful, Truthful, NoExit, Closed
<1> QED
  BY <1>2, <1>3, <1>4, <1>5, <1>6 DEF EndInv

\* The reader sends on the next piece, or, at the end of them, looks for why.
LEMMA ReadsKeepsEnd ==
  ASSUME TypeOK, EndInv, Reads
  PROVE  EndInv'
<1> DEFINE head == Head(wire)
<1>1. /\ UNCHANGED <<kind, peer, sent, code, death, relay, queue, screen, exit>>
      /\ reader = "reading" /\ wire # <<>> /\ wire' = Tail(wire) /\ Takes(head)
  BY DEF Reads, peerVars, relayVars, tabVars
<1>2. /\ ~Ended(queue) /\ ~Ended(source) /\ exit = NoExit /\ relay \notin {"waking last", "done"}
  BY <1>1, NothingEnded DEF EndInv
<1>3. /\ wire \in Seq(Pieces \cup Signals) /\ source \in Seq(Events) /\ sent \in Nat
      /\ Read \in Nat /\ Relayed \in Nat /\ Count(source) \in Nat /\ Len(screen) \in Nat
      /\ Read = Relayed + Count(source)
  BY EndTypes DEF Read
<1>4. /\ Read <= sent /\ Carries(wire, Read, sent - Read) /\ sent - Read \in Nat
      /\ peer = "up" => Len(wire) = sent - Read
  BY <1>3 DEF EndInv, ReadInOrder
<1>5. head \in Pieces \cup Signals /\ Len(wire') = Len(wire) - 1 /\ Len(wire) \in Nat /\ Len(wire) > 0
  BY <1>1, <1>3, TailElements
<1>6. /\ DeliveredInOrder /\ EndsByKind
  BY DEF EndInv
<1>7. EndsByKind'
  BY <1>1, <1>6 DEF EndsByKind
<1>8. Ended(queue)' = Ended(queue) /\ Relayed' = Relayed /\ exit' = NoExit'
  BY <1>1, <1>2 DEF Ended, Relayed, Count, NoExit, Closed
<1>9. CASE head.type = "Output"
  <2>1. /\ sent - Read >= 1 /\ head = Piece(Read + 1)
        /\ Carries(Tail(wire), Read + 1, (sent - Read) - 1)
    BY <1>1, <1>3, <1>4, <1>9, WireTail
  <2>2. head \in Events
    BY <1>5, <1>9, Fields DEF Events
  <2>3. source' = Append(source, head) /\ reader' = reader
    BY <1>1, <1>2, <1>9 DEF Takes, Sends
  <2> DEFINE longer == Append(source, head)
  <2>4. /\ ~Ended(longer) /\ Count(longer) = Count(source) + 1 /\ Continues(longer, Relayed)
    <3>1. Continues(source, Relayed)
      BY <1>6 DEF DeliveredInOrder
    <3>2. head = Piece(Relayed + Count(source) + 1)
      BY <1>3, <2>1
    <3> HIDE DEF head
    <3> QED
      BY <1>2, <1>3, <2>2, <3>1, <3>2, OutputJoins
  <2> HIDE DEF longer, head
  <2>5. ~Ended(source)' /\ Read' = Read + 1 /\ Continues(source, Relayed)'
    <3>1. Ended(source)' = Ended(longer) /\ Count(source)' = Count(longer)
      BY <2>3 DEF Ended, Count, longer
    <3>2. Continues(source, Relayed)' = Continues(longer, Relayed)
      BY <1>8, <2>3 DEF Continues, Count, Ended, Piece, longer
    <3> QED
      BY <1>3, <1>8, <2>4, <3>1, <3>2 DEF Read
  <2>6. DeliveredInOrder'
    <3>1. Continues(queue, Len(screen))'
      BY <1>1, <1>6 DEF DeliveredInOrder, Continues, Count, Ended, Piece
    <3> QED
      BY <1>1, <1>6, <2>5, <3>1 DEF DeliveredInOrder
  <2>7. ReadInOrder'
    <3>1. sent' - Read' = (sent - Read) - 1 /\ Read' <= sent'
      <4>1. sent' = sent /\ Read' = Read + 1 /\ Read \in Nat /\ sent \in Nat /\ sent - Read >= 1
        BY <1>1, <1>3, <2>1, <2>5
      <4> QED
        BY <4>1
    <3>2. Carries(wire', Read', sent' - Read')
      BY <1>1, <2>1, <2>5, <3>1
    <3>3. Carries(wire, Read, sent - Read)'
      BY <3>2 DEF Carries, Piece
    <3>4. peer' = "up" => Len(wire') = sent' - Read'
      BY <1>1, <1>4, <1>5, <3>1
    <3> QED
      BY <1>1, <2>3, <3>1, <3>3, <3>4 DEF ReadInOrder
  <2>8. EndsOnce' /\ EndsAreTruthful'
    BY <1>1, <1>2, <1>8, <2>5 DEF EndsOnce, EndsAreTruthful
  <2> QED
    BY <1>7, <2>6, <2>7, <2>8 DEF EndInv
<1>10. CASE head.type # "Output"
  <2>1. sent - Read = 0 /\ Carries(Tail(wire), Read, 0)
    BY <1>1, <1>3, <1>4, <1>10, WireTail
  <2>2. source' = source /\ (reader' = reader \/ reader' = "reporting")
    BY <1>1, <1>10 DEF Takes
  <2>3. DeliveredInOrder' /\ Read' = Read /\ ~Ended(source)'
    BY <1>1, <1>2, <1>6, <2>2, DeliveredStutters
  <2>4. peer # "up"
    BY <1>4, <1>5, <2>1
  <2>5. ReadInOrder'
    <3>1. sent' - Read' = 0 /\ Read' <= sent' /\ Read' = sent'
      BY <1>1, <1>3, <1>4, <2>1, <2>3
    <3>2. Carries(wire, Read, sent - Read)'
      BY <1>1, <2>1, <2>3, <3>1 DEF Carries, Piece
    <3> QED
      BY <1>1, <2>4, <3>1, <3>2 DEF ReadInOrder
  <2>6. EndsOnce' /\ EndsAreTruthful'
    BY <1>1, <1>2, <1>8, <2>3 DEF EndsOnce, EndsAreTruthful
  <2> QED
    BY <1>7, <2>3, <2>5, <2>6 DEF EndInv
<1> QED
  BY <1>9, <1>10

\* The end that is reported is the one the peer came to.
LEMMA ReportsKeepsEnd ==
  ASSUME TypeOK, EndInv, Reports
  PROVE  EndInv'
<1>1. /\ UNCHANGED <<kind, peer, sent, code, wire, death, relay, queue, screen, exit>>
      /\ reader = "reporting" /\ reader' = "done" /\ (kind = "ssh" => death # "dying")
  BY DEF Reports, Waited, peerVars, relayVars, tabVars
<1>2. /\ ~Ended(queue) /\ ~Ended(source) /\ exit = NoExit /\ relay \notin {"waking last", "done"}
  BY <1>1, NothingEnded DEF EndInv
<1>3. source' = Append(source, Ending)
  BY <1>2 DEF Reports
<1>4. Ending \in Endings
  <2> DEFINE said == (death = "told")
  <2>1. said \in BOOLEAN
    OBVIOUS
  <2>2. \A with \in Codes, message \in BOOLEAN : Closed(with, message) \in Endings
    BY DEF Endings
  <2>3. NoCode \in Codes /\ code \in Codes /\ status \in Codes
    BY DEF Codes, TypeOK, PeerTypeOK, ReadTypeOK
  <2>4. Ending \in {Closed(code, FALSE), Closed(status, said), Closed(NoCode, TRUE)}
    BY Zenon DEF Ending
  <2> HIDE DEF said
  <2> QED
    BY <2>1, <2>2, <2>3, <2>4
<1>5. Truthful(Ending)
  <2>1. EndsByKind /\ kind \in {"pty", "ssh", "serial"}
    BY DEF EndInv, TypeOK, PeerTypeOK
  <2>2. CASE kind = "pty"
    BY <2>1, <2>2 DEF Ending, Truthful, Closed, EndsByKind
  <2>3. CASE kind = "ssh"
    <3> DEFINE said == (death = "told")
    <3>1. Ending = Closed(status, said)
      BY <2>3, Zenon DEF Ending
    <3>2. peer = "lost" => said
      BY <1>1, <2>1, <2>3 DEF EndsByKind
    <3>3. death = "no" => ~said
      OBVIOUS
    <3> HIDE DEF said
    <3> QED
      BY <2>3, <3>1, <3>2, <3>3 DEF Truthful, Closed
  <2>4. CASE kind = "serial"
    BY <2>1, <2>4 DEF Ending, Truthful, Closed, EndsByKind
  <2> QED
    BY <2>1, <2>2, <2>3, <2>4
<1>6. source \in Seq(Events) /\ Relayed \in Nat /\ Count(source) \in Nat /\ DeliveredInOrder
  BY EndTypes DEF EndInv
<1> DEFINE e == Ending
           longer == Append(source, e)
<1>7. Ended(longer) /\ Count(longer) = Count(source) /\ Continues(longer, Relayed) /\ Last(longer) = e
  <2>1. Continues(source, Relayed)
    BY <1>6 DEF DeliveredInOrder
  <2> HIDE DEF e
  <2>2. e \in Endings
    BY <1>4 DEF e
  <2> QED
    BY <1>2, <1>6, <2>1, <2>2, EndJoins
<1> HIDE DEF longer, e
<1>8. source' = longer
  BY <1>3 DEF longer, e
<1>9. Ended(queue)' = Ended(queue) /\ Relayed' = Relayed /\ exit' = NoExit'
  BY <1>1, <1>2 DEF Ended, Relayed, Count, NoExit, Closed
<1>10. Ended(source)' /\ Read' = Read /\ Continues(source, Relayed)'
  <2>1. Ended(source)' = Ended(longer) /\ Count(source)' = Count(longer)
    BY <1>8 DEF Ended, Count
  <2>2. Continues(source, Relayed)' = Continues(longer, Relayed)
    BY <1>8, <1>9 DEF Continues, Count, Ended, Piece
  <2> QED
    BY <1>7, <1>9, <2>1, <2>2 DEF Read
<1>11. DeliveredInOrder'
  <2>1. Continues(queue, Len(screen))'
    BY <1>1, <1>6 DEF DeliveredInOrder, Continues, Count, Ended, Piece
  <2> QED
    BY <1>1, <1>6, <1>10, <2>1 DEF DeliveredInOrder
<1>12. ReadInOrder'
  BY <1>1, <1>10 DEF EndInv, ReadInOrder, Carries, Piece
<1>13. EndsOnce'
  BY <1>1, <1>2, <1>9 DEF EndsOnce
<1>14. EndsByKind'
  BY <1>1 DEF EndInv, EndsByKind
<1>15. EndsAreTruthful'
  <2>1. source'[Len(source')] = Ending
    BY <1>7, <1>8 DEF Last, e
  <2>2. Truthful(source[Len(source)])'
    BY <1>1, <1>5, <2>1 DEF Truthful
  <2> QED
    BY <1>2, <1>9, <2>2 DEF EndsAreTruthful
<1> QED
  BY <1>11, <1>12, <1>13, <1>14, <1>15 DEF EndInv

\* What the relay passes on leaves one list and joins the other.
LEMMA RelayKeepsEnd ==
  ASSUME TypeOK, EndInv, tab = "open", Relays \/ RelayEnds
  PROVE  EndInv'
<1>1. UNCHANGED <<kind, peer, sent, code, wire, reader, death, screen, exit>>
  BY DEF Relays, RelayEnds, peerVars, readVars, tabVars
<1>2. /\ queue \in Seq(Events) /\ source \in Seq(Events) /\ Len(screen) \in Nat
      /\ Count(queue) \in Nat /\ Count(source) \in Nat /\ Relayed \in Nat /\ Read \in Nat
      /\ Relayed = Len(screen) + Count(queue) /\ Read = Relayed + Count(source)
  BY EndTypes DEF Relayed, Read
<1>3. /\ screen = [n \in 1 .. Len(screen) |-> n] /\ Continues(queue, Len(screen))
      /\ Continues(source, Relayed)
  BY DEF EndInv, DeliveredInOrder
<1>4. EndsByKind'
  BY <1>1 DEF EndInv, EndsByKind
<1>5. exit' = exit /\ NoExit' = NoExit
  BY <1>1 DEF NoExit, Closed
<1>6. CASE /\ relay = "waiting" /\ source # <<>>
           /\ queue' = Append(queue, Head(source))
           /\ source' = Tail(source)
           /\ relay' = IF Head(source).type = "Closed" THEN "waking last" ELSE "waking"
  <2> DEFINE e == Head(source)
             longer == Append(queue, e)
             rest == Tail(source)
  <2>1. ~Ended(queue) /\ exit = NoExit
    BY <1>6 DEF EndInv, EndsOnce
  <2>0. source \in Seq(Events) /\ source # <<>>
    BY <1>2, <1>6
  <2>2. e \in Events /\ e = source[1] /\ 1 \in 1 .. Len(source) /\ Len(source) \in Nat
    BY <2>0, TailElements
  <2>3. rest = SubSeq(source, 1 + 1, Len(source)) /\ (Len(source) = 1 => rest = <<>>)
    BY <2>0, TailIsRest
  <2>4. IF e.type = "Closed" THEN Ended(source) /\ Len(source) = 1 /\ Count(source) = 0
        ELSE 1 <= Count(source) /\ e = Piece(Relayed + 1)
    <3>1. IF source[1].type = "Closed" THEN Ended(source) /\ 1 = Len(source) /\ Count(source) = 1 - 1
          ELSE 1 <= Count(source) /\ source[1] = Piece(Relayed + 1)
      BY <1>2, <1>3, <2>2, EndIsLast
    <3> QED
      BY <2>2, <3>1
  <2>5. queue' = longer /\ source' = rest
    BY <1>6
  <2>6. CASE e.type = "Closed"
    <3>1. e \in Endings /\ e = Last(source)
      <4>1. Last(source) = source[1]
        BY <2>4, <2>6 DEF Last
      <4> HIDE DEF e
      <4> QED
        BY <2>2, <2>6, <4>1, EventTypes
    <3>2. rest = <<>>
      BY <2>3, <2>4, <2>6
    <3> HIDE DEF e
    <3>3. /\ Ended(longer) /\ Count(longer) = Count(queue) /\ Continues(longer, Len(screen))
          /\ Last(longer) = e
      BY <1>2, <1>3, <2>1, <3>1, EndJoins
    <3>4. ~Ended(rest) /\ Count(rest) = 0 /\ Continues(rest, Relayed)
      <4> HIDE DEF rest
      <4>1. rest \in Seq(Events)
        BY <3>2
      <4>2. ~Ended(rest) /\ Count(rest) = 0
        BY <3>2, <4>1, Counts
      <4> QED
        BY <4>2 DEF Continues
    <3> HIDE DEF longer, rest
    <3>5. Relayed' = Relayed /\ Read' = Read /\ Ended(queue)' /\ ~Ended(source)'
      <4>1. Count(queue)' = Count(longer) /\ Count(source)' = Count(rest)
        BY <2>5 DEF Count, Ended
      <4>2. Ended(queue)' = Ended(longer) /\ Ended(source)' = Ended(rest)
        BY <2>5 DEF Ended
      <4> QED
        BY <1>1, <1>2, <2>4, <2>6, <3>3, <3>4, <4>1, <4>2 DEF Relayed, Read
    <3>6. DeliveredInOrder'
      <4>1. Continues(queue, Len(screen))' = Continues(longer, Len(screen))
        BY <1>1, <2>5 DEF Continues, Count, Ended, Piece
      <4>2. Continues(source, Relayed)' = Continues(rest, Relayed)
        BY <2>5, <3>5 DEF Continues, Count, Ended, Piece
      <4> QED
        BY <1>1, <1>3, <3>3, <3>4, <4>1, <4>2 DEF DeliveredInOrder
    <3>7. ReadInOrder'
      BY <1>1, <3>5 DEF EndInv, ReadInOrder, Carries, Piece
    <3>8. EndsOnce'
      <4>1. reader = "done" /\ relay' = "waking last" /\ source' = <<>>
        BY <1>6, <2>4, <2>5, <2>6, <3>2 DEF EndInv, EndsOnce, e, rest
      <4> QED
        BY <1>1, <1>5, <2>1, <3>5, <4>1 DEF EndsOnce
    <3>9. EndsAreTruthful'
      <4>1. Truthful(source[Len(source)])
        BY <2>4, <2>6 DEF EndInv, EndsAreTruthful
      <4>2. queue'[Len(queue')] = source[Len(source)]
        BY <2>5, <3>1, <3>3 DEF Last
      <4>3. Truthful(queue[Len(queue)])'
        BY <1>1, <4>1, <4>2 DEF Truthful
      <4> QED
        BY <1>5, <2>1, <3>5, <4>3 DEF EndsAreTruthful
    <3> QED
      BY <1>4, <3>6, <3>7, <3>8, <3>9 DEF EndInv
  <2>7. CASE e.type # "Closed"
    <3>1. e = Piece(Len(screen) + Count(queue) + 1)
      BY <1>2, <2>4, <2>7
    <3> HIDE DEF e
    <3>2. /\ ~Ended(longer) /\ Count(longer) = Count(queue) + 1 /\ Continues(longer, Len(screen))
      BY <1>2, <1>3, <2>1, <2>2, <3>1, OutputJoins
    <3>3. /\ Count(rest) = Count(source) - 1 /\ Continues(rest, Relayed + 1)
          /\ Ended(rest) <=> Ended(source)
          /\ Ended(source) => Last(rest) = Last(source)
      <4>1. 1 \in 0 .. Count(source)
        BY <1>2, <2>4, <2>7
      <4> HIDE DEF rest
      <4> QED
        BY <1>2, <1>3, <2>3, <4>1, OutputLeaves
    <3> HIDE DEF longer, rest
    <3>4. /\ Relayed' = Relayed + 1 /\ Read' = Read /\ ~Ended(queue)'
          /\ Ended(source)' = Ended(rest)
      <4>1. Count(queue)' = Count(longer) /\ Count(source)' = Count(rest)
        BY <2>5 DEF Count, Ended
      <4>2. Ended(queue)' = Ended(longer) /\ Ended(source)' = Ended(rest)
        BY <2>5 DEF Ended
      <4>3. Relayed' = Relayed + 1
        BY <1>1, <1>2, <3>2, <4>1 DEF Relayed
      <4>4. Read' = Read
        BY <1>2, <3>3, <4>1, <4>3 DEF Read
      <4> QED
        BY <3>2, <4>2, <4>3, <4>4
    <3>5. DeliveredInOrder'
      <4>1. Continues(queue, Len(screen))' = Continues(longer, Len(screen))
        BY <1>1, <2>5 DEF Continues, Count, Ended, Piece
      <4>2. Continues(source, Relayed)' = Continues(rest, Relayed + 1)
        BY <2>5, <3>4 DEF Continues, Count, Ended, Piece
      <4> QED
        BY <1>1, <1>3, <3>2, <3>3, <4>1, <4>2 DEF DeliveredInOrder
    <3>6. ReadInOrder'
      BY <1>1, <3>4 DEF EndInv, ReadInOrder, Carries, Piece
    <3>7. EndsOnce'
      <4>1. relay' = "waking"
        BY <1>6, <2>7 DEF e
      <4> QED
        BY <1>1, <1>5, <2>1, <3>3, <3>4, <4>1 DEF EndInv, EndsOnce
    <3>8. EndsAreTruthful'
      <4>1. Ended(source)' => Truthful(source[Len(source)])
        BY <3>3, <3>4 DEF EndInv, EndsAreTruthful
      <4>2. Ended(source)' => source'[Len(source')] = source[Len(source)]
        BY <2>5, <3>3, <3>4 DEF Last
      <4>3. Ended(source)' => Truthful(source[Len(source)])'
        BY <1>1, <4>1, <4>2 DEF Truthful
      <4> QED
        BY <1>5, <2>1, <3>4, <4>3 DEF EndsAreTruthful
    <3> QED
      BY <1>4, <3>5, <3>6, <3>7, <3>8 DEF EndInv
  <2> QED
    BY <2>6, <2>7
<1>7. CASE /\ UNCHANGED <<queue, source>>
           /\ \/ relay = "waking" /\ relay' = "waiting"
              \/ relay = "waking last" /\ relay' = "done"
              \/ relay = "waiting" /\ source = <<>> /\ reader = "done" /\ relay' = "done"
  <2>1. /\ DeliveredInOrder' /\ Read' = Read
        /\ Ended(queue)' = Ended(queue) /\ Ended(source)' = Ended(source)
    BY <1>1, <1>7, DeliveredStutters DEF EndInv
  <2>2. ReadInOrder'
    BY <1>1, <2>1 DEF EndInv, ReadInOrder, Carries, Piece
  <2>3. EndsOnce'
    BY <1>1, <1>5, <1>7, <2>1 DEF EndInv, EndsOnce
  <2>4. EndsAreTruthful'
    BY <1>1, <1>5, <1>7, <2>1 DEF EndInv, EndsAreTruthful, Truthful
  <2> QED
    BY <1>4, <2>1, <2>2, <2>3, <2>4 DEF EndInv
<1> QED
  BY <1>6, <1>7 DEF Relays, Delivers, RelayEnds, readVars

\* A frame shows what it takes from the queue, and an end only after all of it.
LEMMA PaintKeepsEnd ==
  ASSUME TypeOK, EndInv, NEW shown \in BOOLEAN, Paint(shown)
  PROVE  EndInv'
<1> DEFINE n == Pumped
           m == IF EndIsPumped THEN n - 1 ELSE n
           rest == SubSeq(queue, n + 1, Len(queue))
<1>1. /\ UNCHANGED <<kind, peer, sent, code, wire, reader, death, source, relay>>
      /\ queue' = rest /\ screen' = screen \o Output /\ exit' = Exit
  BY DEF Paint, readVars
<1>2. /\ queue \in Seq(Events) /\ source \in Seq(Events) /\ screen \in Seq(1 .. MaxOutput)
      /\ Len(screen) \in Nat /\ Count(queue) \in Nat /\ Count(source) \in Nat
      /\ Relayed = Len(screen) + Count(queue) /\ Read = Relayed + Count(source)
      /\ Len(queue) \in Nat
  BY EndTypes, Counts DEF Relayed, Read
<1>3. /\ screen = [k \in 1 .. Len(screen) |-> k] /\ Continues(queue, Len(screen))
      /\ Continues(source, Relayed)
  BY DEF EndInv, DeliveredInOrder
<1>4. n \in 0 .. Len(queue) /\ (n = 0 <=> queue = <<>>)
  BY PumpedIs
<1>5. EndIsPumped => n \in 1 .. Len(queue) /\ queue[n].type = "Closed"
  BY <1>4 DEF EndIsPumped, Ends
<1>6. ~EndIsPumped /\ n > 0 => queue[n].type # "Closed"
  BY DEF EndIsPumped, Ends
<1>7. Output = [k \in 1 .. m |-> queue[k].n]
  BY DEF Output
<1> HIDE DEF n, m, rest
\* What is left, either way.
<1>8. EndIsPumped => /\ Ended(queue) /\ n = Len(queue) /\ m = Count(queue) /\ exit' = Last(queue)
                     /\ rest = <<>>
  <2> SUFFICES ASSUME EndIsPumped
               PROVE  /\ Ended(queue) /\ n = Len(queue) /\ m = Count(queue) /\ exit' = Last(queue)
                      /\ rest = <<>>
    OBVIOUS
  <2>1. Ended(queue) /\ n = Len(queue) /\ Count(queue) = n - 1
    BY <1>2, <1>3, <1>5, EndIsLast
  <2>2. rest = <<>>
    BY <1>2, <2>1 DEF rest
  <2>3. exit' = Last(queue)
    BY <1>1, <2>1 DEF Exit, Last, n
  <2> QED
    BY <2>1, <2>2, <2>3 DEF m
<1>9. ~EndIsPumped => n <= Count(queue) /\ m = n /\ exit' = exit
  <2> SUFFICES ASSUME ~EndIsPumped PROVE n <= Count(queue) /\ m = n /\ exit' = exit
    OBVIOUS
  <2>1. n <= Count(queue)
    <3>1. CASE n = 0
      BY <1>2, <3>1
    <3>2. CASE n > 0
      BY <1>2, <1>3, <1>4, <1>6, <3>2, EndIsLast, SMTT(30)
    <3> QED
      BY <1>4, <3>1, <3>2
  <2>2. exit' = exit
    BY <1>1 DEF Exit
  <2> QED
    BY <2>1, <2>2 DEF m
<1>10. m \in 0 .. Count(queue)
  BY <1>2, <1>4, <1>8, <1>9
<1>11. /\ rest \in Seq(Events) /\ Count(rest) = Count(queue) - m /\ Continues(rest, Len(screen) + m)
       /\ Ended(rest) => ~EndIsPumped /\ Ended(queue) /\ Last(rest) = Last(queue)
  <2>1. CASE EndIsPumped
    <3>1. rest \in Seq(Events) /\ rest = <<>>
      BY <1>8, <2>1
    <3>2. Count(rest) = 0 /\ ~Ended(rest)
      BY <3>1, Counts
    <3> QED
      BY <1>2, <1>8, <2>1, <3>1, <3>2 DEF Continues
  <2>2. CASE ~EndIsPumped
    <3>1. n \in 0 .. Count(queue) /\ m = n
      BY <1>2, <1>4, <1>9, <2>2
    <3>2. /\ rest \in Seq(Events) /\ Count(rest) = Count(queue) - n
          /\ Continues(rest, Len(screen) + n)
          /\ Ended(rest) <=> Ended(queue)
          /\ Ended(queue) => Last(rest) = Last(queue)
      BY <1>2, <1>3, <3>1, OutputLeaves DEF rest
    <3> QED
      BY <2>2, <3>1, <3>2
  <2> QED
    BY <2>1, <2>2
\* What is shown.
<1>12. Len(screen') = Len(screen) + m /\ screen' = [k \in 1 .. Len(screen') |-> k]
  <2>1. \A k \in 1 .. m : queue[k].n = Len(screen) + k
    <3> TAKE k \in 1 .. m
    <3>1. k \in 1 .. Count(queue)
      BY <1>2, <1>10
    <3>2. queue[k] = Piece(Len(screen) + k)
      BY <1>3, <3>1 DEF Continues
    <3> QED
      BY <3>2, Fields
  <2>2. Output \in Seq(1 .. MaxOutput) /\ Len(Output) = m /\ \A k \in 1 .. m : Output[k] = Len(screen) + k
    <3>1. Output \in Seq(1 .. MaxOutput)
      BY OutputType
    <3> QED
      BY <1>2, <1>7, <1>10, <2>1, <3>1
  <2> DEFINE s == screen
             t == screen \o Output
  <2>3. /\ t \in Seq(1 .. MaxOutput) /\ Len(t) = Len(s) + m
        /\ \A k \in 1 .. Len(s) : t[k] = s[k]
        /\ \A k \in 1 .. m : t[Len(s) + k] = Output[k]
    <3>1. /\ t \in Seq(1 .. MaxOutput) /\ Len(t) = Len(s) + Len(Output)
          /\ \A k \in 1 .. Len(s) : t[k] = s[k]
          /\ \A k \in 1 .. Len(Output) : t[Len(s) + k] = Output[k]
      <4>1. screen \in Seq(1 .. MaxOutput) /\ Output \in Seq(1 .. MaxOutput)
        BY <1>2, <2>2
      <4> QED
        BY <4>1, ConcatElements
    <3> HIDE DEF s, t
    <3> QED
      BY <2>2, <3>1
  <2>4. m \in Nat /\ Len(s) \in Nat /\ \A k \in 1 .. Len(s) : s[k] = k
    BY <1>2, <1>3, <1>10
  <2>5. \A k \in 1 .. m : t[Len(s) + k] = Len(s) + k
    BY <2>2, <2>3
  <2> HIDE DEF s, t
  <2>6. \A k \in 1 .. Len(s) + m : t[k] = k
    <3> TAKE k \in 1 .. Len(s) + m
    <3>1. CASE k <= Len(s)
      BY <2>3, <2>4, <3>1
    <3>2. CASE k > Len(s)
      <4> DEFINE r == k - Len(s)
      <4>1. r \in 1 .. m /\ k = Len(s) + r
        BY <2>4, <3>2
      <4> HIDE DEF r
      <4> QED
        BY <2>5, <4>1
    <3> QED
      BY <2>4, <3>1, <3>2
  <2>7. t = [k \in 1 .. Len(t) |-> k]
    BY <2>3, <2>4, <2>6
  <2> QED
    BY <1>1, <2>3, <2>7 DEF s, t
<1>13. Relayed' = Relayed /\ Read' = Read /\ Ended(queue)' = Ended(rest) /\ Ended(source)' = Ended(source)
  <2>1. Count(queue)' = Count(rest) /\ Count(source)' = Count(source)
    BY <1>1 DEF Count, Ended
  <2>2. Relayed' = Relayed
    BY <1>2, <1>10, <1>11, <1>12, <2>1 DEF Relayed
  <2>3. Read' = Read
    BY <2>1, <2>2 DEF Read
  <2>4. Ended(queue)' = Ended(rest) /\ Ended(source)' = Ended(source)
    BY <1>1 DEF Ended
  <2> QED
    BY <2>2, <2>3, <2>4
<1>14. DeliveredInOrder'
  <2>1. Continues(queue, Len(screen))' = Continues(rest, Len(screen) + m)
    BY <1>1, <1>12 DEF Continues, Count, Ended, Piece
  <2>2. Continues(source, Relayed)' = Continues(source, Relayed)
    BY <1>1, <1>13 DEF Continues, Count, Ended, Piece
  <2> QED
    BY <1>3, <1>11, <1>12, <2>1, <2>2 DEF DeliveredInOrder
<1>15. ReadInOrder'
  BY <1>1, <1>13 DEF EndInv, ReadInOrder, Carries, Piece
<1>16. NoExit' = NoExit
  BY DEF NoExit, Closed
<1>17. EndsOnce'
  <2>1. EndsOnce
    BY DEF EndInv
  <2>2. CASE EndIsPumped
    <3>1. Ended(queue) /\ rest = <<>> /\ ~Ended(rest)
      BY <1>8, <1>11, <2>2
    <3> QED
      BY <1>1, <1>13, <2>1, <3>1 DEF EndsOnce
  <2>3. CASE ~EndIsPumped
    <3>1. exit' = exit /\ (Ended(rest) => Ended(queue))
      BY <1>9, <1>11, <2>3
    <3>2. exit # NoExit => rest = <<>>
      <4>1. queue = <<>> => rest = <<>>
        BY <1>4 DEF rest
      <4> QED
        BY <2>1, <4>1 DEF EndsOnce
    <3> QED
      BY <1>1, <1>13, <1>16, <2>1, <3>1, <3>2 DEF EndsOnce
  <2> QED
    BY <2>2, <2>3
<1>18. EndsByKind'
  BY <1>1 DEF EndInv, EndsByKind
<1>19. EndsAreTruthful'
  <2>1. EndsAreTruthful
    BY DEF EndInv
  <2>2. Ended(source)' => Truthful(source[Len(source)])'
    BY <1>1, <1>13, <2>1 DEF EndsAreTruthful, Truthful
  <2>3. Ended(queue)' => Truthful(queue[Len(queue)])'
    <3>1. Ended(rest) => Truthful(Last(rest))
      BY <1>11, <2>1 DEF EndsAreTruthful, Last
    <3>2. queue'[Len(queue')] = Last(rest)
      BY <1>1 DEF Last
    <3> QED
      BY <1>1, <1>13, <3>1, <3>2 DEF Truthful
  <2>4. (exit # NoExit)' => Truthful(exit)'
    <3>1. CASE EndIsPumped
      <4>1. exit' = queue[Len(queue)] /\ Truthful(queue[Len(queue)])
        BY <1>8, <2>1, <3>1 DEF EndsAreTruthful, Last
      <4> QED
        BY <1>1, <4>1 DEF Truthful
    <3>2. CASE ~EndIsPumped
      BY <1>1, <1>9, <1>16, <2>1, <3>2 DEF EndsAreTruthful, Truthful
    <3> QED
      BY <3>1, <3>2
  <2> QED
    BY <2>2, <2>3, <2>4 DEF EndsAreTruthful
<1> QED
  BY <1>14, <1>15, <1>17, <1>18, <1>19 DEF EndInv

LEMMA EndStep ==
  ASSUME TypeOK, [Next]_vars, tab = "open", tab' = "open", WriterFollows, EndInv
  PROVE  EndInv'
<1>1. CASE UNCHANGED vars \/ \E to \in Sizes : ResizeWindow(to)
  BY <1>1, EndStutters DEF vars, ResizeWindow, peerVars, readVars, relayVars, tabVars
<1>2. CASE Writes
  \* A writer takes a shutdown only from a tab that was closed.
  <2>1. UNCHANGED <<peer, wire>>
    <3>1. commands \in Seq(Commands) /\ commands # <<>>
      BY <1>2 DEF Writes, TypeOK, WriteTypeOK
    <3>2. Head(commands) = commands[1] /\ 1 \in DOMAIN commands
      BY <3>1, TailElements
    <3>3. Head(commands).type # "Shutdown"
      BY <3>2 DEF WriterFollows
    <3> QED
      BY <1>2, <3>3 DEF Writes
  <2> QED
    BY <1>2, <2>1, EndStutters DEF Writes, relayVars, tabVars
<1>3. CASE SerialStops \/ Dropped \/ CloseTab
  BY <1>3 DEF SerialStops, Stops, Dropped, CloseTab
<1> QED
  BY <1>1, <1>2, <1>3, PeerKeepsEnd, DisconnectKeepsEnd, ReadsKeepsEnd, ReportsKeepsEnd,
     RelayKeepsEnd, PaintKeepsEnd DEF Next

------------------------------------------------------------------------------
(* Always                                                                  *)

LEMMA InitInv == Init => IInv
<1> SUFFICES ASSUME Init PROVE IInv
  OBVIOUS
<1>1. tab = "open"
  BY DEF Init
<1> QED
  BY <1>1, InitType, EndInit, SizeInit, AnswersInit DEF IInv

LEMMA NextInv == IInv /\ [Next]_vars => IInv'
<1> SUFFICES ASSUME IInv, [Next]_vars PROVE IInv'
  OBVIOUS
<1>1. TypeOK /\ TypeOK'
  BY NextType DEF IInv
<1>2. tab' = "open" => tab = "open"
  BY DEF Next, vars, tabVars, PeerWrites, PeerLost, Disconnected, PeerExits, SerialStops, Reads,
         Reports, Writes, Dropped, Relays, RelayEnds, Paint, ResizeWindow, CloseTab
<1>3. ASSUME tab' = "open"
      PROVE  EndInv' /\ WriterFollows' /\ SizeIsOnItsWay' /\ AnswersAreWritten'
  <2>1. tab = "open" /\ EndInv /\ WriterFollows /\ SizeIsOnItsWay /\ AnswersAreWritten
    BY <1>2, <1>3 DEF IInv
  <2> QED
    BY <1>1, <1>3, <2>1, EndStep, SizeStep, AnswersStep
<1>4. ASSUME tab' = "closed"
      PROVE  exit' = NoExit'
  <2>1. NoExit' = NoExit
    BY DEF NoExit, Closed
  <2>2. CASE tab = "closed"
    <3>1. exit = NoExit
      BY <2>2 DEF IInv
    <3>2. exit' = exit
      BY <2>2 DEF Next, vars, tabVars, PeerWrites, PeerLost, Disconnected, PeerExits, SerialStops,
             Reads, Reports, Writes, Dropped, Relays, RelayEnds, Paint, ResizeWindow, CloseTab
    <3> QED
      BY <2>1, <3>1, <3>2
  <2>3. CASE tab = "open"
    <3>1. CloseTab
      BY <1>4, <2>3 DEF Next, vars, tabVars, PeerWrites, PeerLost, Disconnected, PeerExits,
             SerialStops, Reads, Reports, Writes, Dropped, Relays, RelayEnds, Paint, ResizeWindow
    <3> QED
      BY <2>1, <3>1 DEF CloseTab
  <2> QED
    BY <1>1, <2>2, <2>3 DEF TypeOK, TabTypeOK
<1> QED
  BY <1>1, <1>3, <1>4 DEF IInv

THEOREM TerminalInvariance == Spec => []IInv
<1>1. Init => IInv
  BY InitInv
<1>2. IInv /\ [Next]_vars => IInv'
  BY NextInv
<1> QED
  BY <1>1, <1>2, PTL DEF Spec

\* A tab that says its session ended shows everything the session said, in
\* order, and says how it ended: however the readers, the relay and the frames
\* take turns (Reads, Reports, Delivers, Paint).
THEOREM EndIsTold == Spec => []EndIsTruthful
<1>1. IInv => EndIsTruthful
  <2> SUFFICES ASSUME IInv, exit # NoExit
               PROVE  /\ screen = [n \in 1 .. sent |-> n]
                      /\ peer = "lost" => exit.message
                      /\ peer = "exited" /\ death = "no" => ~exit.message
                      /\ kind = "pty" => exit.code = code
    BY DEF EndIsTruthful
  <2>1. TypeOK /\ tab = "open" /\ EndInv
    BY DEF IInv, TypeOK, TabTypeOK
  <2>2. queue = <<>> /\ source = <<>> /\ reader = "done"
    BY <2>1 DEF EndInv, EndsOnce
  <2>3. Count(queue) = 0 /\ Count(source) = 0
    BY <2>1, <2>2, EndTypes, Counts
  <2>4. Read = Len(screen)
    BY <2>1, <2>3, EndTypes DEF Read, Relayed
  <2>5. screen = [n \in 1 .. sent |-> n]
    BY <2>1, <2>2, <2>4 DEF EndInv, DeliveredInOrder, ReadInOrder
  <2>6. Truthful(exit)
    BY <2>1 DEF EndInv, EndsAreTruthful
  <2> QED
    BY <2>5, <2>6 DEF Truthful
<1> QED
  BY <1>1, TerminalInvariance, PTL

\* Whatever the peer asked is answered, once and in the order of asking, by a
\* tab whose frames, writer and peer take turns as they like (Answers, Writes).
THEOREM EveryQuestionIsAnsweredOnce == Spec => []AnsweredOnce
<1>1. IInv => AnsweredOnce
  <2> SUFFICES ASSUME IInv, tab = "open"
               PROVE  /\ IsPrefix(Written, Answering(screen))
                      /\ peer = "up" => Written = Answering(screen)
    BY DEF AnsweredOnce
  <2>1. WriterFollows /\ AnswersAreWritten /\ writer \in {"running", "done"}
    BY DEF IInv, TypeOK, WriteTypeOK
  <2> QED
    BY <2>1 DEF WriterFollows, AnswersAreWritten
<1> QED
  BY <1>1, TerminalInvariance, PTL

\* Once nothing is on its way, the peer has the size the tab was last drawn at
\* (Resized, Asked, Writes).
THEOREM SizeArrives == Spec => []SizeReachesPeer
<1>1. IInv => SizeReachesPeer
  <2> SUFFICES ASSUME IInv, tab = "open", peer = "up", kind # "serial", commands = <<>>,
                      kind = "ssh" => told
               PROVE  peerSize = grid
    BY DEF SizeReachesPeer
  <2>1. SizeIsOnItsWay /\ kind \in {"pty", "ssh", "serial"}
    BY DEF IInv, TypeOK, PeerTypeOK
  <2>2. Resizes(commands) = {}
    BY DEF Resizes
  <2> QED
    BY <2>1, <2>2 DEF SizeIsOnItsWay, WillHave
<1> QED
  BY <1>1, TerminalInvariance, PTL
==============================================================================
