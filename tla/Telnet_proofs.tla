---------------------------- MODULE Telnet_proofs ----------------------------
(***************************************************************************)
(* One telnet connection: for every set of options, every number of        *)
(* requests, resizes and cuts of the stream, both ends come to agree, the  *)
(* terminal gets what was sent, and the end is reported.                   *)
(*                                                                         *)
(* The order of the argument: what a recursion over a chunk comes to, so   *)
(* that reading does not depend on where a stream is cut and a parse can   *)
(* be carried on (Receive), resized (Resized) and matched with what the    *)
(* server said (Spoken); what the last word about an option is, along all  *)
(* the places a message waits in; what a server's move does to the         *)
(* agreement about one option; then one lemma for each step.               *)
(***************************************************************************)
EXTENDS TelnetSession, WellFoundedInduction, TLAPS

------------------------------------------------------------------------------
(* Numbers and sequences                                                   *)

\* A set of naturals with an element has a least one, and, where it is bounded, a
\* greatest.
LEMMA Least ==
  ASSUME NEW S \in SUBSET Nat, S # {}
  PROVE  \E n \in S : \A k \in S : n <= k
<1>1. PICK n \in S : \A k \in S : ~(<<k, n>> \in OpToRel(<, Nat))
  BY NatLessThanWellFounded, WFMin
<1>2. \A k \in S : ~(k < n)
  BY <1>1 DEF OpToRel
<1> QED
  BY <1>2

LEMMA Greatest ==
  ASSUME NEW m \in Nat, NEW S \in SUBSET (1 .. m), S # {}
  PROVE  \E n \in S : \A k \in S : k <= n
<1> DEFINE R == {m - n : n \in S}
<1>1. R \in SUBSET Nat /\ R # {}
  <2>1. \A n \in 1 .. m : m - n \in Nat
    OBVIOUS
  <2> QED
    BY <2>1
<1>2. PICK r \in R : \A k \in R : r <= k
  BY <1>1, Least
<1>3. PICK n \in S : r = m - n
  OBVIOUS
<1>4. \A k \in S : m - n <= m - k
  BY <1>2, <1>3
<1> QED
  BY <1>3, <1>4

\* What holds of 0 and goes on from each number to the next reaches n.
LEMMA Reaches ==
  ASSUME NEW n \in Nat, NEW S, 0 \in S, \A i \in 0 .. n - 1 : i \in S => i + 1 \in S
  PROVE  \A i \in 0 .. n : i \in S
<1> DEFINE T == {i \in 0 .. n : i \notin S}
<1> SUFFICES ASSUME T # {} PROVE FALSE
  OBVIOUS
<1>1. PICK i \in T : \A k \in T : i <= k
  BY Least, T \in SUBSET Nat
<1>2. i - 1 \in 0 .. n - 1 /\ i - 1 \in S
  BY <1>1
<1> QED
  BY <1>1, <1>2

\* What is where in s \o t, and in a tail.
LEMMA ConcatElements ==
  ASSUME NEW S, NEW s \in Seq(S), NEW t \in Seq(S)
  PROVE  /\ s \o t \in Seq(S) /\ Len(s \o t) = Len(s) + Len(t)
         /\ \A n \in 1 .. Len(s) : (s \o t)[n] = s[n]
         /\ \A n \in 1 .. Len(t) : (s \o t)[Len(s) + n] = t[n]
OBVIOUS

LEMMA TailElements ==
  ASSUME NEW S, NEW s \in Seq(S), s # <<>>
  PROVE  /\ Tail(s) \in Seq(S) /\ Len(Tail(s)) = Len(s) - 1 /\ Len(s) > 0
         /\ \A n \in 1 .. Len(s) - 1 : Tail(s)[n] = s[n + 1]
         /\ Head(s) = s[1] /\ Head(s) \in S
OBVIOUS

\* Sequences that agree in length and elements are one.
LEMMA SameSequence ==
  ASSUME NEW S, NEW s \in Seq(S), NEW t \in Seq(S), Len(s) = Len(t),
         \A n \in 1 .. Len(s) : s[n] = t[n]
  PROVE  s = t
OBVIOUS

\* Concatenation is associative, and nothing adds nothing.
LEMMA ConcatLaws ==
  ASSUME NEW S, NEW s \in Seq(S), NEW t \in Seq(S), NEW u \in Seq(S)
  PROVE  /\ (s \o t) \o u = s \o (t \o u)
         /\ s \o <<>> = s /\ <<>> \o s = s
<1>1. (s \o t) \o u = s \o (t \o u)
  <2>1. /\ (s \o t) \o u \in Seq(S) /\ s \o (t \o u) \in Seq(S)
        /\ Len((s \o t) \o u) = Len(s \o (t \o u))
    OBVIOUS
  <2>2. \A n \in 1 .. Len((s \o t) \o u) : ((s \o t) \o u)[n] = (s \o (t \o u))[n]
    OBVIOUS
  <2> QED
    BY <2>1, <2>2, SameSequence
<1>2. s \o <<>> = s /\ <<>> \o s = s
  OBVIOUS
<1> QED
  BY <1>1, <1>2

\* The same of \o with its meaning put aside, for the steps that need no more.
Joined(s, t) == s \o t

LEMMA JoinedAssoc ==
  ASSUME NEW S, NEW s \in Seq(S), NEW t \in Seq(S), NEW u \in Seq(S)
  PROVE  Joined(Joined(s, t), u) = Joined(s, Joined(t, u))
BY ConcatLaws DEF Joined

LEMMA Words ==
  ASSUME NEW S, NEW a \in S, NEW b \in S
  PROVE  <<a>> \o <<b>> = <<a, b>> /\ <<a, b>> \in Seq(S) /\ \A c \in S : <<a, b>> \o <<c>> = <<a, b, c>>
<1>1. <<a>> \o <<b>> = <<a, b>> /\ <<a, b>> \in Seq(S)
  <2> DEFINE x == <<a>> \o <<b>>
             y == <<a, b>>
  <2>1. x \in Seq(S) /\ y \in Seq(S) /\ Len(x) = 2 /\ Len(y) = 2
    OBVIOUS
  <2>2. x[1] = a /\ x[2] = b /\ y[1] = a /\ y[2] = b
    OBVIOUS
  <2> HIDE DEF x, y
  <2>3. \A n \in 1 .. Len(x) : n = 1 \/ n = 2
    BY <2>1
  <2>4. x = y
    BY <2>1, <2>2, <2>3, SameSequence
  <2> QED
    BY <2>1, <2>4 DEF x, y
<1>2. ASSUME NEW c \in S PROVE <<a, b>> \o <<c>> = <<a, b, c>>
  <2> DEFINE x == <<a, b>> \o <<c>>
             y == <<a, b, c>>
  <2>1. x \in Seq(S) /\ y \in Seq(S) /\ Len(x) = 3 /\ Len(y) = 3
    OBVIOUS
  <2>2. x[1] = a /\ x[2] = b /\ x[3] = c /\ y[1] = a /\ y[2] = b /\ y[3] = c
    OBVIOUS
  <2> HIDE DEF x, y
  <2>3. \A n \in 1 .. Len(x) : n = 1 \/ n = 2 \/ n = 3
    BY <2>1
  <2>4. x = y
    BY <2>1, <2>2, <2>3, SameSequence
  <2> QED
    BY <2>4 DEF x, y
<1> QED
  BY <1>1, <1>2

LEMMA ThreeWords ==
  ASSUME NEW S, NEW a \in S, NEW b \in S, NEW c \in S
  PROVE  (<<a>> \o <<b>>) \o <<c>> = <<a, b, c>>
<1>1. <<a>> \o <<b>> = <<a, b>> /\ <<a, b>> \o <<c>> = <<a, b, c>>
  BY Words
<1> QED
  BY <1>1

------------------------------------------------------------------------------
(* The last word                                                           *)

\* The last word is one that is there, with none after it, or none is.
LEMMA FinalIs ==
  ASSUME NEW W, NEW words \in Seq(W)
  PROVE  \/ (\A k \in 1 .. Len(words) : words[k] = "none") /\ Final(words) = "none"
         \/ \E k \in 1 .. Len(words) : /\ words[k] # "none" /\ Final(words) = words[k]
                                       /\ \A j \in 1 .. Len(words) : j > k => words[j] = "none"
<1> DEFINE said == {k \in DOMAIN words : words[k] # "none"}
<1>1. said \in SUBSET (1 .. Len(words)) /\ Len(words) \in Nat
  OBVIOUS
<1>2. CASE said = {}
  BY <1>2 DEF Final
<1>3. CASE said # {}
  <2>1. \E k \in said : \A j \in said : j <= k
    BY <1>1, <1>3, Greatest
  <2>2. PICK k \in said : k = (CHOOSE j \in said : \A i \in said : i <= j) /\ \A j \in said : j <= k
    BY <2>1
  <2>3. Final(words) = words[k]
    BY <1>3, <2>2 DEF Final
  <2>4. \A j \in 1 .. Len(words) : j > k => words[j] = "none"
    BY <2>2
  <2> QED
    BY <2>2, <2>3, <2>4
<1> QED
  BY <1>2, <1>3

\* The last word of two lists is that of the second, if it has one.
LEMMA FinalConcat ==
  ASSUME NEW W, NEW u \in Seq(W), NEW w \in Seq(W)
  PROVE  Final(u \o w) = Later(Final(u), Final(w))
<1>1. /\ u \o w \in Seq(W) /\ Len(u \o w) = Len(u) + Len(w) /\ Len(u) \in Nat /\ Len(w) \in Nat
      /\ \A n \in 1 .. Len(u) : (u \o w)[n] = u[n]
      /\ \A n \in 1 .. Len(w) : (u \o w)[Len(u) + n] = w[n]
  BY ConcatElements
<1>2. \A n \in 1 .. Len(u \o w) : n \in 1 .. Len(u) \/ (n - Len(u) \in 1 .. Len(w) /\ (u \o w)[n] = w[n - Len(u)])
  BY <1>1
<1>3. CASE \E k \in 1 .. Len(w) : /\ w[k] # "none" /\ Final(w) = w[k]
                                  /\ \A j \in 1 .. Len(w) : j > k => w[j] = "none"
  <2>1. PICK k \in 1 .. Len(w) : /\ w[k] # "none" /\ Final(w) = w[k]
                                  /\ \A j \in 1 .. Len(w) : j > k => w[j] = "none"
    BY <1>3
  <2>2. Len(u) + k \in 1 .. Len(u \o w) /\ (u \o w)[Len(u) + k] = w[k]
    BY <1>1
  <2>3. \A n \in 1 .. Len(u \o w) : n > Len(u) + k => (u \o w)[n] = "none"
    BY <1>1, <1>2, <2>1
  <2>4. PICK m \in 1 .. Len(u \o w) : /\ (u \o w)[m] # "none" /\ Final(u \o w) = (u \o w)[m]
                                   /\ \A j \in 1 .. Len(u \o w) : j > m => (u \o w)[j] = "none"
    BY <1>1, <2>1, <2>2, FinalIs
  <2>5. ~(m > Len(u) + k)
    BY <2>3, <2>4
  <2>6. ~(Len(u) + k > m)
    BY <2>1, <2>2, <2>4
  <2>7. m \in Nat /\ Len(u) + k \in Nat
    BY <1>1, <2>2
  <2>8. m = Len(u) + k
    BY <2>5, <2>6, <2>7
  <2> QED
    BY <2>1, <2>2, <2>4, <2>8 DEF Later
<1>4. CASE (\A k \in 1 .. Len(w) : w[k] = "none") /\ Final(w) = "none"
  <2>1. \A n \in 1 .. Len(u \o w) : n \notin 1 .. Len(u) => (u \o w)[n] = "none"
    BY <1>2, <1>4
  <2>2. CASE (\A k \in 1 .. Len(u) : u[k] = "none") /\ Final(u) = "none"
    <3>1. \A n \in 1 .. Len(u \o w) : (u \o w)[n] = "none"
      BY <1>1, <2>1, <2>2
    <3>2. Final(u \o w) = "none"
      BY <1>1, <3>1, FinalIs
    <3> QED
      BY <1>4, <2>2, <3>2 DEF Later
  <2>3. CASE \E k \in 1 .. Len(u) : /\ u[k] # "none" /\ Final(u) = u[k]
                                    /\ \A j \in 1 .. Len(u) : j > k => u[j] = "none"
    <3>1. PICK k \in 1 .. Len(u) : /\ u[k] # "none" /\ Final(u) = u[k]
                                    /\ \A j \in 1 .. Len(u) : j > k => u[j] = "none"
      BY <2>3
    <3>2. k \in 1 .. Len(u \o w) /\ (u \o w)[k] = u[k]
      BY <1>1
    <3>3. \A n \in 1 .. Len(u \o w) : n > k => (u \o w)[n] = "none"
      BY <1>1, <2>1, <3>1
    <3>4. PICK m \in 1 .. Len(u \o w) : /\ (u \o w)[m] # "none" /\ Final(u \o w) = (u \o w)[m]
                                   /\ \A j \in 1 .. Len(u \o w) : j > m => (u \o w)[j] = "none"
      BY <1>1, <3>1, <3>2, FinalIs
    <3>5. m = k
      BY <1>1, <3>1, <3>2, <3>3, <3>4
    <3> QED
      BY <1>4, <3>1, <3>2, <3>4, <3>5 DEF Later
  <2> QED
    BY <2>2, <2>3, FinalIs
<1> QED
  BY <1>3, <1>4, FinalIs

LEMMA FinalOfFew ==
  /\ Final(<<>>) = "none"
  /\ \A x : Final(<<x>>) = x
<1>1. Final(<<>>) = "none"
  BY DEF Final
<1>2. ASSUME NEW x PROVE Final(<<x>>) = x
  <2>1. <<x>> \in Seq({x}) /\ Len(<<x>>) = 1 /\ <<x>>[1] = x /\ 1 .. 1 = {1}
    OBVIOUS
  <2>2. CASE x = "none"
    BY <2>1, <2>2, FinalIs
  <2>3. CASE x # "none"
    BY <2>1, <2>3, FinalIs
  <2> QED
    BY <2>2, <2>3
<1> QED
  BY <1>1, <1>2

\* What is made of each element of s \o t is what is made of s's, then of t's.
Mapped(f, s) == [k \in DOMAIN s |-> f[s[k]]]

LEMMA MapConcat ==
  ASSUME NEW S, NEW f, NEW s \in Seq(S), NEW t \in Seq(S)
  PROVE  Mapped(f, s \o t) = Mapped(f, s) \o Mapped(f, t)
<1> DEFINE W == {f[m] : m \in S}
           st == s \o t
           all == Mapped(f, st)
           left == Mapped(f, s)
           right == Mapped(f, t)
           both == left \o right
<1>1. /\ st \in Seq(S) /\ Len(st) = Len(s) + Len(t)
      /\ \A n \in 1 .. Len(s) : st[n] = s[n]
      /\ \A n \in 1 .. Len(t) : st[Len(s) + n] = t[n]
  BY ConcatElements
<1> HIDE DEF st
<1>2. all \in Seq(W) /\ Len(all) = Len(st) /\ \A n \in 1 .. Len(st) : all[n] = f[st[n]]
  BY <1>1 DEF Mapped
<1>3. left \in Seq(W) /\ Len(left) = Len(s) /\ \A n \in 1 .. Len(s) : left[n] = f[s[n]]
  BY DEF Mapped
<1>4. right \in Seq(W) /\ Len(right) = Len(t) /\ \A n \in 1 .. Len(t) : right[n] = f[t[n]]
  BY DEF Mapped
<1> HIDE DEF all, left, right, W
<1>9. left \in Seq(W) /\ right \in Seq(W)
  BY <1>3, <1>4
<1>5. /\ both \in Seq(W) /\ Len(both) = Len(left) + Len(right)
      /\ \A n \in 1 .. Len(left) : both[n] = left[n]
      /\ \A n \in 1 .. Len(right) : both[Len(left) + n] = right[n]
  BY ONLY <1>9, ConcatElements
<1> HIDE DEF both
<1>6. Len(s) \in Nat /\ Len(t) \in Nat
  OBVIOUS
<1>7. ASSUME NEW n \in 1 .. Len(all) PROVE all[n] = both[n]
  <2>1. CASE n <= Len(s)
    <3>1. n \in 1 .. Len(s) /\ n \in 1 .. Len(st) /\ n \in 1 .. Len(left)
      BY <1>1, <1>2, <1>3, <1>6, <2>1
    <3>2. all[n] = f[st[n]] /\ st[n] = s[n]
      BY <1>1, <1>2, <3>1
    <3>3. both[n] = left[n] /\ left[n] = f[s[n]]
      BY <1>3, <1>5, <3>1
    <3> QED
      BY <3>2, <3>3
  <2>2. CASE n > Len(s)
    <3>1. PICK m \in 1 .. Len(t) : n = Len(s) + m
      <4>1. n - Len(s) \in 1 .. Len(t) /\ n = Len(s) + (n - Len(s))
        BY <1>1, <1>2, <1>6, <2>2
      <4> QED
        BY <4>1
    <3>2. st[n] = t[m]
      BY <1>1, <3>1
    <3>3. both[n] = right[m]
      BY <1>3, <1>4, <1>5, <3>1
    <3>4. all[n] = f[st[n]] /\ right[m] = f[t[m]]
      BY <1>2, <1>4, <3>1
    <3> QED
      BY <3>2, <3>3, <3>4
  <2> QED
    BY <1>1, <1>2, <1>6, <2>1, <2>2
<1>8. all = both
  BY <1>1, <1>2, <1>3, <1>4, <1>5, <1>7, SameSequence
<1> QED
  BY <1>8 DEF all, both, left, right, st

\* What a list says of an option.
LEMMA LastSaidConcat ==
  ASSUME NEW S, NEW s \in Seq(S), NEW t \in Seq(S), NEW o, NEW verbs
  PROVE  LastSaid(s \o t, o, verbs) = Later(LastSaid(s, o, verbs), LastSaid(t, o, verbs))
<1> DEFINE W == {Word(m, o, verbs) : m \in S}
           f == [m \in S |-> Word(m, o, verbs)]
           words(list) == [k \in DOMAIN list |-> Word(list[k], o, verbs)]
<1>1. words(s) \in Seq(W) /\ words(t) \in Seq(W) /\ s \o t \in Seq(S)
  BY ConcatElements
<1>2. words(s \o t) = words(s) \o words(t)
  <2>2. \A list \in Seq(S) : words(list) = Mapped(f, list)
    BY DEF Mapped
  <2>3. Mapped(f, s \o t) = Mapped(f, s) \o Mapped(f, t)
    <3> HIDE DEF f
    <3> QED
      BY MapConcat
  <2> HIDE DEF words, f
  <2> QED
    BY <1>1, <2>2, <2>3
<1>3. Final(words(s) \o words(t)) = Later(Final(words(s)), Final(words(t)))
  BY <1>1, FinalConcat
<1> QED
  BY <1>2, <1>3 DEF LastSaid

LEMMA LastSaidFew ==
  ASSUME NEW o, NEW verbs
  PROVE  /\ LastSaid(<<>>, o, verbs) = "none"
         /\ \A m : LastSaid(<<m>>, o, verbs) = Word(m, o, verbs)
<1>1. [k \in DOMAIN <<>> |-> Word(<<>>[k], o, verbs)] = <<>>
  OBVIOUS
<1>2. \A m : [k \in DOMAIN <<m>> |-> Word(<<m>>[k], o, verbs)] = <<Word(m, o, verbs)>>
  OBVIOUS
<1> QED
  BY <1>1, <1>2, FinalOfFew DEF LastSaid

LEMMA LastSaidTail ==
  ASSUME NEW S, NEW s \in Seq(S), s # <<>>, NEW o, NEW verbs
  PROVE  LastSaid(s, o, verbs) = Later(Word(Head(s), o, verbs), LastSaid(Tail(s), o, verbs))
<1> DEFINE first == <<Head(s)>>
           rest == Tail(s)
<1>1. s = first \o rest /\ first \in Seq(S) /\ rest \in Seq(S)
  OBVIOUS
<1>3. LastSaid(first, o, verbs) = Word(Head(s), o, verbs)
  BY LastSaidFew
<1> HIDE DEF first, rest
<1>2. LastSaid(first \o rest, o, verbs) = Later(LastSaid(first, o, verbs), LastSaid(rest, o, verbs))
  BY <1>1, LastSaidConcat
<1> QED
  BY <1>1, <1>2, <1>3 DEF rest

\* What of an option is queued.
LEMMA LastQueuedConcat ==
  ASSUME NEW s \in Seq(Commands), NEW t \in Seq(Commands), NEW o, NEW verbs
  PROVE  LastQueued(s \o t, o, verbs) = Later(LastQueued(s, o, verbs), LastQueued(t, o, verbs))
<1> DEFINE W == {Queued(c, o, verbs) : c \in Commands}
           f == [c \in Commands |-> Queued(c, o, verbs)]
           words(list) == [k \in DOMAIN list |-> Queued(list[k], o, verbs)]
<1>1. words(s) \in Seq(W) /\ words(t) \in Seq(W) /\ s \o t \in Seq(Commands)
  BY ConcatElements
<1>2. words(s \o t) = words(s) \o words(t)
  <2>2. \A list \in Seq(Commands) : words(list) = Mapped(f, list)
    BY DEF Mapped
  <2>3. Mapped(f, s \o t) = Mapped(f, s) \o Mapped(f, t)
    <3> HIDE DEF f
    <3> QED
      BY MapConcat
  <2> HIDE DEF words, f
  <2> QED
    BY <1>1, <2>2, <2>3
<1>3. Final(words(s) \o words(t)) = Later(Final(words(s)), Final(words(t)))
  BY <1>1, FinalConcat
<1> QED
  BY <1>2, <1>3 DEF LastQueued

LEMMA LastQueuedOne ==
  ASSUME NEW c, NEW o, NEW verbs
  PROVE  LastQueued(<<c>>, o, verbs) = Queued(c, o, verbs)
<1>1. [k \in DOMAIN <<c>> |-> Queued(<<c>>[k], o, verbs)] = <<Queued(c, o, verbs)>>
  OBVIOUS
<1> QED
  BY <1>1, FinalOfFew DEF LastQueued

LEMMA LastQueuedAfter ==
  ASSUME NEW s \in Seq(Commands), NEW o, NEW verbs
  PROVE  /\ \A c \in Commands :
              LastQueued(Append(s, c), o, verbs) = Later(LastQueued(s, o, verbs), Queued(c, o, verbs))
         /\ s # <<>> => LastQueued(s, o, verbs)
                          = Later(Queued(Head(s), o, verbs), LastQueued(Tail(s), o, verbs))
<1>1. ASSUME NEW c \in Commands
      PROVE  LastQueued(Append(s, c), o, verbs) = Later(LastQueued(s, o, verbs), Queued(c, o, verbs))
  <2> DEFINE one == <<c>>
  <2>1. Append(s, c) = s \o one /\ one \in Seq(Commands)
    OBVIOUS
  <2>2. LastQueued(one, o, verbs) = Queued(c, o, verbs)
    BY LastQueuedOne
  <2> HIDE DEF one
  <2>3. LastQueued(s \o one, o, verbs) = Later(LastQueued(s, o, verbs), LastQueued(one, o, verbs))
    BY <2>1, LastQueuedConcat
  <2> QED
    BY <2>1, <2>2, <2>3
<1>2. ASSUME s # <<>>
      PROVE  LastQueued(s, o, verbs) = Later(Queued(Head(s), o, verbs), LastQueued(Tail(s), o, verbs))
  <2> DEFINE one == <<Head(s)>>
             rest == Tail(s)
  <2>1. s = one \o rest /\ one \in Seq(Commands) /\ rest \in Seq(Commands)
    BY <1>2
  <2>2. LastQueued(one, o, verbs) = Queued(Head(s), o, verbs)
    BY LastQueuedOne
  <2> HIDE DEF one, rest
  <2>3. LastQueued(one \o rest, o, verbs) = Later(LastQueued(one, o, verbs), LastQueued(rest, o, verbs))
    BY <2>1, LastQueuedConcat
  <2> QED
    BY <2>1, <2>2, <2>3 DEF rest
<1> QED
  BY <1>1, <1>2

------------------------------------------------------------------------------
(* Recursion over a sequence                                               *)

\* There is what goes through a sequence and takes each element in turn, ...
Runs(f, op, a, s, n) == f[0] = a /\ \A i \in 1 .. n : f[i] = op[<<f[i - 1], s[i]>>]

\* A function defined by what it does at 0 and from one element to the next
\* exists: the choices of its beginnings agree, so their union is one.
LEMMA Recursion ==
  ASSUME NEW A, NEW X, NEW op \in [A \X X -> A], NEW a \in A, NEW s \in Seq(X)
  PROVE  \E f \in [0 .. Len(s) -> A] :
           Runs(f, op, a, s, Len(s))
<1> DEFINE T == {n \in 0 .. Len(s) : \E f \in [0 .. n -> A] : Runs(f, op, a, s, n)}
<1>1. 0 \in T
  <2> DEFINE f == [i \in 0 .. 0 |-> a]
  <2>1. f \in [0 .. 0 -> A] /\ Runs(f, op, a, s, 0) /\ 0 \in 0 .. Len(s)
    BY DEF Runs
  <2> QED
    BY <2>1
<1>2. ASSUME NEW n \in 0 .. Len(s) - 1, n \in T PROVE n + 1 \in T
  <2>1. PICK f \in [0 .. n -> A] : Runs(f, op, a, s, n)
    BY <1>2
  <2> DEFINE g == [i \in 0 .. n + 1 |-> IF i = n + 1 THEN op[<<f[n], s[n + 1]>>] ELSE f[i]]
  <2>2. s[n + 1] \in X /\ n \in Nat /\ n \in 0 .. n
    OBVIOUS
  <2>3. op[<<f[n], s[n + 1]>>] \in A
    BY <2>2
  <2>4. g \in [0 .. n + 1 -> A]
    BY <2>2, <2>3
  <2>5. g[0] = a
    BY <2>1, <2>2 DEF Runs
  <2>6. ASSUME NEW i \in 1 .. n + 1 PROVE g[i] = op[<<g[i - 1], s[i]>>]
    <3>1. CASE i = n + 1
      <4>1. g[n + 1] = op[<<f[n], s[n + 1]>>] /\ g[n] = f[n] /\ (n + 1) - 1 = n
        BY <2>2
      <4> HIDE DEF g
      <4> QED
        BY <3>1, <4>1
    <3>2. CASE i # n + 1
      <4>1. i \in 1 .. n /\ i - 1 \in 0 .. n /\ i \in 0 .. n + 1 /\ i - 1 \in 0 .. n + 1 /\ i - 1 # n + 1
        BY <2>2, <3>2
      <4>2. g[i] = f[i] /\ g[i - 1] = f[i - 1]
        BY <3>2, <4>1
      <4>3. f[i] = op[<<f[i - 1], s[i]>>]
        BY <2>1, <4>1 DEF Runs
      <4> QED
        BY <4>2, <4>3
    <3> QED
      BY <3>1, <3>2
  <2> HIDE DEF g
  <2>7. Runs(g, op, a, s, n + 1) /\ n + 1 \in 0 .. Len(s)
    BY <2>2, <2>5, <2>6 DEF Runs
  <2> QED
    BY <2>4, <2>7
<1> HIDE DEF T
<1>3. \A n \in 0 .. Len(s) : n \in T
  BY <1>1, <1>2, Reaches, Len(s) \in Nat
<1>4. Len(s) \in T
  BY <1>3, Len(s) \in 0 .. Len(s)
<1> QED
  BY <1>4 DEF T

\* ... and only one that does so.
LEMMA RecursionIsUnique ==
  ASSUME NEW op, NEW a, NEW s, NEW n \in Nat, NEW f, NEW g,
         Runs(f, op, a, s, n), Runs(g, op, a, s, n)
  PROVE  \A i \in 0 .. n : f[i] = g[i]
<1> DEFINE T == {i \in 0 .. n : f[i] = g[i]}
<1>1. 0 \in T
  BY DEF Runs
<1>2. ASSUME NEW i \in 0 .. n - 1, i \in T PROVE i + 1 \in T
  <2>1. i + 1 \in 1 .. n /\ (i + 1) - 1 = i /\ i + 1 \in 0 .. n
    OBVIOUS
  <2>2. f[i + 1] = op[<<f[i], s[i + 1]>>] /\ g[i + 1] = op[<<g[i], s[i + 1]>>]
    BY <2>1 DEF Runs
  <2> QED
    BY <1>2, <2>1, <2>2
<1> HIDE DEF T
<1>3. \A i \in 0 .. n : i \in T
  BY <1>1, <1>2, Reaches
<1> QED
  BY <1>3 DEF T

------------------------------------------------------------------------------
(* Sequences of sequences, put together                                    *)

\* FlattenSeq is such a function, whatever CHOOSE takes inside it, so that one
\* more list adds to the end of what was put together.
LEMMA FlattenIs ==
  ASSUME NEW S, NEW s \in Seq(Seq(S)), s # <<>>
  PROVE  \E f \in [0 .. Len(s) -> Seq(S)] :
           /\ f[0] = <<>> /\ \A i \in 1 .. Len(s) : f[i] = f[i - 1] \o s[i]
           /\ FlattenSeq(s) = f[Len(s)]
<1> DEFINE A == Seq(S)
           op == [p \in A \X A |-> p[1] \o p[2]]
           body(h) == [i \in 1 .. Len(s) |-> IF i = 1 THEN s[i] ELSE h[i - 1] \o s[i]]
           chosen == CHOOSE h : h = body(h)
<1>1. op \in [A \X A -> A] /\ <<>> \in A /\ s \in Seq(A)
  OBVIOUS
<1>a. \A x, y \in A : op[<<x, y>>] = x \o y
  OBVIOUS
<1> DEFINE none == <<>>
<1>n. none \in A
  OBVIOUS
<1> HIDE DEF op, A, none
<1>2. PICK f \in [0 .. Len(s) -> A] :
        Runs(f, op, none, s, Len(s))
  BY <1>1, <1>n, Recursion
<1>3. \A i \in 1 .. Len(s) : f[i - 1] \in A /\ s[i] \in A /\ f[i] = f[i - 1] \o s[i]
  <2> TAKE i \in 1 .. Len(s)
  <2>1. i - 1 \in 0 .. Len(s) /\ s[i] \in A
    BY <1>1
  <2> QED
    BY <1>a, <1>2, <2>1 DEF Runs
<1>4. Len(s) \in Nat \ {0}
  OBVIOUS
<1>b. \A x \in A : none \o x = x
  BY DEF A, none
<1>c. f[1] = s[1]
  <2>1. 1 \in 1 .. Len(s) /\ 1 - 1 = 0
    BY <1>4
  <2>2. f[1] = f[1 - 1] \o s[1] /\ s[1] \in A
    BY <1>3, <2>1
  <2>3. f[0] = none
    BY <1>2 DEF Runs
  <2> QED
    BY <1>b, <2>1, <2>2, <2>3
<1> DEFINE g == [i \in 1 .. Len(s) |-> f[i]]
<1>5. g = body(g)
  <2>1. ASSUME NEW i \in 1 .. Len(s) PROVE f[i] = IF i = 1 THEN s[i] ELSE g[i - 1] \o s[i]
    <3>1. CASE i = 1
      BY <1>c, <3>1
    <3>2. CASE i # 1
      <4>1. i - 1 \in 1 .. Len(s)
        BY <1>4, <3>2
      <4>2. g[i - 1] = f[i - 1]
        BY <4>1
      <4>3. f[i] = f[i - 1] \o s[i]
        BY <1>3
      <4> QED
        BY <3>2, <4>2, <4>3
    <3> QED
      BY <3>1, <3>2
  <2> QED
    BY <2>1
<1>6. chosen = body(chosen)
  BY <1>5
<1>7. FlattenSeq(s) = chosen[Len(s)]
  BY <1>4 DEF FlattenSeq
<1> HIDE DEF chosen
<1>8. \A i \in 1 .. Len(s) : chosen[i] = IF i = 1 THEN s[i] ELSE chosen[i - 1] \o s[i]
  BY <1>6
<1> DEFINE T == {i \in 0 .. Len(s) : i = 0 \/ chosen[i] = f[i]}
<1>9. 0 \in T
  BY <1>4
<1>10. ASSUME NEW i \in 0 .. Len(s) - 1, i \in T PROVE i + 1 \in T
  <2>1. i + 1 \in 1 .. Len(s) /\ (i + 1) - 1 = i /\ i + 1 \in 0 .. Len(s)
    BY <1>4
  <2>2. f[i + 1] = f[i] \o s[i + 1] /\ s[i + 1] \in A
    BY <1>3, <2>1
  <2>3. CASE i = 0
    <3>1. chosen[1] = s[1] /\ i + 1 = 1
      BY <1>4, <1>8, <2>1, <2>3
    <3> QED
      BY <1>c, <2>1, <3>1
  <2>4. CASE i # 0
    <3>1. i + 1 # 1 /\ chosen[i] = f[i]
      BY <1>10, <2>4
    <3>2. chosen[i + 1] = chosen[i] \o s[i + 1]
      BY <1>8, <2>1, <3>1
    <3> QED
      BY <2>1, <2>2, <3>1, <3>2
  <2> QED
    BY <2>3, <2>4
<1> HIDE DEF T
<1>11. \A i \in 0 .. Len(s) : i \in T
  BY <1>4, <1>9, <1>10, Reaches
<1>12. chosen[Len(s)] = f[Len(s)]
  BY <1>4, <1>11 DEF T
<1> QED
  BY <1>2, <1>3, <1>7, <1>12 DEF A, none, Runs

LEMMA FlattenAppend ==
  ASSUME NEW S, NEW s \in Seq(Seq(S))
  PROVE  /\ FlattenSeq(<<>>) = <<>> /\ FlattenSeq(s) \in Seq(S)
         /\ \A x \in Seq(S) : FlattenSeq(Append(s, x)) = FlattenSeq(s) \o x
<1> DEFINE A == Seq(S)
           none == <<>>
<1>a. none \in A /\ \A x \in A : none \o x = x
  OBVIOUS
<1>1. FlattenSeq(<<>>) = none
  BY DEF FlattenSeq
<1>b. s \in Seq(A) /\ Len(s) \in Nat /\ (Len(s) = 0 <=> s = <<>>)
  OBVIOUS
<1>f. \A q \in Seq(A) : q # <<>> =>
        \E f \in [0 .. Len(q) -> A] :
           /\ f[0] = none /\ \A i \in 1 .. Len(q) : f[i] = f[i - 1] \o q[i]
           /\ FlattenSeq(q) = f[Len(q)]
  BY FlattenIs
<1> HIDE DEF A, none
<1>2. PICK f \in [0 .. Len(s) -> A] :
           /\ f[0] = none /\ \A i \in 1 .. Len(s) : f[i] = f[i - 1] \o s[i]
           /\ FlattenSeq(s) = f[Len(s)]
  <2>1. CASE s = <<>>
    <3> DEFINE f == [i \in 0 .. 0 |-> none]
    <3>1. f \in [0 .. 0 -> A] /\ f[0] = none /\ FlattenSeq(s) = f[0] /\ Len(s) = 0
      BY <1>1, <1>a, <1>b, <2>1
    <3> HIDE DEF f
    <3> QED
      BY <3>1
  <2>2. CASE s # <<>>
    BY <1>b, <1>f, <2>2
  <2> QED
    BY <2>1, <2>2
<1>3. FlattenSeq(s) \in A
  BY <1>2, <1>b, Len(s) \in 0 .. Len(s)
<1>4. ASSUME NEW x \in A PROVE FlattenSeq(Append(s, x)) = FlattenSeq(s) \o x
  <2> DEFINE longer == Append(s, x)
  <2>1. /\ longer \in Seq(A) /\ longer # <<>> /\ Len(longer) = Len(s) + 1 /\ Len(s) \in Nat
        /\ longer[Len(s) + 1] = x /\ \A i \in 1 .. Len(s) : longer[i] = s[i]
    BY <1>b
  <2> HIDE DEF longer
  <2>2. PICK g \in [0 .. Len(longer) -> A] :
          /\ g[0] = none /\ \A i \in 1 .. Len(longer) : g[i] = g[i - 1] \o longer[i]
          /\ FlattenSeq(longer) = g[Len(longer)]
    BY <1>f, <2>1
  <2>3. FlattenSeq(longer) = g[Len(s)] \o x
    <3>1. Len(s) + 1 \in 1 .. Len(longer) /\ (Len(s) + 1) - 1 = Len(s)
      BY <2>1
    <3>2. g[Len(s) + 1] = g[Len(s)] \o longer[Len(s) + 1]
      BY <2>2, <3>1
    <3> QED
      BY <2>1, <2>2, <3>2
  <2> DEFINE T == {i \in 0 .. Len(s) : f[i] = g[i]}
  <2>4. 0 \in T
    BY <1>2, <2>1, <2>2
  <2>5. ASSUME NEW i \in 0 .. Len(s) - 1, i \in T PROVE i + 1 \in T
    <3>1. /\ i + 1 \in 1 .. Len(s) /\ i + 1 \in 1 .. Len(longer) /\ (i + 1) - 1 = i
          /\ i + 1 \in 0 .. Len(s)
      BY <2>1
    <3>2. f[i + 1] = f[i] \o s[i + 1]
      BY <1>2, <3>1
    <3>3. g[i + 1] = g[i] \o longer[i + 1] /\ longer[i + 1] = s[i + 1]
      BY <2>1, <2>2, <3>1
    <3> QED
      BY <2>5, <3>1, <3>2, <3>3
  <2> HIDE DEF T
  <2>6. \A i \in 0 .. Len(s) : i \in T
    BY <2>1, <2>4, <2>5, Reaches
  <2>7. f[Len(s)] = g[Len(s)]
    BY <2>1, <2>6 DEF T
  <2> QED
    BY <1>2, <2>3, <2>7 DEF longer
<1> QED
  BY <1>1, <1>3, <1>4 DEF A, none

------------------------------------------------------------------------------
(* Reading: what a byte does, and what a chunk does                        *)

Parses == [telnet : Telnets, data : Seq(Bytes), reply : Seq(Talk(Bytes))]

\* Short lists.
LEMMA FewOf ==
  ASSUME NEW T
  PROVE  /\ <<>> \in Seq(T) /\ \A x \in T : <<x>> \in Seq(T) /\ <<x>> \o <<>> \in Seq(T)
         /\ \A x, y \in T : <<x>> \o <<y>> \in Seq(T)
OBVIOUS

\* An answer is a state of the parser and messages about the option asked of.
LEMMA AnswerType ==
  ASSUME NEW t \in Telnets, NEW o \in Bytes
  PROVE  Answer(t, o).telnet \in Telnets /\ Answer(t, o).reply \in Seq(Talk(Bytes))
<1> DEFINE T == Talk(Bytes)
<1>1. /\ o \in WE_MAY_ENABLE => Say("WILL", o) \in T
      /\ o \in THEY_MAY_ENABLE => Say("DO", o) \in T
      /\ Say("WONT", o) \in T /\ Say("DONT", o) \in T
  BY DEF Talk, Say
<1>2. SizeIs(t.size) \in T
  BY DEF Talk, SizeIs, Telnets
<1>3. /\ "DO" \in Verbs /\ "WILL" \in Verbs /\ "DONT" \in Verbs /\ "WONT" \in Verbs
      /\ t.command \in Verbs
  BY DEF Verbs, Telnets
<1> HIDE DEF T
<1>4. OnDo(t, o).telnet \in Telnets /\ OnDo(t, o).reply \in Seq(T)
  <2>1. OnDo(t, o).telnet \in Telnets
    BY DEF OnDo, Telnets
  <2>2. OnDo(t, o).reply \in Seq(T)
    BY <1>1, <1>2, <1>3, FewOf DEF OnDo
  <2> QED
    BY <2>1, <2>2
<1>5. OnWill(t, o).telnet \in Telnets /\ OnWill(t, o).reply \in Seq(T)
  <2>1. OnWill(t, o).telnet \in Telnets
    BY DEF OnWill, Telnets
  <2>2. OnWill(t, o).reply \in Seq(T)
    BY <1>1, <1>3, FewOf DEF OnWill
  <2> QED
    BY <2>1, <2>2
<1>6. OnDont(t, o).telnet \in Telnets /\ OnDont(t, o).reply \in Seq(T)
  <2>1. OnDont(t, o).telnet \in Telnets
    BY DEF OnDont, Telnets
  <2>2. OnDont(t, o).reply \in Seq(T)
    BY <1>1, <1>3, FewOf DEF OnDont
  <2> QED
    BY <2>1, <2>2
<1>7. OnWont(t, o).telnet \in Telnets /\ OnWont(t, o).reply \in Seq(T)
  <2>1. OnWont(t, o).telnet \in Telnets
    BY DEF OnWont, Telnets
  <2>2. OnWont(t, o).reply \in Seq(T)
    BY <1>1, <1>3, FewOf DEF OnWont
  <2> QED
    BY <2>1, <2>2
<1> QED
  BY <1>3, <1>4, <1>5, <1>6, <1>7 DEF Answer, Verbs, T

\* What a byte makes of the parser, whatever was agreed.
Parser == {"Data", "Iac", "Option", "Sub", "SubIac"}
Payloads == {s \in Seq(Bytes) : Len(s) <= SUBNEGOTIATION_LIMIT}
Moved(t, state, command, payload) ==
  [t EXCEPT !.state = state, !.command = command, !.subnegotiation = payload]
Remarks == {<<>>, <<TerminalIs>>, <<HereIAm>>}
Yields(t, d, r) == [telnet |-> t, data |-> d, reply |-> r]
Alike(t, u) ==
  t.state = u.state /\ t.command = u.command /\ t.subnegotiation = u.subnegotiation

LEMMA KeptType ==
  ASSUME NEW g \in Payloads, NEW b \in Bytes
  PROVE  Kept(g, b) \in Payloads
BY LimitAssumption DEF Kept, Payloads

\* Outside an option, a byte moves the parser by its state alone: what was
\* agreed neither matters nor changes.
LEMMA OnByteElsewhere ==
  ASSUME NEW t \in Telnets, NEW b \in Bytes, t.state # "Option"
  PROVE  \E s \in Parser, c \in Verbs, g \in Payloads, d \in Seq(Bytes),
            r \in Remarks :
           \A u \in Telnets : Alike(u, t) => OnByte(u, b) = Yields(Moved(u, s, c, g), d, r)
<1> DEFINE B == Bytes
           c == t.command
           g == t.subnegotiation
           Goal(s, c2, g2, d, r) ==
             \A u \in Telnets : Alike(u, t) => OnByte(u, b) = Yields(Moved(u, s, c2, g2), d, r)
<1>1. /\ t.state \in {"Data", "Iac", "Sub", "SubIac"} /\ c \in Verbs /\ g \in Payloads
      /\ b \in B /\ "IAC" \in B
      /\ <<>> \in Payloads /\ <<>> \in Seq(B) /\ \A x \in B : <<x>> \in Seq(B)
      /\ Kept(g, b) \in Payloads /\ Kept(g, "IAC") \in Payloads
      /\ SubnegotiationReply(g) \in Remarks /\ <<>> \in Remarks /\ <<HereIAm>> \in Remarks /\ "Data" \in Parser /\ "Iac" \in Parser
      /\ "Option" \in Parser /\ "Sub" \in Parser /\ "SubIac" \in Parser
  BY LimitAssumption, KeptType DEF Telnets, Payloads, Bytes, Parser, SubnegotiationReply, Remarks
<1>2. ASSUME NEW u \in Telnets, Alike(u, t)
      PROVE  u.state = t.state /\ u.command = c /\ u.subnegotiation = g
  BY <1>2 DEF Alike
<1> HIDE DEF Goal
<1>3. SUFFICES \E s \in Parser, c2 \in Verbs, g2 \in Payloads, d \in Seq(B), r \in Remarks :
                 Goal(s, c2, g2, d, r)
  BY DEF Goal
<1>v. Verbs \cap {"IAC", "SB", "AYT"} = {}
  BY DEF Verbs
<1>4. CASE t.state = "Data" /\ b = "IAC"
  <2>1. ASSUME NEW u \in Telnets, Alike(u, t)
        PROVE  OnByte(u, b) = Yields(Moved(u, "Iac", c, g), <<>>, <<>>)
    <3>1. OnByte(u, b) = Silent([u EXCEPT !.state = "Iac"])
      BY <1>2, <1>4, <2>1 DEF OnByte
    <3>2. [u EXCEPT !.state = "Iac"] = Moved(u, "Iac", c, g)
      BY <1>2, <1>4, <2>1 DEF Moved, Telnets
    <3> QED
      BY <3>1, <3>2, <1>4 DEF Yields, Silent
  <2>2. Goal("Iac", c, g, <<>>, <<>>)
    BY <2>1 DEF Goal
  <2> QED
    BY <1>1, <1>4, <2>2, Zenon
<1>5. CASE t.state = "Data" /\ b # "IAC"
  <2>1. ASSUME NEW u \in Telnets, Alike(u, t)
        PROVE  OnByte(u, b) = Yields(Moved(u, "Data", c, g), <<b>>, <<>>)
    <3>1. OnByte(u, b) = Shows(u, b)
      BY <1>2, <1>5, <2>1 DEF OnByte
    <3>2. u = Moved(u, "Data", c, g)
      BY <1>2, <1>5, <2>1 DEF Moved, Telnets
    <3> QED
      BY <3>1, <3>2, <1>5 DEF Yields, Shows
  <2>2. Goal("Data", c, g, <<b>>, <<>>)
    BY <2>1 DEF Goal
  <2> QED
    BY <1>1, <1>5, <2>2, Zenon
<1>6. CASE t.state = "Iac" /\ b = "IAC"
  <2>1. ASSUME NEW u \in Telnets, Alike(u, t)
        PROVE  OnByte(u, b) = Yields(Moved(u, "Data", c, g), <<"IAC">>, <<>>)
    <3>1. OnByte(u, b) = Shows([u EXCEPT !.state = "Data"], "IAC")
      BY <1>2, <1>6, <2>1, <1>v DEF OnByte
    <3>2. [u EXCEPT !.state = "Data"] = Moved(u, "Data", c, g)
      BY <1>2, <1>6, <2>1 DEF Moved, Telnets
    <3> QED
      BY <3>1, <3>2, <1>6 DEF Yields, Shows
  <2>2. Goal("Data", c, g, <<"IAC">>, <<>>)
    BY <2>1 DEF Goal
  <2> QED
    BY <1>1, <1>6, <2>2, Zenon
<1>7. CASE t.state = "Iac" /\ b \in Verbs
  <2>1. ASSUME NEW u \in Telnets, Alike(u, t)
        PROVE  OnByte(u, b) = Yields(Moved(u, "Option", b, g), <<>>, <<>>)
    <3>1. OnByte(u, b) = Silent([u EXCEPT !.state = "Option", !.command = b])
      BY <1>2, <1>7, <2>1, <1>v DEF OnByte
    <3>2. [u EXCEPT !.state = "Option", !.command = b] = Moved(u, "Option", b, g)
      BY <1>2, <1>7, <2>1 DEF Moved, Telnets
    <3> QED
      BY <3>1, <3>2, <1>7 DEF Yields, Silent
  <2>2. Goal("Option", b, g, <<>>, <<>>)
    BY <2>1 DEF Goal
  <2> QED
    BY <1>1, <1>7, <2>2, Zenon
<1>8. CASE t.state = "Iac" /\ b = "SB"
  <2>1. ASSUME NEW u \in Telnets, Alike(u, t)
        PROVE  OnByte(u, b) = Yields(Moved(u, "Sub", c, <<>>), <<>>, <<>>)
    <3>1. OnByte(u, b) = Silent([u EXCEPT !.state = "Sub", !.subnegotiation = <<>>])
      BY <1>2, <1>8, <2>1, <1>v DEF OnByte
    <3>2. [u EXCEPT !.state = "Sub", !.subnegotiation = <<>>] = Moved(u, "Sub", c, <<>>)
      BY <1>2, <1>8, <2>1 DEF Moved, Telnets
    <3> QED
      BY <3>1, <3>2, <1>8 DEF Yields, Silent
  <2>2. Goal("Sub", c, <<>>, <<>>, <<>>)
    BY <2>1 DEF Goal
  <2> QED
    BY <1>1, <1>8, <2>2, Zenon
<1>9. CASE t.state = "Iac" /\ b = "AYT"
  <2>1. ASSUME NEW u \in Telnets, Alike(u, t)
        PROVE  OnByte(u, b) = Yields(Moved(u, "Data", c, g), <<>>, <<HereIAm>>)
    <3>1. OnByte(u, b) = Replies([u EXCEPT !.state = "Data"], <<HereIAm>>)
      BY <1>2, <1>9, <2>1, <1>v DEF OnByte
    <3>2. [u EXCEPT !.state = "Data"] = Moved(u, "Data", c, g)
      BY <1>2, <1>9, <2>1 DEF Moved, Telnets
    <3> QED
      BY <3>1, <3>2, <1>9 DEF Yields, Replies
  <2>2. Goal("Data", c, g, <<>>, <<HereIAm>>)
    BY <2>1 DEF Goal
  <2> QED
    BY <1>1, <1>9, <2>2, Zenon
<1>10. CASE t.state = "Iac" /\ b \notin Verbs \cup {"IAC", "SB", "AYT"}
  <2>1. ASSUME NEW u \in Telnets, Alike(u, t)
        PROVE  OnByte(u, b) = Yields(Moved(u, "Data", c, g), <<>>, <<>>)
    <3>1. OnByte(u, b) = Silent([u EXCEPT !.state = "Data"])
      BY <1>2, <1>10, <2>1, <1>v DEF OnByte
    <3>2. [u EXCEPT !.state = "Data"] = Moved(u, "Data", c, g)
      BY <1>2, <1>10, <2>1 DEF Moved, Telnets
    <3> QED
      BY <3>1, <3>2, <1>10 DEF Yields, Silent
  <2>2. Goal("Data", c, g, <<>>, <<>>)
    BY <2>1 DEF Goal
  <2> QED
    BY <1>1, <1>10, <2>2, Zenon
<1>11. CASE t.state = "Sub" /\ b = "IAC"
  <2>1. ASSUME NEW u \in Telnets, Alike(u, t)
        PROVE  OnByte(u, b) = Yields(Moved(u, "SubIac", c, g), <<>>, <<>>)
    <3>1. OnByte(u, b) = Silent([u EXCEPT !.state = "SubIac"])
      BY <1>2, <1>11, <2>1 DEF OnByte
    <3>2. [u EXCEPT !.state = "SubIac"] = Moved(u, "SubIac", c, g)
      BY <1>2, <1>11, <2>1 DEF Moved, Telnets
    <3> QED
      BY <3>1, <3>2, <1>11 DEF Yields, Silent
  <2>2. Goal("SubIac", c, g, <<>>, <<>>)
    BY <2>1 DEF Goal
  <2> QED
    BY <1>1, <1>11, <2>2, Zenon
<1>12. CASE t.state = "Sub" /\ b # "IAC"
  <2>1. ASSUME NEW u \in Telnets, Alike(u, t)
        PROVE  OnByte(u, b) = Yields(Moved(u, "Sub", c, Kept(g, b)), <<>>, <<>>)
    <3>1. OnByte(u, b) = Silent([u EXCEPT !.state = "Sub", !.subnegotiation = Kept(g, b)])
      BY <1>2, <1>12, <2>1 DEF OnByte
    <3>2. [u EXCEPT !.state = "Sub", !.subnegotiation = Kept(g, b)] = Moved(u, "Sub", c, Kept(g, b))
      BY <1>2, <1>12, <2>1 DEF Moved, Telnets
    <3> QED
      BY <3>1, <3>2, <1>12 DEF Yields, Silent
  <2>2. Goal("Sub", c, Kept(g, b), <<>>, <<>>)
    BY <2>1 DEF Goal
  <2> QED
    BY <1>1, <1>12, <2>2, Zenon
<1>13. CASE t.state = "SubIac" /\ b = "IAC"
  <2>1. ASSUME NEW u \in Telnets, Alike(u, t)
        PROVE  OnByte(u, b) = Yields(Moved(u, "Sub", c, Kept(g, "IAC")), <<>>, <<>>)
    <3>1. OnByte(u, b) = Silent([u EXCEPT !.state = "Sub", !.subnegotiation = Kept(g, "IAC")])
      BY <1>2, <1>13, <2>1 DEF OnByte
    <3>2. [u EXCEPT !.state = "Sub", !.subnegotiation = Kept(g, "IAC")] = Moved(u, "Sub", c, Kept(g, "IAC"))
      BY <1>2, <1>13, <2>1 DEF Moved, Telnets
    <3> QED
      BY <3>1, <3>2, <1>13 DEF Yields, Silent
  <2>2. Goal("Sub", c, Kept(g, "IAC"), <<>>, <<>>)
    BY <2>1 DEF Goal
  <2> QED
    BY <1>1, <1>13, <2>2, Zenon
<1>14. CASE t.state = "SubIac" /\ b = "SE"
  <2>1. ASSUME NEW u \in Telnets, Alike(u, t)
        PROVE  OnByte(u, b) = Yields(Moved(u, "Data", c, <<>>), <<>>, SubnegotiationReply(g))
    <3>1. OnByte(u, b) = Replies([u EXCEPT !.state = "Data", !.subnegotiation = <<>>], SubnegotiationReply(g))
      BY <1>2, <1>14, <2>1 DEF OnByte
    <3>2. [u EXCEPT !.state = "Data", !.subnegotiation = <<>>] = Moved(u, "Data", c, <<>>)
      BY <1>2, <1>14, <2>1 DEF Moved, Telnets
    <3> QED
      BY <3>1, <3>2, <1>14 DEF Yields, Replies
  <2>2. Goal("Data", c, <<>>, <<>>, SubnegotiationReply(g))
    BY <2>1 DEF Goal
  <2>3. ASSUME NEW r \in Remarks, r = SubnegotiationReply(g) PROVE Goal("Data", c, <<>>, <<>>, r)
    BY <2>2, <2>3
  <2>4. PICK r \in Remarks : Goal("Data", c, <<>>, <<>>, r)
    BY <1>1, <2>3
  <2> QED
    BY <1>1, <2>4, Zenon
<1>15. CASE t.state = "SubIac" /\ b \notin {"IAC", "SE"}
  <2>1. ASSUME NEW u \in Telnets, Alike(u, t)
        PROVE  OnByte(u, b) = Yields(Moved(u, "Data", c, <<>>), <<>>, <<>>)
    <3>1. OnByte(u, b) = Silent([u EXCEPT !.state = "Data", !.subnegotiation = <<>>])
      BY <1>2, <1>15, <2>1 DEF OnByte
    <3>2. [u EXCEPT !.state = "Data", !.subnegotiation = <<>>] = Moved(u, "Data", c, <<>>)
      BY <1>2, <1>15, <2>1 DEF Moved, Telnets
    <3> QED
      BY <3>1, <3>2, <1>15 DEF Yields, Silent
  <2>2. Goal("Data", c, <<>>, <<>>, <<>>)
    BY <2>1 DEF Goal
  <2> QED
    BY <1>1, <1>15, <2>2, Zenon
<1> QED
  BY <1>1, <1>4, <1>5, <1>6, <1>7, <1>8, <1>9, <1>10, <1>11, <1>12, <1>13, <1>14, <1>15

\* In an option, it is answered.
LEMMA OnByteInOption ==
  ASSUME NEW t \in Telnets, NEW b \in Bytes, t.state = "Option"
  PROVE  OnByte(t, b) = Yields([Answer(t, b).telnet EXCEPT !.state = "Data"], <<>>, Answer(t, b).reply)
BY DEF OnByte, Replies, Yields

LEMMA OnByteType ==
  ASSUME NEW t \in Telnets, NEW b \in Bytes
  PROVE  OnByte(t, b) \in Parses
<1> DEFINE B == Bytes
           T == Talk(Bytes)
<1>1. \A x \in Telnets, y \in Seq(B), z \in Seq(T) : Yields(x, y, z) \in Parses
  BY DEF Parses, Yields
<1>2. <<>> \in Seq(B) /\ Remarks \subseteq Seq(T)
  <2>1. TerminalIs \in T /\ HereIAm \in T
    BY DEF Talk
  <2> HIDE DEF T
  <2> QED
    BY <2>1, FewOf DEF Remarks
<1>3. CASE t.state = "Option"
  <2>1. Answer(t, b).telnet \in Telnets /\ Answer(t, b).reply \in Seq(T)
    BY AnswerType
  <2>2. [Answer(t, b).telnet EXCEPT !.state = "Data"] \in Telnets
    BY <2>1 DEF Telnets
  <2> QED
    BY <1>1, <1>2, <1>3, <2>1, <2>2, OnByteInOption
<1>4. CASE t.state # "Option"
  <2>1. PICK s \in Parser, c \in Verbs, g \in Payloads, d \in Seq(Bytes), r \in Remarks :
           \A u \in Telnets : Alike(u, t) => OnByte(u, b) = Yields(Moved(u, s, c, g), d, r)
    BY <1>4, OnByteElsewhere
  <2>2. OnByte(t, b) = Yields(Moved(t, s, c, g), d, r)
    BY <2>1 DEF Alike
  <2>3. Moved(t, s, c, g) \in Telnets
    BY DEF Moved, Telnets, Parser, Payloads
  <2> QED
    BY <1>1, <1>2, <2>2, <2>3
<1> QED
  BY <1>3, <1>4

\* One parse after another: associative, and silence adds nothing.
LEMMA AfterLaws ==
  ASSUME NEW p \in Parses, NEW q \in Parses, NEW r \in Parses
  PROVE  /\ After(p, q) \in Parses /\ After(After(p, q), r) = After(p, After(q, r))
         /\ After(p, Silent(p.telnet)) = p
<1> DEFINE B == Bytes
           T == Talk(Bytes)
           pd == p.data
           qd == q.data
           rd == r.data
           pr == p.reply
           qr == q.reply
           rr == r.reply
<1>1. /\ pd \in Seq(B) /\ qd \in Seq(B) /\ rd \in Seq(B)
      /\ pr \in Seq(T) /\ qr \in Seq(T) /\ rr \in Seq(T)
      /\ q.telnet \in Telnets /\ p = [telnet |-> p.telnet, data |-> pd, reply |-> pr]
  BY DEF Parses
<1>2. /\ After(p, q) = [telnet |-> q.telnet, data |-> pd \o qd, reply |-> pr \o qr]
      /\ After(After(p, q), r)
           = [telnet |-> r.telnet, data |-> (pd \o qd) \o rd, reply |-> (pr \o qr) \o rr]
      /\ After(p, After(q, r))
           = [telnet |-> r.telnet, data |-> pd \o (qd \o rd), reply |-> pr \o (qr \o rr)]
      /\ After(p, Silent(p.telnet))
           = [telnet |-> p.telnet, data |-> pd \o <<>>, reply |-> pr \o <<>>]
  BY DEF After, Silent
<1>3. \A t \in Telnets, d \in Seq(B), m \in Seq(T) : [telnet |-> t, data |-> d, reply |-> m] \in Parses
  BY DEF Parses
<1> HIDE DEF B, T, pd, qd, rd, pr, qr, rr
<1>4. (pd \o qd) \o rd = pd \o (qd \o rd) /\ pd \o <<>> = pd
  <2>1. pd \in Seq(B) /\ qd \in Seq(B) /\ rd \in Seq(B)
    BY <1>1
  <2>2. (pd \o qd) \o rd = pd \o (qd \o rd)
    <3>1. Joined(Joined(pd, qd), rd) = Joined(pd, Joined(qd, rd))
      BY ONLY <2>1, JoinedAssoc
    <3> QED
      BY <3>1 DEF Joined
  <2>3. pd \o <<>> = pd
    BY ONLY <2>1, ConcatLaws, Zenon
  <2> QED
    BY <2>2, <2>3
<1>5. (pr \o qr) \o rr = pr \o (qr \o rr) /\ pr \o <<>> = pr
  <2>1. pr \in Seq(T) /\ qr \in Seq(T) /\ rr \in Seq(T)
    BY <1>1
  <2>2. (pr \o qr) \o rr = pr \o (qr \o rr)
    <3>1. Joined(Joined(pr, qr), rr) = Joined(pr, Joined(qr, rr))
      BY ONLY <2>1, JoinedAssoc
    <3> QED
      BY <3>1 DEF Joined
  <2>3. pr \o <<>> = pr
    BY ONLY <2>1, ConcatLaws, Zenon
  <2> QED
    BY <2>2, <2>3
<1>6. pd \o qd \in Seq(B) /\ pr \o qr \in Seq(T)
  BY <1>1, ConcatElements
<1> QED
  BY <1>1, <1>2, <1>3, <1>4, <1>5, <1>6

\* What is made of a chunk, whatever was made of the stream before it.
Step == [x \in Parses \X Bytes |-> After(x[1], OnByte(x[1].telnet, x[2]))]
Parse(p, c) ==
  CHOOSE q : \E f \in [0 .. Len(c) -> Parses] : Runs(f, Step, p, c, Len(c)) /\ q = f[Len(c)]

LEMMA StepType ==
  /\ Step \in [Parses \X Bytes -> Parses]
  /\ \A p \in Parses, b \in Bytes : Step[<<p, b>>] = After(p, OnByte(p.telnet, b))
<1>1. ASSUME NEW p \in Parses, NEW b \in Bytes PROVE After(p, OnByte(p.telnet, b)) \in Parses
  <2>1. p.telnet \in Telnets
    BY DEF Parses
  <2> QED
    BY <2>1, OnByteType, AfterLaws
<1> QED
  BY <1>1 DEF Step

\* A chunk's parse is what any run over its bytes comes to.
LEMMA ParseIs ==
  ASSUME NEW p \in Parses, NEW c \in Seq(Bytes)
  PROVE  /\ \E f \in [0 .. Len(c) -> Parses] : Runs(f, Step, p, c, Len(c)) /\ Parse(p, c) = f[Len(c)]
         /\ \A f : Runs(f, Step, p, c, Len(c)) => Parse(p, c) = f[Len(c)]
<1> DEFINE Is(q) == \E f \in [0 .. Len(c) -> Parses] : Runs(f, Step, p, c, Len(c)) /\ q = f[Len(c)]
<1>1. \E f \in [0 .. Len(c) -> Parses] : Runs(f, Step, p, c, Len(c))
  BY StepType, Recursion
<1>2. \E q : Is(q)
  BY <1>1
<1>3. Is(CHOOSE q : Is(q))
  BY <1>2
<1>4. Is(Parse(p, c))
  BY <1>3 DEF Parse
<1>5. ASSUME NEW f, Runs(f, Step, p, c, Len(c)) PROVE Parse(p, c) = f[Len(c)]
  <2>1. PICK g \in [0 .. Len(c) -> Parses] : Runs(g, Step, p, c, Len(c)) /\ Parse(p, c) = g[Len(c)]
    BY <1>4
  <2>2. Len(c) \in 0 .. Len(c)
    OBVIOUS
  <2>3. \A i \in 0 .. Len(c) : g[i] = f[i]
    BY <1>5, <2>1, <2>2, RecursionIsUnique
  <2> QED
    BY <2>1, <2>2, <2>3
<1> QED
  BY <1>4, <1>5

LEMMA ParseType ==
  ASSUME NEW p \in Parses, NEW c \in Seq(Bytes)
  PROVE  Parse(p, c) \in Parses
<1>1. PICK f \in [0 .. Len(c) -> Parses] : Runs(f, Step, p, c, Len(c)) /\ Parse(p, c) = f[Len(c)]
  BY ParseIs
<1>2. Len(c) \in 0 .. Len(c)
  OBVIOUS
<1> QED
  BY <1>1, <1>2

\* Parsing is indifferent to where a stream is cut.
LEMMA ParseConcat ==
  ASSUME NEW p \in Parses, NEW c \in Seq(Bytes), NEW d \in Seq(Bytes)
  PROVE  Parse(p, c \o d) = Parse(Parse(p, c), d)
<1> DEFINE both == c \o d
           n == Len(c)
           m == Len(d)
<1>1. /\ both \in Seq(Bytes) /\ Len(both) = n + m /\ n \in Nat /\ m \in Nat
      /\ \A i \in 1 .. n : both[i] = c[i]
      /\ \A i \in 1 .. m : both[n + i] = d[i]
  BY ConcatElements
<1> HIDE DEF both
<1>2. PICK f \in [0 .. Len(both) -> Parses] : Runs(f, Step, p, both, Len(both)) /\ Parse(p, both) = f[Len(both)]
  BY <1>1, ParseIs
<1>3. Runs(f, Step, p, c, n)
  <2>1. \A i \in 1 .. n : i \in 1 .. Len(both)
    BY <1>1
  <2> QED
    BY <1>1, <1>2, <2>1 DEF Runs
<1>4. Parse(p, c) = f[n]
  BY <1>3, ParseIs
<1>5. f[n] \in Parses
  BY <1>1, <1>2, n \in 0 .. Len(both)
<1> DEFINE g == [i \in 0 .. m |-> f[n + i]]
<1>6. Runs(g, Step, f[n], d, m)
  <2>1. g[0] = f[n]
    BY <1>1
  <2>2. ASSUME NEW i \in 1 .. m PROVE g[i] = Step[<<g[i - 1], d[i]>>]
    <3>1. n + i \in 1 .. Len(both) /\ (n + i) - 1 = n + (i - 1) /\ i \in 0 .. m /\ i - 1 \in 0 .. m
      BY <1>1
    <3>2. f[n + i] = Step[<<f[n + (i - 1)], both[n + i]>>]
      BY <1>2, <3>1 DEF Runs
    <3>3. g[i] = f[n + i] /\ g[i - 1] = f[n + (i - 1)]
      BY <3>1
    <3> QED
      BY <1>1, <3>2, <3>3
  <2> HIDE DEF g
  <2> QED
    BY <2>1, <2>2 DEF Runs
<1>7. Parse(f[n], d) = g[m]
  <2> HIDE DEF g
  <2> QED
    BY <1>5, <1>6, ParseIs
<1>8. g[m] = f[Len(both)]
  BY <1>1
<1> QED
  BY <1>2, <1>4, <1>7, <1>8 DEF both

LEMMA ParseFew ==
  ASSUME NEW p \in Parses
  PROVE  /\ Parse(p, <<>>) = p
         /\ \A b \in Bytes : Parse(p, <<b>>) = After(p, OnByte(p.telnet, b))
<1>1. Parse(p, <<>>) = p
  <2> DEFINE c == <<>>
  <2>1. c \in Seq(Bytes) /\ Len(c) = 0
    OBVIOUS
  <2> HIDE DEF c
  <2>2. PICK f \in [0 .. Len(c) -> Parses] : Runs(f, Step, p, c, Len(c)) /\ Parse(p, c) = f[Len(c)]
    BY <2>1, ParseIs
  <2>3. Parse(p, c) = p
    BY <2>1, <2>2 DEF Runs
  <2> QED
    BY <2>3 DEF c
<1>2. ASSUME NEW b \in Bytes PROVE Parse(p, <<b>>) = After(p, OnByte(p.telnet, b))
  <2> DEFINE c == <<b>>
  <2>1. c \in Seq(Bytes) /\ Len(c) = 1 /\ c[1] = b /\ 1 \in 1 .. 1 /\ 1 - 1 = 0
    OBVIOUS
  <2> HIDE DEF c
  <2>2. PICK f \in [0 .. Len(c) -> Parses] : Runs(f, Step, p, c, Len(c)) /\ Parse(p, c) = f[Len(c)]
    BY <2>1, ParseIs
  <2>3. f[0] = p /\ f[1] = Step[<<f[1 - 1], c[1]>>]
    BY <2>1, <2>2 DEF Runs
  <2>4. Parse(p, c) = Step[<<p, b>>]
    BY <2>1, <2>2, <2>3
  <2> QED
    BY <2>4, StepType DEF c
<1> QED
  BY <1>1, <1>2

\* What a byte keeps, a chunk keeps; and what commutes with a byte, with a chunk.
LEMMA ParseKeeps ==
  ASSUME NEW P \in SUBSET Parses, NEW p \in P, NEW c \in Seq(Bytes),
         \A q \in P, b \in Bytes : After(q, OnByte(q.telnet, b)) \in P
  PROVE  Parse(p, c) \in P
<1>1. PICK f \in [0 .. Len(c) -> Parses] : Runs(f, Step, p, c, Len(c)) /\ Parse(p, c) = f[Len(c)]
  BY ParseIs
<1> DEFINE T == {i \in 0 .. Len(c) : f[i] \in P}
<1>2. 0 \in T /\ Len(c) \in Nat
  BY <1>1 DEF Runs
<1>3. ASSUME NEW i \in 0 .. Len(c) - 1, i \in T PROVE i + 1 \in T
  <2>1. i + 1 \in 1 .. Len(c) /\ (i + 1) - 1 = i /\ i + 1 \in 0 .. Len(c) /\ c[i + 1] \in Bytes
    OBVIOUS
  <2>2. f[i + 1] = Step[<<f[i], c[i + 1]>>] /\ f[i] \in P
    BY <1>1, <1>3, <2>1 DEF Runs
  <2>3. f[i + 1] = After(f[i], OnByte(f[i].telnet, c[i + 1]))
    BY <2>1, <2>2, StepType
  <2> QED
    BY <2>1, <2>2, <2>3
<1> HIDE DEF T
<1>4. \A i \in 0 .. Len(c) : i \in T
  BY <1>2, <1>3, Reaches
<1> QED
  BY <1>1, <1>2, <1>4, Len(c) \in 0 .. Len(c) DEF T

\* A change of the parser that every byte respects, every chunk respects.
LEMMA ParseMaps ==
  ASSUME NEW p \in Parses, NEW c \in Seq(Bytes), NEW h \in [Parses -> Parses],
         \A q \in Parses, b \in Bytes : Step[<<h[q], b>>] = h[Step[<<q, b>>]]
  PROVE  Parse(h[p], c) = h[Parse(p, c)]
<1>1. PICK f \in [0 .. Len(c) -> Parses] : Runs(f, Step, p, c, Len(c)) /\ Parse(p, c) = f[Len(c)]
  BY ParseIs
<1> DEFINE g == [i \in 0 .. Len(c) |-> h[f[i]]]
<1>2. Runs(g, Step, h[p], c, Len(c))
  <2>1. g[0] = h[p]
    BY <1>1, 0 \in 0 .. Len(c) DEF Runs
  <2>2. ASSUME NEW i \in 1 .. Len(c) PROVE g[i] = Step[<<g[i - 1], c[i]>>]
    <3>1. i \in 0 .. Len(c) /\ i - 1 \in 0 .. Len(c) /\ c[i] \in Bytes /\ f[i - 1] \in Parses
      OBVIOUS
    <3>2. f[i] = Step[<<f[i - 1], c[i]>>]
      BY <1>1 DEF Runs
    <3>3. g[i] = h[f[i]] /\ g[i - 1] = h[f[i - 1]]
      BY <3>1
    <3> HIDE DEF g
    <3> QED
      BY <3>1, <3>2, <3>3
  <2> HIDE DEF g
  <2> QED
    BY <2>1, <2>2 DEF Runs
<1>3. g[Len(c)] = h[f[Len(c)]]
  BY Len(c) \in 0 .. Len(c)
<1> HIDE DEF g
<1> QED
  BY <1>1, <1>2, <1>3, ParseIs

\* Receive is this parse.
LEMMA ReceiveIs ==
  ASSUME NEW t \in Telnets, NEW c \in Seq(Bytes)
  PROVE  Receive(t, c) = Parse(Silent(t), c)
<1> DEFINE p == Silent(t)
           n == Len(c)
           body(h) == [i \in 0 .. n |-> IF i = 0 THEN Silent(t)
                                        ELSE After(h[i - 1], OnByte(h[i - 1].telnet, c[i]))]
           chosen == CHOOSE h : h = body(h)
<1>1. p \in Parses
  BY DEF Silent, Parses
<1>2. Receive(t, c) = chosen[n]
  BY DEF Receive, CarryOn
<1>3. PICK f \in [0 .. n -> Parses] : Runs(f, Step, p, c, n) /\ Parse(p, c) = f[n]
  BY <1>1, ParseIs
<1>4. n \in Nat /\ \A i \in 1 .. n : i - 1 \in 0 .. n /\ i \in 0 .. n /\ c[i] \in Bytes
  OBVIOUS
<1>5. f = body(f)
  <2>1. ASSUME NEW i \in 0 .. n PROVE f[i] = body(f)[i]
    <3>1. CASE i = 0
      BY <1>3, <3>1 DEF Runs
    <3>2. CASE i # 0
      <4>1. i \in 1 .. n
        BY <3>2
      <4>2. f[i] = Step[<<f[i - 1], c[i]>>] /\ f[i - 1] \in Parses
        BY <1>3, <1>4, <4>1 DEF Runs
      <4>3. f[i] = After(f[i - 1], OnByte(f[i - 1].telnet, c[i]))
        <5>1. f[i - 1] \in Parses /\ c[i] \in Bytes
          BY <1>4, <4>1, <4>2
        <5> QED
          BY ONLY <4>2, <5>1, StepType
      <4> QED
        BY <3>2, <4>3
    <3> QED
      BY <3>1, <3>2
  <2> QED
    BY <2>1
<1>6. chosen = body(chosen)
  BY <1>5
<1> HIDE DEF chosen, p, n
<1> DEFINE T == {i \in 0 .. n : chosen[i] = f[i]}
<1>7. 0 \in T
  BY <1>3, <1>4, <1>6 DEF Runs, p
<1>8. ASSUME NEW i \in 0 .. n - 1, i \in T PROVE i + 1 \in T
  <2>1. i + 1 \in 1 .. n /\ (i + 1) - 1 = i /\ i + 1 \in 0 .. n /\ i + 1 # 0
    BY <1>4
  <2>2. chosen[i + 1] = After(chosen[i], OnByte(chosen[i].telnet, c[i + 1]))
    BY <1>6, <2>1
  <2>3. f[i + 1] = After(f[i], OnByte(f[i].telnet, c[i + 1]))
    BY <1>5, <2>1
  <2> QED
    BY <1>8, <2>1, <2>2, <2>3
<1> HIDE DEF T
<1>9. \A i \in 0 .. n : i \in T
  BY <1>4, <1>7, <1>8, Reaches
<1>10. chosen[n] = f[n]
  BY <1>4, <1>9 DEF T
<1> QED
  BY <1>2, <1>3, <1>10 DEF p

\* What is read of a stream in two chunks is what is read of it in one.
LEMMA ReceiveConcat ==
  ASSUME NEW t \in Telnets, NEW c \in Seq(Bytes), NEW d \in Seq(Bytes)
  PROVE  /\ Receive(t, c) \in Parses
         /\ Receive(t, c \o d) = After(Receive(t, c), Receive(Receive(t, c).telnet, d))
<1> DEFINE p == Receive(t, c)
<1>1. Silent(t) \in Parses
  BY DEF Silent, Parses
<1>2. p = Parse(Silent(t), c) /\ p \in Parses
  BY <1>1, ReceiveIs, ParseType
<1> HIDE DEF p
<1>3. p.telnet \in Telnets
  BY <1>2 DEF Parses
<1> DEFINE s == Silent(p.telnet)
           h == [q \in Parses |-> After(p, q)]
<1>4. s \in Parses
  BY <1>3 DEF Silent, Parses
<1>5. h \in [Parses -> Parses] /\ \A q \in Parses : h[q] = After(p, q)
  BY <1>2, AfterLaws
<1>6. ASSUME NEW q \in Parses, NEW b \in Bytes PROVE Step[<<h[q], b>>] = h[Step[<<q, b>>]]
  <2> DEFINE o == OnByte(q.telnet, b)
  <2>1. o \in Parses
    BY OnByteType DEF Parses
  <2>2. After(p, q).telnet = q.telnet /\ After(p, q) \in Parses /\ After(q, o) \in Parses
    BY <1>2, <2>1, AfterLaws DEF After
  <2>3. Step[<<After(p, q), b>>] = After(After(p, q), o) /\ Step[<<q, b>>] = After(q, o)
    BY <2>2, StepType
  <2>4. After(After(p, q), o) = After(p, After(q, o))
    BY <1>2, <2>1, AfterLaws
  <2> QED
    BY <1>5, <2>2, <2>3, <2>4
<1> HIDE DEF h, s
<1>7. Parse(h[s], d) = h[Parse(s, d)]
  BY <1>4, <1>5, <1>6, ParseMaps
<1>8. h[s] = p
  BY <1>2, <1>4, <1>5, AfterLaws DEF s
<1>9. Parse(s, d) = Receive(p.telnet, d)
  BY <1>3, ReceiveIs DEF s
<1>10. Parse(p, d) = After(p, Receive(p.telnet, d))
  BY <1>4, <1>5, <1>7, <1>8, <1>9, ParseType
<1>11. Receive(t, c \o d) = Parse(Silent(t), c \o d)
  BY ReceiveIs, ConcatElements
<1>12. Parse(Silent(t), c \o d) = Parse(p, d)
  BY <1>1, <1>2, ParseConcat
<1> QED
  BY <1>2, <1>10, <1>11, <1>12 DEF p

LEMMA ReceiveFew ==
  ASSUME NEW t \in Telnets
  PROVE  /\ Receive(t, <<>>) = Silent(t)
         /\ \A b \in Bytes : Receive(t, <<b>>) = OnByte(t, b)
<1>1. Silent(t) \in Parses /\ Silent(t).telnet = t
  BY DEF Silent, Parses
<1>2. <<>> \in Seq(Bytes) /\ \A b \in Bytes : <<b>> \in Seq(Bytes)
  OBVIOUS
<1>3. ASSUME NEW q \in Parses PROVE After(Silent(t), q) = q
  <2> DEFINE d == q.data
             r == q.reply
  <2>1. d \in Seq(Bytes) /\ r \in Seq(Talk(Bytes)) /\ q = [telnet |-> q.telnet, data |-> d, reply |-> r]
    BY DEF Parses
  <2>2. After(Silent(t), q) = [telnet |-> q.telnet, data |-> <<>> \o d, reply |-> <<>> \o r]
    BY DEF After, Silent
  <2> HIDE DEF d, r
  <2>3. <<>> \o d = d /\ <<>> \o r = r
    BY <2>1, ConcatLaws
  <2> QED
    BY <2>1, <2>2, <2>3
<1>4. Receive(t, <<>>) = Silent(t)
  BY <1>1, <1>2, ReceiveIs, ParseFew
<1>5. ASSUME NEW b \in Bytes PROVE Receive(t, <<b>>) = OnByte(t, b)
  <2>1. Receive(t, <<b>>) = Parse(Silent(t), <<b>>)
    BY <1>2, ReceiveIs
  <2>2. Parse(Silent(t), <<b>>) = After(Silent(t), OnByte(t, b))
    BY <1>1, ParseFew
  <2> QED
    BY <1>3, <2>1, <2>2, OnByteType
<1> QED
  BY <1>4, <1>5

\* What is read after what said nothing.
LEMMA ReceiveAfterSilence ==
  ASSUME NEW t \in Telnets, NEW u \in Telnets, NEW c \in Seq(Bytes), NEW d \in Seq(Bytes),
         Receive(t, c) = Silent(u)
  PROVE  c \o d \in Seq(Bytes) /\ Receive(t, c \o d) = Receive(u, d)
<1> DEFINE none == <<>>
           cd == c \o d
           made == After(Silent(u), Receive(u, d))
<1>1. none \in Seq(Bytes) /\ Receive(u, none) = Silent(u) /\ Silent(u).telnet = u
  BY ReceiveFew DEF Silent
<1>4. none \o d = d
  BY ConcatLaws
<1>5. cd \in Seq(Bytes)
  BY ConcatElements
<1> HIDE DEF none
<1>2. Receive(t, cd) = made
  BY <1>1, ReceiveConcat
<1>3. Receive(u, d) = made
  <2>1. Receive(u, none \o d) = made
    BY <1>1, ReceiveConcat
  <2> HIDE DEF made
  <2> QED
    BY <1>4, <2>1
<1> HIDE DEF made, cd
<1>6. cd \in Seq(Bytes) /\ Receive(t, cd) = Receive(u, d)
  BY <1>2, <1>3, <1>5
<1> QED
  BY <1>6 DEF cd

LEMMA ReceiveMore ==
  ASSUME NEW t \in Telnets, NEW u \in Telnets, NEW c \in Seq(Bytes), NEW b \in Bytes,
         Receive(t, c) = Silent(u)
  PROVE  c \o <<b>> \in Seq(Bytes) /\ Receive(t, c \o <<b>>) = OnByte(u, b)
<1> DEFINE one == <<b>>
<1>1. one \in Seq(Bytes) /\ Receive(u, one) = OnByte(u, b)
  BY ReceiveFew
<1> HIDE DEF one
<1>2. c \o one \in Seq(Bytes) /\ Receive(t, c \o one) = Receive(u, one)
  BY <1>1, ReceiveAfterSilence
<1>3. c \o one \in Seq(Bytes) /\ Receive(t, c \o one) = OnByte(u, b)
  BY <1>1, <1>2
<1> QED
  BY <1>3 DEF one

\* A whole command about an option comes to its answer, with the parser back at
\* rest.
LEMMA SpokenIs ==
  ASSUME NEW t \in Telnets, t.state = "Data", NEW verb \in Verbs, NEW o \in Options
  PROVE  LET a == Answer([t EXCEPT !.state = "Option", !.command = verb], o)
         IN  /\ Spoken(verb, o) \in Seq(Bytes)
             /\ Receive(t, Spoken(verb, o)) = Replies([a.telnet EXCEPT !.state = "Data"], a.reply)
<1> DEFINE t1 == [t EXCEPT !.state = "Iac"]
           t2 == [t EXCEPT !.state = "Option", !.command = verb]
           w1 == <<"IAC">>
           w2 == w1 \o <<verb>>
           w3 == w2 \o <<o>>
<1>1. t1 \in Telnets /\ t2 \in Telnets /\ t1.state = "Iac" /\ t2.state = "Option"
  BY DEF Telnets
<1>2. verb \in Bytes /\ o \in Bytes /\ "IAC" \in Bytes /\ verb \notin {"IAC", "SB", "AYT"}
  BY DEF Bytes, Verbs
<1>3. w3 = Spoken(verb, o)
  <2>1. verb \in Bytes /\ o \in Bytes /\ "IAC" \in Bytes
    BY <1>2
  <2>2. w3 = <<"IAC", verb, o>>
    BY ONLY <2>1, ThreeWords
  <2> QED
    BY <2>2 DEF Spoken
<1>4. OnByte(t, "IAC") = Silent(t1)
  BY DEF OnByte
<1>5. OnByte(t1, verb) = Silent(t2)
  <2>1. OnByte(t1, verb) = Silent([t1 EXCEPT !.state = "Option", !.command = verb])
    BY <1>1, <1>2 DEF OnByte
  <2>2. [t1 EXCEPT !.state = "Option", !.command = verb] = t2
    BY DEF Telnets
  <2> QED
    BY <2>1, <2>2
<1>6. OnByte(t2, o) = Replies([Answer(t2, o).telnet EXCEPT !.state = "Data"], Answer(t2, o).reply)
  BY <1>1 DEF OnByte
<1> HIDE DEF t1, t2
<1>7. w1 \in Seq(Bytes) /\ Receive(t, w1) = Silent(t1)
  BY <1>2, <1>4, ReceiveFew
<1> HIDE DEF w1
<1>8. w2 \in Seq(Bytes) /\ Receive(t, w2) = Silent(t2)
  BY <1>1, <1>2, <1>5, <1>7, ReceiveMore
<1> HIDE DEF w2
<1>9. w3 \in Seq(Bytes) /\ Receive(t, w3) = OnByte(t2, o)
  BY <1>1, <1>2, <1>8, ReceiveMore
<1> QED
  BY <1>3, <1>6, <1>9 DEF t2

\* A byte 255 is sent doubled, and shown once.
LEMMA ShownIs ==
  ASSUME NEW t \in Telnets, t.state = "Data"
  PROVE  /\ Receive(t, <<"text">>) = Shows(t, "text") /\ <<"text">> \in Seq(Bytes)
         /\ Receive(t, <<"IAC", "IAC">>) = Shows(t, "IAC") /\ <<"IAC", "IAC">> \in Seq(Bytes)
<1> DEFINE t1 == [t EXCEPT !.state = "Iac"]
           w1 == <<"IAC">>
<1>1. "text" \in Bytes /\ "IAC" \in Bytes
  BY DEF Bytes
<1>2. OnByte(t, "text") = Shows(t, "text") /\ OnByte(t, "IAC") = Silent(t1)
  BY DEF OnByte
<1>3. t1 \in Telnets /\ t1.state = "Iac" /\ [t1 EXCEPT !.state = "Data"] = t
  BY DEF Telnets
<1>4. OnByte(t1, "IAC") = Shows([t1 EXCEPT !.state = "Data"], "IAC")
  BY <1>3 DEF OnByte, Verbs
<1>5. w1 \o <<"IAC">> = <<"IAC", "IAC">>
  BY <1>1, Words
<1> HIDE DEF t1
<1>6. w1 \in Seq(Bytes) /\ Receive(t, w1) = Silent(t1)
  BY <1>1, <1>2, ReceiveFew
<1> HIDE DEF w1
<1>7. w1 \o <<"IAC">> \in Seq(Bytes) /\ Receive(t, w1 \o <<"IAC">>) = OnByte(t1, "IAC")
  BY <1>1, <1>3, <1>6, ReceiveMore
<1>8. <<"text">> \in Seq(Bytes) /\ Receive(t, <<"text">>) = OnByte(t, "text")
  BY <1>1, ReceiveFew
<1> QED
  BY <1>2, <1>3, <1>4, <1>5, <1>7, <1>8

\* A request for the name of the terminal changes nothing that was agreed.
LEMMA RequestIs ==
  ASSUME NEW t \in Telnets, t.state = "Data", "TTYPE" \in Options,
         NEW w, w = Spoken("SB", "TTYPE") \o <<"SEND", "IAC", "SE">>
  PROVE  /\ w \in Seq(Bytes) /\ Receive(t, w).data = <<>> /\ Receive(t, w).reply \in Remarks
         /\ Receive(t, w).telnet = Moved(t, "Data", t.command, <<>>)
<1> DEFINE c == t.command
           g1 == Kept(<<>>, "TTYPE")
           g2 == Kept(g1, "SEND")
           t1 == Moved(t, "Iac", c, t.subnegotiation)
           t2 == Moved(t, "Sub", c, <<>>)
           t3 == Moved(t, "Sub", c, g1)
           t4 == Moved(t, "Sub", c, g2)
           t5 == Moved(t, "SubIac", c, g2)
           t6 == Moved(t, "Data", c, <<>>)
           w1 == <<"IAC">>
           w2 == w1 \o <<"SB">>
           w3 == w2 \o <<"TTYPE">>
           w4 == <<"SEND">>
           w5 == w4 \o <<"IAC">>
           w6 == w5 \o <<"SE">>
<1>1. "IAC" \in Bytes /\ "SB" \in Bytes /\ "TTYPE" \in Bytes /\ "SEND" \in Bytes /\ "SE" \in Bytes
  BY DEF Bytes
<1>2. g1 \in Payloads /\ g2 \in Payloads /\ <<>> \in Payloads
  <2>1. <<>> \in Payloads
    BY LimitAssumption DEF Payloads
  <2> QED
    BY <1>1, <2>1, KeptType
<1> HIDE DEF g1, g2
<1>3. /\ t1 \in Telnets /\ t2 \in Telnets /\ t3 \in Telnets
      /\ t4 \in Telnets /\ t5 \in Telnets /\ t6 \in Telnets
  BY <1>2 DEF Moved, Telnets, Payloads
<1>4. OnByte(t, "IAC") = Silent(t1)
  <2>1. OnByte(t, "IAC") = Silent([t EXCEPT !.state = "Iac"])
    BY DEF OnByte
  <2> QED
    BY <2>1 DEF Moved, Telnets
<1>5. OnByte(t1, "SB") = Silent(t2)
  <2>1. OnByte(t1, "SB") = Silent([t1 EXCEPT !.state = "Sub", !.subnegotiation = <<>>])
    BY DEF OnByte, Moved, Verbs
  <2> QED
    BY <2>1 DEF Moved, Telnets
<1>6. OnByte(t2, "TTYPE") = Silent(t3)
  <2>1. t2.state = "Sub" /\ t2.subnegotiation = <<>>
    BY DEF Moved, Telnets
  <2>2. OnByte(t2, "TTYPE") = Silent([t2 EXCEPT !.state = "Sub", !.subnegotiation = g1])
    BY <2>1 DEF OnByte, g1
  <2> QED
    BY <2>2 DEF Moved, Telnets
<1>7. OnByte(t3, "SEND") = Silent(t4)
  <2>1. t3.state = "Sub" /\ t3.subnegotiation = g1
    BY DEF Moved, Telnets
  <2>2. OnByte(t3, "SEND") = Silent([t3 EXCEPT !.state = "Sub", !.subnegotiation = g2])
    BY <2>1 DEF OnByte, g2
  <2> QED
    BY <2>2 DEF Moved, Telnets
<1>8. OnByte(t4, "IAC") = Silent(t5)
  <2>1. t4.state = "Sub" /\ t4.subnegotiation = g2
    BY DEF Moved, Telnets
  <2>2. OnByte(t4, "IAC") = Silent([t4 EXCEPT !.state = "SubIac"])
    BY <2>1 DEF OnByte
  <2> QED
    BY <2>2 DEF Moved, Telnets
<1>9. OnByte(t5, "SE") = Replies(t6, SubnegotiationReply(g2))
  <2>1. t5.state = "SubIac" /\ t5.subnegotiation = g2
    BY DEF Moved, Telnets
  <2>2. OnByte(t5, "SE")
          = Replies([t5 EXCEPT !.state = "Data", !.subnegotiation = <<>>], SubnegotiationReply(g2))
    BY <2>1 DEF OnByte
  <2>3. [t5 EXCEPT !.state = "Data", !.subnegotiation = <<>>] = t6
    BY DEF Moved, Telnets
  <2> QED
    BY <2>2, <2>3
<1>10. Spoken("SB", "TTYPE") = w3 /\ <<"SEND", "IAC", "SE">> = w6
  BY <1>1, Words DEF Spoken
<1> HIDE DEF t1, t2, t3, t4, t5, t6
<1>11. w1 \in Seq(Bytes) /\ Receive(t, w1) = Silent(t1)
  BY <1>1, <1>4, ReceiveFew
<1> HIDE DEF w1
<1>12. w2 \in Seq(Bytes) /\ Receive(t, w2) = Silent(t2)
  BY <1>1, <1>3, <1>5, <1>11, ReceiveMore
<1> HIDE DEF w2
<1>13. w3 \in Seq(Bytes) /\ Receive(t, w3) = Silent(t3)
  BY <1>1, <1>3, <1>6, <1>12, ReceiveMore
<1> HIDE DEF w3
<1>14. w4 \in Seq(Bytes) /\ Receive(t3, w4) = Silent(t4)
  BY <1>1, <1>3, <1>7, ReceiveFew
<1> HIDE DEF w4
<1>15. w5 \in Seq(Bytes) /\ Receive(t3, w5) = Silent(t5)
  BY <1>1, <1>3, <1>8, <1>14, ReceiveMore
<1> HIDE DEF w5
<1>16. w6 \in Seq(Bytes) /\ Receive(t3, w6) = Replies(t6, SubnegotiationReply(g2))
  BY <1>1, <1>3, <1>9, <1>15, ReceiveMore
<1> HIDE DEF w6
<1>17. SubnegotiationReply(g2) \in Remarks
  BY DEF SubnegotiationReply, Remarks
<1>18. w3 \o w6 \in Seq(Bytes) /\ Receive(t, w3 \o w6) = Receive(t3, w6)
  BY <1>3, <1>13, <1>16, ReceiveAfterSilence
<1> HIDE DEF w3
<1>19. w = w3 \o w6
  BY <1>10
<1>20. w \in Seq(Bytes) /\ Receive(t, w) = Replies(t6, SubnegotiationReply(g2))
  BY <1>16, <1>18, <1>19
<1> QED
  BY <1>17, <1>20 DEF Replies, t6

------------------------------------------------------------------------------
(* Resizing: what is read after it differs in the sizes told                *)

Grown(m, n) == IF m.say = "SIZE" THEN SizeIs(n) ELSE m
Resizes(list, n) == [k \in DOMAIN list |-> Grown(list[k], n)]
Resized(p, n) ==
  [telnet |-> [p.telnet EXCEPT !.size = n], data |-> p.data, reply |-> Resizes(p.reply, n)]

\* A message after a resize: the same one, but for the size in it.
LEMMA GrownType ==
  ASSUME NEW options, NEW m \in Talk(options), NEW n \in Nat \ {0}
  PROVE  /\ Grown(m, n) \in Talk(options)
         /\ \A o, verbs : "SIZE" \notin verbs => Word(Grown(m, n), o, verbs) = Word(m, o, verbs)
BY DEF Grown, Talk, SizeIs, Word

LEMMA ResizesIs ==
  ASSUME NEW options, NEW s \in Seq(Talk(options)), NEW n \in Nat \ {0}
  PROVE  /\ Resizes(s, n) \in Seq(Talk(options)) /\ Len(Resizes(s, n)) = Len(s)
         /\ \A k \in 1 .. Len(s) : Resizes(s, n)[k] = Grown(s[k], n)
<1> DEFINE T == Talk(options)
<1>1. \A k \in 1 .. Len(s) : Grown(s[k], n) \in T
  <2>1. \A k \in 1 .. Len(s) : s[k] \in T
    OBVIOUS
  <2> QED
    BY <2>1, GrownType
<1> HIDE DEF T
<1> DEFINE r == [k \in 1 .. Len(s) |-> Grown(s[k], n)]
<1>2. r \in Seq(T) /\ DOMAIN s = 1 .. Len(s) /\ Len(r) = Len(s)
  BY <1>1
<1> QED
  BY <1>2 DEF Resizes, T

LEMMA ResizesSaid ==
  ASSUME NEW options, NEW a \in Seq(Talk(options)), NEW n \in Nat \ {0},
         NEW o, NEW verbs, "SIZE" \notin verbs
  PROVE  LastSaid(Resizes(a, n), o, verbs) = LastSaid(a, o, verbs)
<1> DEFINE w == [k \in DOMAIN a |-> Word(a[k], o, verbs)]
<1>1. DOMAIN Resizes(a, n) = DOMAIN a /\ \A k \in DOMAIN a : a[k] \in Talk(options)
  BY DEF Resizes
<1>2. \A k \in DOMAIN a : Word(Resizes(a, n)[k], o, verbs) = Word(a[k], o, verbs)
  BY <1>1, GrownType DEF Resizes
<1>3. [k \in DOMAIN Resizes(a, n) |-> Word(Resizes(a, n)[k], o, verbs)] = w
  BY <1>1, <1>2
<1> QED
  BY <1>3 DEF LastSaid

LEMMA ResizesConcat ==
  ASSUME NEW options, NEW a \in Seq(Talk(options)), NEW b \in Seq(Talk(options)), NEW n \in Nat \ {0}
  PROVE  Resizes(a \o b, n) = Resizes(a, n) \o Resizes(b, n)
<1> DEFINE T == Talk(options)
<1>t. a \in Seq(T) /\ b \in Seq(T)
  OBVIOUS
<1>r. ASSUME NEW s \in Seq(T)
      PROVE  /\ Resizes(s, n) \in Seq(T) /\ Len(Resizes(s, n)) = Len(s)
             /\ \A k \in 1 .. Len(s) : Resizes(s, n)[k] = Grown(s[k], n)
  BY ResizesIs
<1> HIDE DEF T
<1> DEFINE ab == a \o b
           ra == Resizes(a, n)
           rb == Resizes(b, n)
           x == Resizes(ab, n)
           y == ra \o rb
<1>1. /\ ab \in Seq(T) /\ Len(ab) = Len(a) + Len(b) /\ Len(a) \in Nat /\ Len(b) \in Nat
      /\ \A k \in 1 .. Len(a) : ab[k] = a[k]
      /\ \A k \in 1 .. Len(b) : ab[Len(a) + k] = b[k]
  BY <1>t, ConcatElements
<1>2. /\ ra \in Seq(T) /\ Len(ra) = Len(a) /\ \A k \in 1 .. Len(a) : ra[k] = Grown(a[k], n)
      /\ rb \in Seq(T) /\ Len(rb) = Len(b) /\ \A k \in 1 .. Len(b) : rb[k] = Grown(b[k], n)
  BY <1>t, <1>r
<1> HIDE DEF ab, ra, rb
<1>3. x \in Seq(T) /\ Len(x) = Len(ab) /\ \A k \in 1 .. Len(ab) : x[k] = Grown(ab[k], n)
  BY <1>1, <1>r
<1>4. /\ y \in Seq(T) /\ Len(y) = Len(ra) + Len(rb)
      /\ \A k \in 1 .. Len(ra) : y[k] = ra[k]
      /\ \A k \in 1 .. Len(rb) : y[Len(ra) + k] = rb[k]
  <2>1. ra \in Seq(T) /\ rb \in Seq(T)
    BY <1>2
  <2> QED
    BY <2>1, ConcatElements
<1> HIDE DEF x, y
<1>5. ASSUME NEW k \in 1 .. Len(x) PROVE x[k] = y[k]
  <2>1. CASE k \in 1 .. Len(a)
    BY <1>1, <1>2, <1>3, <1>4, <2>1
  <2>2. CASE k \notin 1 .. Len(a)
    <3>1. PICK i \in 1 .. Len(b) : k = Len(a) + i
      <4>1. k - Len(a) \in 1 .. Len(b) /\ k = Len(a) + (k - Len(a))
        BY <1>1, <1>3, <2>2
      <4> QED
        BY <4>1
    <3>2. y[k] = rb[i] /\ x[k] = Grown(ab[k], n) /\ ab[k] = b[i]
      BY <1>1, <1>2, <1>3, <1>4, <3>1
    <3> QED
      BY <1>2, <3>2
  <2> QED
    BY <2>1, <2>2
<1>6. Len(x) = Len(y)
  BY <1>1, <1>2, <1>3, <1>4
<1>7. x = y
  BY <1>3, <1>4, <1>5, <1>6, SameSequence
<1> QED
  BY <1>7 DEF x, y, ab, ra, rb

LEMMA ResizesFew ==
  ASSUME NEW n
  PROVE  /\ Resizes(<<>>, n) = <<>>
         /\ \A m : Resizes(<<m>>, n) = <<Grown(m, n)>>
BY DEF Resizes

\* An answer differs in the sizes told, and so does the parse of a byte, and of
\* all that has not been read when the window is resized.
LEMMA AnswerResized ==
  ASSUME NEW t \in Telnets, NEW o \in Bytes, NEW n \in Nat \ {0}
  PROVE  /\ Answer([t EXCEPT !.size = n], o).telnet = [Answer(t, o).telnet EXCEPT !.size = n]
         /\ Answer([t EXCEPT !.size = n], o).reply = Resizes(Answer(t, o).reply, n)
<1> DEFINE u == [t EXCEPT !.size = n]
<1>1. /\ u.enabledHere = t.enabledHere /\ u.enabledThere = t.enabledThere /\ u.size = n
      /\ u.refusedHere = t.refusedHere /\ u.refusedThere = t.refusedThere /\ u.command = t.command
  BY DEF Telnets
<1>2. \A v \in Verbs : Grown(Say(v, o), n) = Say(v, o)
  BY DEF Grown, Say, Verbs
<1>3. Grown(SizeIs(t.size), n) = SizeIs(n)
  BY DEF Grown, SizeIs
<1>4. t.command \in Verbs /\ "DO" \in Verbs /\ "WILL" \in Verbs /\ "DONT" \in Verbs /\ "WONT" \in Verbs
  BY DEF Telnets, Verbs
<1>5. OnDo(u, o).telnet = [OnDo(t, o).telnet EXCEPT !.size = n]
  BY <1>1 DEF OnDo, Telnets
<1>6. OnDo(u, o).reply = Resizes(OnDo(t, o).reply, n)
  <2>1. CASE o \in WE_MAY_ENABLE /\ o \notin t.enabledHere /\ o = "NAWS"
    <3> DEFINE a == Say("WILL", o)
               s == SizeIs(t.size)
               r == SizeIs(n)
    <3>1. OnDo(u, o).reply = <<a>> \o <<r>> /\ OnDo(t, o).reply = <<a>> \o <<s>>
      BY <1>1, <2>1 DEF OnDo
    <3>2. <<a>> \o <<r>> = <<a, r>> /\ <<a>> \o <<s>> = <<a, s>>
      <4>1. a \in {a, s, r} /\ s \in {a, s, r} /\ r \in {a, s, r}
        OBVIOUS
      <4> HIDE DEF a, s, r
      <4> QED
        BY <4>1, Words
    <3>3. Grown(a, n) = a /\ Grown(s, n) = r
      BY <1>2, <1>3, <1>4
    <3> HIDE DEF a, s, r
    <3>4. Resizes(<<a, s>>, n) = <<Grown(a, n), Grown(s, n)>>
      BY DEF Resizes
    <3> QED
      BY <3>1, <3>2, <3>3, <3>4
  <2>2. CASE o \in WE_MAY_ENABLE /\ o \notin t.enabledHere /\ o # "NAWS"
    <3> DEFINE a == Say("WILL", o)
    <3>1. OnDo(u, o).reply = <<a>> \o <<>> /\ OnDo(t, o).reply = <<a>> \o <<>>
      BY <1>1, <2>2 DEF OnDo
    <3>2. Grown(a, n) = a
      BY <1>2, <1>4
    <3> HIDE DEF a
    <3>3. <<a>> \o <<>> = <<a>>
      OBVIOUS
    <3> QED
      BY <3>1, <3>2, <3>3, ResizesFew
  <2>3. CASE o \in WE_MAY_ENABLE /\ o \in t.enabledHere
    BY <1>1, <2>3, ResizesFew DEF OnDo
  <2>4. CASE o \notin WE_MAY_ENABLE
    BY <1>1, <1>2, <1>4, <2>4, ResizesFew DEF OnDo
  <2> QED
    BY <2>1, <2>2, <2>3, <2>4
<1>7. /\ OnDont(u, o).telnet = [OnDont(t, o).telnet EXCEPT !.size = n]
      /\ OnDont(u, o).reply = Resizes(OnDont(t, o).reply, n)
  <2>1. OnDont(u, o).telnet = [OnDont(t, o).telnet EXCEPT !.size = n]
    BY <1>1 DEF OnDont, Telnets
  <2>2. OnDont(u, o).reply = Resizes(OnDont(t, o).reply, n)
    BY <1>1, <1>2, <1>4, ResizesFew DEF OnDont
  <2> QED
    BY <2>1, <2>2
<1>8. /\ OnWill(u, o).telnet = [OnWill(t, o).telnet EXCEPT !.size = n]
      /\ OnWill(u, o).reply = Resizes(OnWill(t, o).reply, n)
  <2>1. OnWill(u, o).telnet = [OnWill(t, o).telnet EXCEPT !.size = n]
    BY <1>1 DEF OnWill, Telnets
  <2>2. OnWill(u, o).reply = Resizes(OnWill(t, o).reply, n)
    BY <1>1, <1>2, <1>4, ResizesFew DEF OnWill
  <2> QED
    BY <2>1, <2>2
<1>9. /\ OnWont(u, o).telnet = [OnWont(t, o).telnet EXCEPT !.size = n]
      /\ OnWont(u, o).reply = Resizes(OnWont(t, o).reply, n)
  <2>1. OnWont(u, o).telnet = [OnWont(t, o).telnet EXCEPT !.size = n]
    BY <1>1 DEF OnWont, Telnets
  <2>2. OnWont(u, o).reply = Resizes(OnWont(t, o).reply, n)
    BY <1>1, <1>2, <1>4, ResizesFew DEF OnWont
  <2> QED
    BY <2>1, <2>2
<1> HIDE DEF u
<1> QED
  BY <1>1, <1>4, <1>5, <1>6, <1>7, <1>8, <1>9 DEF Answer, Verbs, u

LEMMA ResizedType ==
  ASSUME NEW p \in Parses, NEW n \in Nat \ {0}
  PROVE  Resized(p, n) \in Parses
<1> DEFINE d == p.data
           r == Resizes(p.reply, n)
           t == [p.telnet EXCEPT !.size = n]
<1>1. d \in Seq(Bytes) /\ p.reply \in Seq(Talk(Bytes)) /\ t \in Telnets
  BY DEF Parses, Telnets
<1>2. r \in Seq(Talk(Bytes))
  BY <1>1, ResizesIs
<1>3. Resized(p, n) = [telnet |-> t, data |-> d, reply |-> r]
  BY DEF Resized
<1> HIDE DEF d, r, t
<1> QED
  BY <1>1, <1>2, <1>3 DEF Parses

LEMMA OnByteResized ==
  ASSUME NEW t \in Telnets, NEW b \in Bytes, NEW n \in Nat \ {0}
  PROVE  OnByte([t EXCEPT !.size = n], b) = Resized(OnByte(t, b), n)
<1> DEFINE u == [t EXCEPT !.size = n]
<1>1. u \in Telnets /\ Alike(u, t) /\ Alike(t, t)
  BY DEF Telnets, Alike
<1>2. CASE t.state = "Option"
  <2> DEFINE a == Answer(t, b)
             e == Answer(u, b)
             r == a.reply
  <2>1. e.telnet = [a.telnet EXCEPT !.size = n] /\ e.reply = Resizes(r, n) /\ a.telnet \in Telnets
    BY AnswerResized, AnswerType
  <2>2. OnByte(t, b) = Yields([a.telnet EXCEPT !.state = "Data"], <<>>, r)
    BY <1>2, OnByteInOption
  <2>3. OnByte(u, b) = Yields([e.telnet EXCEPT !.state = "Data"], <<>>, e.reply)
    BY <1>1, <1>2, OnByteInOption DEF Alike
  <2> HIDE DEF a, e, r, u
  <2>4. [[a.telnet EXCEPT !.state = "Data"] EXCEPT !.size = n]
          = [[a.telnet EXCEPT !.size = n] EXCEPT !.state = "Data"]
    BY <2>1 DEF Telnets
  <2> QED
    BY <2>1, <2>2, <2>3, <2>4 DEF Yields, Resized, u
<1>3. CASE t.state # "Option"
  <2>1. PICK s \in Parser, c \in Verbs, g \in Payloads, d \in Seq(Bytes), r \in Remarks :
           \A v \in Telnets : Alike(v, t) => OnByte(v, b) = Yields(Moved(v, s, c, g), d, r)
    BY <1>3, OnByteElsewhere
  <2>2. OnByte(t, b) = Yields(Moved(t, s, c, g), d, r) /\ OnByte(u, b) = Yields(Moved(u, s, c, g), d, r)
    BY <1>1, <2>1
  <2>3. Resizes(r, n) = r
    <3>1. Grown(TerminalIs, n) = TerminalIs /\ Grown(HereIAm, n) = HereIAm
      BY DEF Grown, TerminalIs, HereIAm
    <3> QED
      BY <3>1, ResizesFew DEF Remarks
  <2>4. Moved(u, s, c, g) = [Moved(t, s, c, g) EXCEPT !.size = n]
    BY DEF Moved, Telnets
  <2>5. Resized(OnByte(t, b), n)
          = [telnet |-> [Moved(t, s, c, g) EXCEPT !.size = n], data |-> d, reply |-> Resizes(r, n)]
    BY <2>2 DEF Yields, Resized
  <2> QED
    BY <2>2, <2>3, <2>4, <2>5 DEF Yields
<1> QED
  BY <1>2, <1>3

\* What is read after the window was given another size.
LEMMA ReceiveResized ==
  ASSUME NEW t \in Telnets, NEW c \in Seq(Bytes), NEW n \in Nat \ {0}
  PROVE  Receive([t EXCEPT !.size = n], c) = Resized(Receive(t, c), n)
<1> DEFINE u == [t EXCEPT !.size = n]
           s == Silent(t)
           h == [q \in Parses |-> Resized(q, n)]
<1>1. u \in Telnets
  BY DEF Telnets
<1>2. s \in Parses /\ Resized(s, n) = Silent(u)
  BY ResizesFew DEF Silent, Parses, Resized
<1>3. h \in [Parses -> Parses] /\ \A q \in Parses : h[q] = Resized(q, n)
  BY ResizedType
<1>4. ASSUME NEW q \in Parses, NEW b \in Bytes PROVE Step[<<h[q], b>>] = h[Step[<<q, b>>]]
  <2> DEFINE o == OnByte(q.telnet, b)
  <2>1. q.telnet \in Telnets /\ o \in Parses /\ Resized(q, n) \in Parses /\ After(q, o) \in Parses
    BY OnByteType, ResizedType, AfterLaws DEF Parses
  <2>2. Resized(q, n).telnet = [q.telnet EXCEPT !.size = n]
    BY DEF Resized
  <2>3. Step[<<Resized(q, n), b>>] = After(Resized(q, n), Resized(o, n))
    BY <2>1, <2>2, StepType, OnByteResized
  <2>4. After(Resized(q, n), Resized(o, n)) = Resized(After(q, o), n)
    <3> DEFINE qr == q.reply
               ans == o.reply
    <3>1. qr \in Seq(Talk(Bytes)) /\ ans \in Seq(Talk(Bytes))
      BY <2>1 DEF Parses
    <3>2. /\ After(Resized(q, n), Resized(o, n))
               = [telnet |-> [o.telnet EXCEPT !.size = n], data |-> q.data \o o.data,
                  reply |-> Resizes(qr, n) \o Resizes(ans, n)]
          /\ Resized(After(q, o), n)
               = [telnet |-> [o.telnet EXCEPT !.size = n], data |-> q.data \o o.data,
                  reply |-> Resizes(qr \o ans, n)]
      BY DEF After, Resized
    <3> HIDE DEF qr, ans, o
    <3>3. Resizes(qr \o ans, n) = Resizes(qr, n) \o Resizes(ans, n)
      BY <3>1, ResizesConcat
    <3> QED
      BY <3>2, <3>3
  <2>5. Step[<<q, b>>] = After(q, o)
    BY <2>1, StepType
  <2> HIDE DEF o, h
  <2> QED
    BY <1>3, <2>1, <2>3, <2>4, <2>5
<1> HIDE DEF h, s, u
<1>5. Parse(h[s], c) = h[Parse(s, c)]
  BY <1>2, <1>3, <1>4, ParseMaps
<1>6. Receive(t, c) = Parse(s, c) /\ Parse(s, c) \in Parses
  BY <1>2, ReceiveIs, ParseType DEF s
<1>7. Receive(u, c) = Parse(Silent(u), c)
  BY <1>1, ReceiveIs
<1> QED
  BY <1>2, <1>3, <1>5, <1>6, <1>7 DEF u

------------------------------------------------------------------------------
(* What the server says, and what is answered                              *)

LEMMA LastSaidTwo ==
  ASSUME NEW a, NEW b, NEW o, NEW verbs
  PROVE  /\ LastSaid(<<a>> \o <<>>, o, verbs) = Word(a, o, verbs)
         /\ LastSaid(<<a>> \o <<b>>, o, verbs) = Later(Word(a, o, verbs), Word(b, o, verbs))
<1> DEFINE S == {a, b}
           x == <<a>>
           y == <<b>>
<1>1. x \in Seq(S) /\ y \in Seq(S) /\ x \o <<>> = x
  OBVIOUS
<1>2. LastSaid(x, o, verbs) = Word(a, o, verbs) /\ LastSaid(y, o, verbs) = Word(b, o, verbs)
  BY LastSaidFew
<1> HIDE DEF x, y
<1>3. LastSaid(x \o y, o, verbs) = Later(LastSaid(x, o, verbs), LastSaid(y, o, verbs))
  BY <1>1, LastSaidConcat
<1> QED
  BY <1>1, <1>2, <1>3 DEF x, y

LEMMA LastSaidOne ==
  ASSUME NEW m, NEW o, NEW verbs
  PROVE  LastSaid(<<m>>, o, verbs) = Word(m, o, verbs)
BY LastSaidFew

\* A request for one option: what it makes of what is on, and what is said.
Turns(q, o, had, has, on, may, verbs, yes, no) ==
  /\ \A x : x # o => (x \in has <=> x \in had) /\ LastSaid(q.reply, x, verbs) = "none"
  /\ on /\ o \in may => o \in has /\ LastSaid(q.reply, o, verbs) = IF o \in had THEN "none" ELSE yes
  /\ on /\ o \notin may => (o \in has <=> o \in had) /\ LastSaid(q.reply, o, verbs) \in {"none", no}
  /\ ~on => o \notin has /\ LastSaid(q.reply, o, verbs) = IF o \in had THEN no ELSE "none"

Mute(list, verbs) == \A x : LastSaid(list, x, verbs) = "none"

\* What DO or DONT makes of the options turned on here, and what is said of it.
LEMMA SpokenDo ==
  ASSUME NEW t \in Telnets, t.state = "Data", NEW verb \in {"DO", "DONT"}, NEW o \in Options,
         NEW q, q = Receive(t, Spoken(verb, o))
  PROVE  /\ q.telnet \in Telnets /\ q.telnet.state = "Data" /\ q.data = <<>> /\ q.reply \in Seq(Messages)
         /\ q.telnet.enabledThere = t.enabledThere
         /\ Turns(q, o, t.enabledHere, q.telnet.enabledHere, verb = "DO", WE_MAY_ENABLE, {"WILL", "WONT"}, "WILL", "WONT")
         /\ Mute(q.reply, {"DO", "DONT"})
<1> DEFINE W == {"WILL", "WONT"}
           D == {"DO", "DONT"}
           u == [t EXCEPT !.state = "Option", !.command = verb]
           a == Answer(u, o)
           T == Messages
           has == a.telnet.enabledHere
           reply == a.reply
           yes == Say("WILL", o)
           no == Say("WONT", o)
<1>1. u \in Telnets /\ u.enabledHere = t.enabledHere /\ u.enabledThere = t.enabledThere /\ u.command = verb
  BY DEF Telnets, Verbs
<1>2. o \in Bytes /\ verb \in Verbs
  BY DEF Bytes, Verbs
<1>3. a.telnet \in Telnets
  BY <1>1, <1>2, AnswerType
<1>4. q = Replies([a.telnet EXCEPT !.state = "Data"], reply)
  BY <1>2, SpokenIs
<1>p. q.telnet = [a.telnet EXCEPT !.state = "Data"] /\ q.data = <<>> /\ q.reply = reply
  BY <1>4 DEF Replies
<1>5. /\ q.telnet \in Telnets /\ q.telnet.state = "Data" /\ q.data = <<>> /\ q.reply = reply
  <2> DEFINE was == a.telnet
             is == q.telnet
  <2>1. was \in Telnets /\ is = [was EXCEPT !.state = "Data"]
    BY <1>3, <1>p
  <2> HIDE DEF was, is
  <2>2. is \in Telnets /\ is.state = "Data"
    BY <2>1 DEF Telnets
  <2> QED
    BY <1>p, <2>2 DEF is
<1>b. q.telnet.enabledHere = has /\ q.telnet.enabledThere = a.telnet.enabledThere
  BY <1>3, <1>4 DEF Replies, Telnets
<1>6. a = IF verb = "DO" THEN OnDo(u, o) ELSE OnDont(u, o)
  BY <1>1 DEF Answer
<1> HIDE DEF u, a
<1>7. (o \in WE_MAY_ENABLE => yes \in T) /\ no \in T /\ SizeIs(u.size) \in T
  BY <1>1 DEF Messages, Talk, Verbs, Say, SizeIs, Telnets
<1>8. /\ \A x : Word(yes, x, W) = IF x = o THEN "WILL" ELSE "none"
      /\ \A x : Word(no, x, W) = IF x = o THEN "WONT" ELSE "none"
      /\ \A x : Word(yes, x, D) = "none" /\ Word(no, x, D) = "none"
      /\ \A x : Word(SizeIs(u.size), x, W) = "none" /\ Word(SizeIs(u.size), x, D) = "none"
  BY DEF Word, Say, SizeIs, W, D
<1> HIDE DEF W, D
<1>9. u.enabledHere \subseteq WE_MAY_ENABLE
  BY <1>1 DEF Telnets
<1>10. a.telnet.enabledThere = t.enabledThere
  BY <1>1, <1>6 DEF OnDo, OnDont, Telnets
<1> DEFINE Says(m) == /\ reply \in Seq(T)
                      /\ \A x : /\ LastSaid(reply, x, W) = IF x = o THEN m ELSE "none"
                               /\ LastSaid(reply, x, D) = "none"
<1>11. CASE verb = "DO" /\ o \in WE_MAY_ENABLE
  <2>1. has = t.enabledHere \cup {o}
    BY <1>1, <1>6, <1>11 DEF OnDo, Telnets
  <2>2. CASE o \in t.enabledHere
    <3>1. reply = <<>>
      BY <1>1, <1>6, <1>11, <2>2 DEF OnDo
    <3> HIDE DEF reply, has
    <3>2. Says("none")
      BY <3>1, LastSaidFew, LastSaidOne, FewOf
    <3> QED
      BY <1>5, <1>b, <1>10, <1>11, <2>1, <2>2, <3>2 DEF Turns, Mute, W, D
  <2>3. CASE o \notin t.enabledHere /\ o # "NAWS"
    <3>1. reply = <<yes>> \o <<>>
      BY <1>1, <1>6, <1>11, <2>3 DEF OnDo
    <3> HIDE DEF reply, yes, has
    <3>2. Says("WILL")
      BY <1>7, <1>8, <1>11, <3>1, LastSaidTwo, FewOf
    <3> QED
      BY <1>5, <1>b, <1>10, <1>11, <2>1, <2>3, <3>2 DEF Turns, Mute, W, D
  <2>4. CASE o \notin t.enabledHere /\ o = "NAWS"
    <3> DEFINE size == SizeIs(u.size)
    <3>1. reply = <<yes>> \o <<size>>
      BY <1>1, <1>6, <1>11, <2>4 DEF OnDo
    <3> HIDE DEF reply, yes, size, has
    <3>2. Says("WILL")
      BY <1>7, <1>8, <1>11, <3>1, LastSaidTwo, FewOf DEF Later, size
    <3> QED
      BY <1>5, <1>b, <1>10, <1>11, <2>1, <2>4, <3>2 DEF Turns, Mute, W, D
  <2> QED
    BY <2>2, <2>3, <2>4
<1>12. CASE verb = "DO" /\ o \notin WE_MAY_ENABLE
  <2>1. has = t.enabledHere
    BY <1>1, <1>6, <1>12 DEF OnDo, Telnets
  <2>2. reply = <<>> \/ reply = <<no>>
    BY <1>1, <1>6, <1>12 DEF OnDo
  <2> HIDE DEF reply, no, has
  <2>a. reply = <<>> => Says("none")
    BY LastSaidFew, FewOf
  <2>b. reply = <<no>> => Says("WONT")
    BY <1>7, <1>8, LastSaidOne, FewOf
  <2>3. Says("none") \/ Says("WONT")
    BY <2>2, <2>a, <2>b
  <2> HIDE DEF Says
  <2>4. LastSaid(reply, o, W) \in {"none", "WONT"}
    BY <2>3 DEF Says
  <2>5. \A x : x # o => LastSaid(reply, x, W) = "none"
    BY <2>3 DEF Says
  <2>6. reply \in Seq(T) /\ \A x : LastSaid(reply, x, D) = "none"
    BY <2>3 DEF Says
  <2> QED
    BY <1>5, <1>b, <1>10, <1>12, <2>1, <2>4, <2>5, <2>6 DEF Turns, Mute, W, D
<1>13. CASE verb = "DONT"
  <2>1. has = t.enabledHere \ {o}
    BY <1>1, <1>6, <1>13 DEF OnDont, Telnets
  <2>2. reply = IF o \in t.enabledHere THEN <<no>> ELSE <<>>
    BY <1>1, <1>6, <1>13 DEF OnDont
  <2> HIDE DEF reply, no, has
  <2>3. Says(IF o \in t.enabledHere THEN "WONT" ELSE "none")
    BY <1>7, <1>8, <2>2, LastSaidFew, LastSaidOne, FewOf
  <2> QED
    BY <1>5, <1>b, <1>10, <1>13, <2>1, <2>3 DEF Turns, Mute, W, D
<1> QED
  BY <1>11, <1>12, <1>13

\* And WILL or WONT of those turned on there.
LEMMA SpokenWill ==
  ASSUME NEW t \in Telnets, t.state = "Data", NEW verb \in {"WILL", "WONT"}, NEW o \in Options,
         NEW q, q = Receive(t, Spoken(verb, o))
  PROVE  /\ q.telnet \in Telnets /\ q.telnet.state = "Data" /\ q.data = <<>> /\ q.reply \in Seq(Messages)
         /\ q.telnet.enabledHere = t.enabledHere
         /\ Turns(q, o, t.enabledThere, q.telnet.enabledThere, verb = "WILL", THEY_MAY_ENABLE, {"DO", "DONT"}, "DO", "DONT")
         /\ Mute(q.reply, {"WILL", "WONT"})
<1> DEFINE W == {"DO", "DONT"}
           D == {"WILL", "WONT"}
           u == [t EXCEPT !.state = "Option", !.command = verb]
           a == Answer(u, o)
           T == Messages
           has == a.telnet.enabledThere
           reply == a.reply
           yes == Say("DO", o)
           no == Say("DONT", o)
<1>1. u \in Telnets /\ u.enabledThere = t.enabledThere /\ u.enabledHere = t.enabledHere /\ u.command = verb
  BY DEF Telnets, Verbs
<1>2. o \in Bytes /\ verb \in Verbs
  BY DEF Bytes, Verbs
<1>3. a.telnet \in Telnets
  BY <1>1, <1>2, AnswerType
<1>4. q = Replies([a.telnet EXCEPT !.state = "Data"], reply)
  BY <1>2, SpokenIs
<1>p. q.telnet = [a.telnet EXCEPT !.state = "Data"] /\ q.data = <<>> /\ q.reply = reply
  BY <1>4 DEF Replies
<1>5. /\ q.telnet \in Telnets /\ q.telnet.state = "Data" /\ q.data = <<>> /\ q.reply = reply
  <2> DEFINE was == a.telnet
             is == q.telnet
  <2>1. was \in Telnets /\ is = [was EXCEPT !.state = "Data"]
    BY <1>3, <1>p
  <2> HIDE DEF was, is
  <2>2. is \in Telnets /\ is.state = "Data"
    BY <2>1 DEF Telnets
  <2> QED
    BY <1>p, <2>2 DEF is
<1>b. q.telnet.enabledThere = has /\ q.telnet.enabledHere = a.telnet.enabledHere
  BY <1>3, <1>4 DEF Replies, Telnets
<1>6. a = IF verb = "WILL" THEN OnWill(u, o) ELSE OnWont(u, o)
  BY <1>1 DEF Answer
<1> HIDE DEF u, a
<1>7. (o \in THEY_MAY_ENABLE => yes \in T) /\ no \in T /\ SizeIs(u.size) \in T
  BY <1>1 DEF Messages, Talk, Verbs, Say, SizeIs, Telnets
<1>8. /\ \A x : Word(yes, x, W) = IF x = o THEN "DO" ELSE "none"
      /\ \A x : Word(no, x, W) = IF x = o THEN "DONT" ELSE "none"
      /\ \A x : Word(yes, x, D) = "none" /\ Word(no, x, D) = "none"
      /\ \A x : Word(SizeIs(u.size), x, W) = "none" /\ Word(SizeIs(u.size), x, D) = "none"
  BY DEF Word, Say, SizeIs, W, D
<1> HIDE DEF W, D
<1>9. u.enabledThere \subseteq THEY_MAY_ENABLE
  BY <1>1 DEF Telnets
<1>10. a.telnet.enabledHere = t.enabledHere
  BY <1>1, <1>6 DEF OnWill, OnWont, Telnets
<1> DEFINE Says(m) == /\ reply \in Seq(T)
                      /\ \A x : /\ LastSaid(reply, x, W) = IF x = o THEN m ELSE "none"
                               /\ LastSaid(reply, x, D) = "none"
<1>11. CASE verb = "WILL" /\ o \in THEY_MAY_ENABLE
  <2>1. has = t.enabledThere \cup {o}
    BY <1>1, <1>6, <1>11 DEF OnWill, Telnets
  <2>2. CASE o \in t.enabledThere
    <3>1. reply = <<>>
      BY <1>1, <1>6, <1>11, <2>2 DEF OnWill
    <3> HIDE DEF reply, has
    <3>2. Says("none")
      BY <3>1, LastSaidFew, LastSaidOne, FewOf
    <3> QED
      BY <1>5, <1>b, <1>10, <1>11, <2>1, <2>2, <3>2 DEF Turns, Mute, W, D
  <2>3. CASE o \notin t.enabledThere
    <3>1. reply = <<yes>>
      BY <1>1, <1>6, <1>11, <2>3 DEF OnWill
    <3> HIDE DEF reply, yes, has
    <3>2. Says("DO")
      BY <1>7, <1>8, <1>11, <3>1, LastSaidFew, LastSaidOne, FewOf
    <3> QED
      BY <1>5, <1>b, <1>10, <1>11, <2>1, <2>3, <3>2 DEF Turns, Mute, W, D
  <2> QED
    BY <2>2, <2>3
<1>12. CASE verb = "WILL" /\ o \notin THEY_MAY_ENABLE
  <2>1. has = t.enabledThere
    BY <1>1, <1>6, <1>12 DEF OnWill, Telnets
  <2>2. reply = <<>> \/ reply = <<no>>
    BY <1>1, <1>6, <1>12 DEF OnWill
  <2> HIDE DEF reply, no, has
  <2>a. reply = <<>> => Says("none")
    BY LastSaidFew, FewOf
  <2>b. reply = <<no>> => Says("DONT")
    BY <1>7, <1>8, LastSaidOne, FewOf
  <2>3. Says("none") \/ Says("DONT")
    BY <2>2, <2>a, <2>b
  <2> HIDE DEF Says
  <2>4. LastSaid(reply, o, W) \in {"none", "DONT"}
    BY <2>3 DEF Says
  <2>5. \A x : x # o => LastSaid(reply, x, W) = "none"
    BY <2>3 DEF Says
  <2>6. reply \in Seq(T) /\ \A x : LastSaid(reply, x, D) = "none"
    BY <2>3 DEF Says
  <2> QED
    BY <1>5, <1>b, <1>10, <1>12, <2>1, <2>4, <2>5, <2>6 DEF Turns, Mute, W, D
<1>13. CASE verb = "WONT"
  <2>1. has = t.enabledThere \ {o}
    BY <1>1, <1>6, <1>13 DEF OnWont, Telnets
  <2>2. reply = IF o \in t.enabledThere THEN <<no>> ELSE <<>>
    BY <1>1, <1>6, <1>13 DEF OnWont
  <2> HIDE DEF reply, no, has
  <2>3. Says(IF o \in t.enabledThere THEN "DONT" ELSE "none")
    BY <1>7, <1>8, <2>2, LastSaidFew, LastSaidOne, FewOf
  <2> QED
    BY <1>5, <1>b, <1>10, <1>13, <2>1, <2>3 DEF Turns, Mute, W, D
<1> QED
  BY <1>11, <1>12, <1>13

------------------------------------------------------------------------------
(* Whoever agrees to say the size says it next                              *)

\* Lists that say the size when they agree to say it can be put together and
\* taken apart.
LEMMA SizeFollowsConcat ==
  ASSUME NEW S, NEW s \in Seq(S), NEW t \in Seq(S), SizeFollows(s), SizeFollows(t)
  PROVE  SizeFollows(s \o t)
<1> DEFINE both == s \o t
<1>1. /\ both \in Seq(S) /\ Len(both) = Len(s) + Len(t) /\ Len(s) \in Nat /\ Len(t) \in Nat
      /\ \A n \in 1 .. Len(s) : both[n] = s[n]
      /\ \A n \in 1 .. Len(t) : both[Len(s) + n] = t[n]
  BY ConcatElements
<1>2. DOMAIN s = 1 .. Len(s) /\ DOMAIN t = 1 .. Len(t) /\ DOMAIN both = 1 .. Len(both)
  BY <1>1
<1> HIDE DEF both
<1>3. ASSUME NEW k \in DOMAIN both, both[k] = Say("WILL", "NAWS")
      PROVE  k + 1 \in DOMAIN both /\ both[k + 1].say = "SIZE"
  <2>1. CASE k \in 1 .. Len(s)
    <3>1. s[k] = Say("WILL", "NAWS") /\ k \in DOMAIN s
      BY <1>1, <1>2, <1>3, <2>1
    <3>2. k + 1 \in 1 .. Len(s) /\ s[k + 1].say = "SIZE"
      BY <1>2, <3>1 DEF SizeFollows
    <3> QED
      BY <1>1, <1>2, <3>2
  <2>2. CASE k \notin 1 .. Len(s)
    <3> DEFINE i == k - Len(s)
    <3>1. i \in 1 .. Len(t) /\ k = Len(s) + i
      BY <1>1, <1>2, <2>2
    <3> HIDE DEF i
    <3>2. t[i] = Say("WILL", "NAWS") /\ i \in DOMAIN t
      BY <1>1, <1>2, <1>3, <3>1
    <3>3. i + 1 \in 1 .. Len(t) /\ t[i + 1].say = "SIZE"
      BY <1>2, <3>2 DEF SizeFollows
    <3>4. k + 1 = Len(s) + (i + 1) /\ k + 1 \in 1 .. Len(both)
      BY <1>1, <3>1, <3>3
    <3> QED
      BY <1>1, <1>2, <3>3, <3>4
  <2> QED
    BY <2>1, <2>2
<1> QED
  BY <1>3 DEF SizeFollows, both

LEMMA SizeFollowsTail ==
  ASSUME NEW S, NEW s \in Seq(S), s # <<>>, SizeFollows(s)
  PROVE  SizeFollows(Tail(s)) /\ (Head(s) = Say("WILL", "NAWS") => Tail(s) # <<>> /\ Head(Tail(s)).say = "SIZE")
<1> DEFINE r == Tail(s)
<1>1. /\ r \in Seq(S) /\ Len(r) = Len(s) - 1 /\ Len(s) > 0 /\ Len(s) \in Nat
      /\ \A n \in 1 .. Len(s) - 1 : r[n] = s[n + 1]
      /\ Head(s) = s[1] /\ DOMAIN s = 1 .. Len(s) /\ DOMAIN r = 1 .. Len(r)
  BY TailElements
<1> HIDE DEF r
<1>2. ASSUME NEW k \in DOMAIN r, r[k] = Say("WILL", "NAWS")
      PROVE  k + 1 \in DOMAIN r /\ r[k + 1].say = "SIZE"
  <2>1. k + 1 \in DOMAIN s /\ s[k + 1] = Say("WILL", "NAWS")
    BY <1>1, <1>2
  <2>2. (k + 1) + 1 \in DOMAIN s /\ s[(k + 1) + 1].say = "SIZE"
    BY <2>1 DEF SizeFollows
  <2> QED
    BY <1>1, <2>2
<1>3. ASSUME Head(s) = Say("WILL", "NAWS") PROVE r # <<>> /\ Head(r).say = "SIZE"
  <2>1. 1 \in DOMAIN s /\ s[1] = Say("WILL", "NAWS")
    BY <1>1, <1>3
  <2>2. 1 + 1 \in DOMAIN s /\ s[1 + 1].say = "SIZE"
    BY <2>1 DEF SizeFollows
  <2>3. 1 \in 1 .. Len(r) /\ r[1].say = "SIZE"
    BY <1>1, <2>2
  <2> QED
    BY <1>1, <2>3
<1> QED
  BY <1>2, <1>3 DEF SizeFollows, r

LEMMA SizeFollowsFew ==
  /\ SizeFollows(<<>>)
  /\ \A m : m # Say("WILL", "NAWS") => SizeFollows(<<m>>) /\ SizeFollows(<<m>> \o <<>>)
  /\ \A m, n : SizeFollows(<<m>> \o <<SizeIs(n)>>)
<1>1. SizeFollows(<<>>)
  BY DEF SizeFollows
<1>2. ASSUME NEW m, m # Say("WILL", "NAWS") PROVE SizeFollows(<<m>>) /\ SizeFollows(<<m>> \o <<>>)
  <2>1. SizeFollows(<<m>>)
    BY <1>2 DEF SizeFollows
  <2>2. <<m>> \o <<>> = <<m>>
    OBVIOUS
  <2> QED
    BY <2>1, <2>2
<1>3. ASSUME NEW m, NEW n PROVE SizeFollows(<<m>> \o <<SizeIs(n)>>)
  <2> DEFINE s == SizeIs(n)
             w == <<m, s>>
  <2>1. <<m>> \o <<s>> = w
    <3>1. m \in {m, s} /\ s \in {m, s}
      OBVIOUS
    <3> HIDE DEF s
    <3> QED
      BY <3>1, Words
  <2>2. s.say = "SIZE" /\ s # Say("WILL", "NAWS")
    BY DEF SizeIs, Say
  <2>3. Len(w) = 2 /\ w[1] = m /\ w[2] = s /\ DOMAIN w = 1 .. 2
    OBVIOUS
  <2> HIDE DEF w, s
  <2>4. SizeFollows(w)
    <3>1. ASSUME NEW k \in DOMAIN w, w[k] = Say("WILL", "NAWS") PROVE k + 1 \in DOMAIN w /\ w[k + 1].say = "SIZE"
      BY <2>2, <2>3, <3>1
    <3> QED
      BY <3>1 DEF SizeFollows
  <2> QED
    BY <2>1, <2>4 DEF s
<1> QED
  BY <1>1, <1>2, <1>3

\* So is every answer, and every parse.
LEMMA AnswerSizeFollows ==
  ASSUME NEW t \in Telnets, NEW o
  PROVE  SizeFollows(Answer(t, o).reply)
<1>1. /\ Say("WONT", o) # Say("WILL", "NAWS") /\ Say("DO", o) # Say("WILL", "NAWS")
      /\ Say("DONT", o) # Say("WILL", "NAWS") /\ (o # "NAWS" => Say("WILL", o) # Say("WILL", "NAWS"))
  BY DEF Say
<1>2. t.command \in {"DO", "DONT", "WILL", "WONT"}
  BY DEF Telnets, Verbs
<1>3. SizeFollows(OnDo(t, o).reply)
  BY <1>1, SizeFollowsFew DEF OnDo
<1>4. SizeFollows(OnDont(t, o).reply)
  BY <1>1, SizeFollowsFew DEF OnDont
<1>5. SizeFollows(OnWill(t, o).reply)
  BY <1>1, SizeFollowsFew DEF OnWill
<1>6. SizeFollows(OnWont(t, o).reply)
  BY <1>1, SizeFollowsFew DEF OnWont
<1> QED
  BY <1>2, <1>3, <1>4, <1>5, <1>6 DEF Answer

LEMMA ReceiveSizeFollows ==
  ASSUME NEW t \in Telnets, NEW c \in Seq(Bytes)
  PROVE  SizeFollows(Receive(t, c).reply)
<1> DEFINE P == {p \in Parses : SizeFollows(p.reply)}
<1>1. Silent(t) \in P
  BY SizeFollowsFew DEF Silent, Parses
<1>2. ASSUME NEW q \in P, NEW b \in Bytes PROVE After(q, OnByte(q.telnet, b)) \in P
  <2> DEFINE o == OnByte(q.telnet, b)
             r == q.reply
             s == o.reply
  <2>1. q.telnet \in Telnets /\ o \in Parses /\ q \in Parses /\ SizeFollows(r)
    BY OnByteType DEF Parses
  <2>2. SizeFollows(s)
    <3>1. CASE q.telnet.state = "Option"
      BY <2>1, <3>1, OnByteInOption, AnswerSizeFollows DEF Yields
    <3>2. CASE q.telnet.state # "Option"
      <4>1. PICK x \in Parser, c2 \in Verbs, g \in Payloads, d \in Seq(Bytes), m \in Remarks :
               \A u \in Telnets : Alike(u, q.telnet) => OnByte(u, b) = Yields(Moved(u, x, c2, g), d, m)
        BY <2>1, <3>2, OnByteElsewhere
      <4>2. s = m
        BY <2>1, <4>1 DEF Alike, Yields
      <4>3. TerminalIs # Say("WILL", "NAWS") /\ HereIAm # Say("WILL", "NAWS")
        BY DEF TerminalIs, HereIAm, Say
      <4> QED
        BY <4>2, <4>3, SizeFollowsFew DEF Remarks
    <3> QED
      BY <3>1, <3>2
  <2>3. r \in Seq(Talk(Bytes)) /\ s \in Seq(Talk(Bytes)) /\ After(q, o) \in Parses
    BY <2>1, AfterLaws DEF Parses
  <2>4. After(q, o).reply = r \o s
    BY DEF After
  <2> HIDE DEF o, r, s
  <2>5. SizeFollows(r \o s)
    BY <2>1, <2>2, <2>3, SizeFollowsConcat
  <2> QED
    BY <2>3, <2>4, <2>5 DEF o
<1>3. P \in SUBSET Parses
  OBVIOUS
<1> HIDE DEF P
<1>4. Parse(Silent(t), c) \in P
  BY <1>1, <1>2, <1>3, ParseKeeps
<1> QED
  BY <1>4, ReceiveIs DEF P

------------------------------------------------------------------------------
(* What is on its way                                                      *)

LEMMA LaterLaws ==
  /\ \A x, y, z : Later(Later(x, y), z) = Later(x, Later(y, z))
  /\ \A x : Later(x, "none") = x /\ Later("none", x) = x
BY DEF Later

\* The opening is of messages, and agrees to say nothing.
LEMMA OpeningIs == Opening \in Seq(Messages) /\ SizeFollows(Opening)
<1> DEFINE Offers == {m \in Messages : m # Say("WILL", "NAWS")}
           a == Say("WILL", "BINARY")
           b == Say("DO", "BINARY")
           c == Say("WILL", "SGA")
           d == Say("DO", "SGA")
           e == Say("DO", "ECHO")
           x == Offered("BINARY", <<a, b>>)
           y == Offered("SGA", <<c, d>>)
           z == Offered("ECHO", <<e>>)
<1>1. /\ "BINARY" \in Options => a \in Offers /\ b \in Offers
      /\ "SGA" \in Options => c \in Offers /\ d \in Offers
      /\ "ECHO" \in Options => e \in Offers
  BY DEF Say, Messages, Talk, WE_MAY_ENABLE, THEY_MAY_ENABLE
<1>2. Opening = (x \o y) \o z
  BY DEF Opening
<1> HIDE DEF Offers, a, b, c, d, e
<1>3. x \in Seq(Offers) /\ y \in Seq(Offers) /\ z \in Seq(Offers)
  BY <1>1, Words, FewOf DEF Offered
<1> HIDE DEF x, y, z
<1>4. Opening \in Seq(Offers)
  <2>1. x \o y \in Seq(Offers)
    BY <1>3, ConcatElements
  <2> QED
    BY <1>2, <1>3, <2>1, ConcatElements
<1>5. Opening \in Seq(Messages)
  BY <1>4 DEF Offers
<1>6. SizeFollows(Opening)
  <2>1. \A k \in DOMAIN Opening : Opening[k] \in Offers
    BY <1>4
  <2> QED
    BY <2>1 DEF Offers, SizeFollows
<1> QED
  BY <1>5, <1>6

\* What the server makes of one word it hears, and of what it asks: the two
\* ends stay on the way to agreeing.
Pair(yes, no) == yes # "none" /\ no # "none" /\ yes # no

\* A yes the server asked for ends its wait; one it did not ask for, it takes or
\* refuses, and says so.
LEMMA HearsYes ==
  ASSUME NEW yes, NEW no, Pair(yes, no), NEW state \in States, NEW o, NEW has, NEW rest,
         Converges(state, o \in has, Later(yes, rest), yes)
  PROVE  /\ state = "no" => /\ Converges("yes", TRUE, Later(rest, IF o \in has THEN "none" ELSE yes), yes)
                            /\ Converges("no", FALSE, Later(rest, IF o \in has THEN no ELSE "none"), yes)
         /\ state \in {"asked on", "yes"} => Converges("yes", o \in has, rest, yes)
         /\ state = "asked off" => Converges("no", o \in has, rest, yes)
BY DEF Converges, Later, Pair, States

LEMMA HearsNo ==
  ASSUME NEW yes, NEW no, Pair(yes, no), NEW state \in States, NEW o, NEW has, NEW rest,
         Converges(state, o \in has, Later(no, rest), yes)
  PROVE  /\ state = "yes" => Converges("no", FALSE, Later(rest, IF o \in has THEN no ELSE "none"), yes)
         /\ state # "yes" => Converges("no", o \in has, rest, yes)
BY DEF Converges, Later, Pair, States

LEMMA Asks ==
  ASSUME NEW yes, NEW no, Pair(yes, no), NEW state \in States, NEW o, NEW has, NEW last,
         Converges(state, o \in has, last, yes)
  PROVE  /\ state = "no" => Converges("asked on", TRUE, Later(last, IF o \in has THEN "none" ELSE yes), yes)
         /\ state = "yes" => Converges("asked off", FALSE, Later(last, IF o \in has THEN no ELSE "none"), yes)
BY DEF Converges, Later, Pair, States

------------------------------------------------------------------------------
(* What is heard                                                           *)

LEMMA PrefixLaws ==
  ASSUME NEW S, NEW s \in Seq(S), NEW t \in Seq(S), NEW u \in Seq(S)
  PROVE  /\ IsPrefix(s, s \o t) /\ (IsPrefix(s, t) => IsPrefix(s, t \o u))
<1>1. IsPrefix(s, s \o t)
  BY DEF IsPrefix
<1>2. ASSUME IsPrefix(s, t) PROVE IsPrefix(s, t \o u)
  <2>1. Len(s) <= Len(t) /\ SubSeq(s, 1, Len(s)) = SubSeq(t, 1, Len(s))
    BY <1>2 DEF IsPrefix
  <2>2. SubSeq(t \o u, 1, Len(s)) = SubSeq(t, 1, Len(s)) /\ Len(s) <= Len(t \o u)
    BY <2>1
  <2> QED
    BY <2>1, <2>2 DEF IsPrefix
<1> QED
  BY <1>1, <1>2

LEMMA PartOf ==
  ASSUME NEW S, NEW M, NEW s \in Seq(S), NEW t \in Seq(S), s \o t \in Seq(M)
  PROVE  s \in Seq(M) /\ t \in Seq(M)
<1>1. /\ Len(s \o t) = Len(s) + Len(t) /\ Len(s) \in Nat /\ Len(t) \in Nat
      /\ \A n \in 1 .. Len(s) : (s \o t)[n] = s[n]
      /\ \A n \in 1 .. Len(t) : (s \o t)[Len(s) + n] = t[n]
  BY ConcatElements
<1>2. \A n \in 1 .. Len(s \o t) : (s \o t)[n] \in M
  OBVIOUS
<1>3. \A n \in 1 .. Len(s) : s[n] \in M
  BY <1>1, <1>2
<1>4. \A n \in 1 .. Len(t) : t[n] \in M
  BY <1>1, <1>2
<1> QED
  BY <1>3, <1>4

HeardIn(list) == FlattenSeq([i \in DOMAIN list |-> DataOf(list[i])])

LEMMA HeardMore ==
  ASSUME NEW list \in Seq(Events)
  PROVE  /\ HeardIn(list) \in Seq(Bytes) /\ HeardIn(<<>>) = <<>>
         /\ \A e \in Events : HeardIn(Append(list, e)) = HeardIn(list) \o DataOf(e)
<1> DEFINE D == Seq(Bytes)
           datas == [i \in DOMAIN list |-> DataOf(list[i])]
           none == <<>>
<1>1. \A e \in Events : DataOf(e) \in D
  BY DEF DataOf, Events
<1> HIDE DEF D
<1>2. datas \in Seq(D)
  BY <1>1
<1>3. [i \in DOMAIN none |-> DataOf(none[i])] = none
  OBVIOUS
<1>4. ASSUME NEW e \in Events
      PROVE  [i \in DOMAIN Append(list, e) |-> DataOf(Append(list, e)[i])] = Append(datas, DataOf(e))
  OBVIOUS
<1> HIDE DEF datas
<1>5. FlattenSeq(none) = none /\ FlattenSeq(datas) \in D
      /\ \A x \in D : FlattenSeq(Append(datas, x)) = FlattenSeq(datas) \o x
  BY <1>2, FlattenAppend DEF D
<1> QED
  BY <1>1, <1>3, <1>4, <1>5 DEF HeardIn, D, datas

------------------------------------------------------------------------------
(* What is still to be said                                                *)

\* All that is on its way, or will be, behind what the server hears next.
Rest(o, verbs) ==
  Later(LastQueued(commands, o, verbs),
        Later(LastSaid(parsed.reply, o, verbs), LastSaid(Ahead.reply, o, verbs)))

LEMMA OnTheWayIs ==
  \A o, verbs : LastOnTheWay(o, verbs) = Later(LastSaid(toServer, o, verbs), Rest(o, verbs))
BY LaterLaws DEF LastOnTheWay, Rest

LEMMA AheadType ==
  ASSUME TypeOK
  PROVE  Ahead \in Parses
<1>1. <<>> \in Seq(Bytes)
  OBVIOUS
<1> QED
  BY <1>1, ReceiveConcat DEF TypeOK, ClientTypeOK, ServerTypeOK, Ahead

\* Whatever the server says is added to what is on its way.
LEMMA ServerSays ==
  ASSUME IInv, NEW w \in Seq(Bytes), NEW q, q = Receive(Ahead.telnet, w),
         toClient' = toClient \o w, UNCHANGED clientVars,
         q.telnet.state = "Data", q.telnet.enabledHere \cup q.telnet.enabledThere \subseteq Options,
         q.reply \in Seq(Messages)
  PROVE  /\ toClient' \in Seq(Bytes) /\ ServerIsWellSpoken'
         /\ Ahead.data \in Seq(Bytes) /\ q.data \in Seq(Bytes)
         /\ Ahead'.telnet = q.telnet /\ Ahead'.data = Ahead.data \o q.data
         /\ \A o, verbs : Rest(o, verbs)' = Later(Rest(o, verbs), LastSaid(q.reply, o, verbs))
<1>1. TypeOK /\ ServerIsWellSpoken
  BY DEF IInv
<1>2. telnet \in Telnets /\ toClient \in Seq(Bytes) /\ telnet' = telnet
  BY <1>1 DEF TypeOK, ClientTypeOK, ServerTypeOK, clientVars
<1>3. Ahead \in Parses /\ Ahead = Receive(telnet, toClient)
  BY <1>1, AheadType DEF Ahead
<1>4. toClient \o w \in Seq(Bytes)
  BY <1>2, ConcatElements
<1>5. Ahead' = After(Ahead, q)
  <2>1. Receive(telnet, toClient \o w) = After(Receive(telnet, toClient), Receive(Receive(telnet, toClient).telnet, w))
    BY <1>2, ReceiveConcat
  <2> QED
    BY <1>2, <1>3, <2>1 DEF Ahead
<1>6. q \in Parses
  <2>1. Ahead.telnet \in Telnets
    BY <1>3 DEF Parses
  <2>2. <<>> \in Seq(Bytes)
    OBVIOUS
  <2> QED
    BY <2>1, <2>2, ReceiveConcat
<1>7. Ahead'.telnet = q.telnet /\ Ahead'.data = Ahead.data \o q.data /\ Ahead'.reply = Ahead.reply \o q.reply
  BY <1>5 DEF After
<1>8. Ahead.reply \in Seq(Messages) /\ Ahead.data \in Seq(Bytes) /\ q.data \in Seq(Bytes)
  BY <1>1, <1>3, <1>6 DEF ServerIsWellSpoken, Parses
<1>9. Ahead.reply \o q.reply \in Seq(Messages)
  BY <1>8, ConcatElements
<1>10. ServerIsWellSpoken'
  BY <1>1, <1>7, <1>9 DEF ServerIsWellSpoken, clientVars
<1>11. \A o, verbs : Rest(o, verbs)' = Later(Rest(o, verbs), LastSaid(q.reply, o, verbs))
  <2> TAKE o, verbs
  <2>1. LastSaid(Ahead.reply \o q.reply, o, verbs) = Later(LastSaid(Ahead.reply, o, verbs), LastSaid(q.reply, o, verbs))
    BY <1>8, LastSaidConcat
  <2>2. commands' = commands /\ parsed' = parsed
    BY DEF clientVars
  <2>3. Rest(o, verbs)' = Later(LastQueued(commands, o, verbs), Later(LastSaid(parsed.reply, o, verbs), LastSaid(Ahead'.reply, o, verbs)))
    BY <2>2 DEF Rest
  <2> QED
    BY <1>7, <2>1, <2>3, LaterLaws DEF Rest
<1> QED
  BY <1>2, <1>4, <1>7, <1>8, <1>10, <1>11

\* One side of what the two ends believe.
Agreeable(states, on, last, may, yes) ==
  /\ \A o \in Options \cap may : Converges(states[o], o \in on, last[o], yes)
  /\ \A o \in Options \ may : StaysOff(states[o], o \in on)
LastOf(verbs) == [o \in Options |-> LastOnTheWay(o, verbs)]

LEMMA ConvergeIs ==
  OptionsConverge <=>
    (socket = "open" /\ writer = "waiting" =>
       /\ Agreeable(client, Ahead.telnet.enabledHere, LastOf({"WILL", "WONT"}), WE_MAY_ENABLE, "WILL")
       /\ Agreeable(server, Ahead.telnet.enabledThere, LastOf({"DO", "DONT"}), THEY_MAY_ENABLE, "DO"))
BY DEF OptionsConverge, Agreeable, LastOf

\* A word that comes before the rest, and words behind it.
Precedes(last, o, word, rest) ==
  \A x \in Options : last[x] = Later(IF x = o THEN word ELSE "none", rest[x])
Follows(later, rest, reply, verbs) ==
  \A x \in Options : later[x] = Later(rest[x], LastSaid(reply, x, verbs))

Turned(then, states, o, now) == then = [states EXCEPT ![o] = now]

\* The server hears of one option, and of that says nothing, or something; or it
\* asks.
LEMMA HearsQuietly ==
  ASSUME NEW yes, NEW no, Pair(yes, no), NEW may, NEW states \in [Options -> States], NEW on,
         NEW last, NEW rest, NEW o \in Options, NEW word \in {yes, no}, NEW now \in States, NEW then,
         Precedes(last, o, word, rest),
         Turned(then, states, o, now), Agreeable(states, on, last, may, yes),
         word = yes => o \in may /\ \/ states[o] \in {"asked on", "yes"} /\ now = "yes"
                                    \/ states[o] = "asked off" /\ now = "no",
         word = no => states[o] # "yes" /\ now = "no"
  PROVE  Agreeable(then, on, rest, may, yes)
<1>1. \A x \in Options : x # o => Later(IF x = o THEN word ELSE "none", rest[x]) = rest[x]
  BY LaterLaws
<1>2. ASSUME NEW x \in Options \cap may PROVE Converges(then[x], x \in on, rest[x], yes)
  <2>1. Converges(states[x], x \in on, Later(IF x = o THEN word ELSE "none", rest[x]), yes)
    BY <1>2 DEF Agreeable, Precedes
  <2>2. CASE x # o
    BY <1>1, <1>2, <2>1, <2>2 DEF Turned
  <2>3. CASE x = o
    <3> DEFINE after == rest[o]
    <3>2. states[o] \in States
      OBVIOUS
    <3>3. Converges(states[o], o \in on, Later(word, after), yes)
      BY <2>1, <2>3
    <3> HIDE DEF after
    <3>4. Converges(now, o \in on, after, yes)
      <4>1. CASE word = yes
        <5>1. Converges(states[o], o \in on, Later(yes, after), yes)
          BY <3>3, <4>1
        <5>2. CASE states[o] \in {"asked on", "yes"} /\ now = "yes"
          BY <3>2, <5>1, <5>2, HearsYes
        <5>3. CASE states[o] = "asked off" /\ now = "no"
          BY <3>2, <5>1, <5>3, HearsYes
        <5> QED
          BY <4>1, <5>2, <5>3
      <4>2. CASE word = no
        <5>1. Converges(states[o], o \in on, Later(no, after), yes)
          BY <3>3, <4>2
        <5>2. states[o] # "yes" /\ now = "no"
          BY <4>2
        <5>3. Converges("no", o \in on, after, yes)
          BY <3>2, <5>1, <5>2, HearsNo
        <5> QED
          BY <5>2, <5>3
      <4> QED
        BY <4>1, <4>2
    <3> QED
      BY <2>3, <3>4 DEF after, Turned
  <2> QED
    BY <2>2, <2>3
<1>3. ASSUME NEW x \in Options \ may PROVE StaysOff(then[x], x \in on)
  BY <1>3 DEF Agreeable, StaysOff, Turned
<1> QED
  BY <1>2, <1>3 DEF Agreeable

\* The same when it answers, and the answer is read and answered in its turn.
LEMMA HearsAndSays ==
  ASSUME NEW yes, NEW no, Pair(yes, no), NEW may, NEW verbs, NEW states \in [Options -> States], NEW had, NEW has,
         NEW last, NEW rest, NEW later, NEW o \in Options, NEW word \in {yes, no}, NEW now \in {"yes", "no"},
         NEW then, NEW q,
         Precedes(last, o, word, rest),
         Follows(later, rest, q.reply, verbs),
         Turned(then, states, o, now), Agreeable(states, had, last, may, yes),
         word = yes => o \in may /\ states[o] = "no",
         word = no => states[o] = "yes" /\ now = "no",
         Turns(q, o, had, has, now = "yes", may, verbs, yes, no)
  PROVE  Agreeable(then, has, later, may, yes)
<1> DEFINE said(x) == LastSaid(q.reply, x, verbs)
<1>1. /\ \A x : x # o => (x \in has <=> x \in had) /\ said(x) = "none"
      /\ now = "yes" /\ o \in may => o \in has /\ said(o) = IF o \in had THEN "none" ELSE yes
      /\ now # "yes" => o \notin has /\ said(o) = IF o \in had THEN no ELSE "none"
  BY DEF Turns
<1> HIDE DEF said
<1>2. o \in may
  <2>1. CASE word = yes
    BY <2>1
  <2>2. CASE word = no
    BY <2>2 DEF Agreeable, StaysOff
  <2> QED
    BY <2>1, <2>2
<1>3. ASSUME NEW x \in Options \cap may
      PROVE  Converges(then[x], x \in has, Later(rest[x], said(x)), yes)
  <2>1. Converges(states[x], x \in had, Later(IF x = o THEN word ELSE "none", rest[x]), yes)
    BY <1>3 DEF Agreeable, Precedes
  <2>2. CASE x # o
    <3>1. Later(IF x = o THEN word ELSE "none", rest[x]) = rest[x] /\ Later(rest[x], said(x)) = rest[x]
      BY <1>1, <2>2, LaterLaws
    <3>2. (x \in has <=> x \in had) /\ then[x] = states[x]
      BY <1>1, <1>3, <2>2 DEF Turned
    <3> QED
      BY <2>1, <3>1, <3>2 DEF Converges
  <2>3. CASE x = o
    <3> DEFINE after == rest[o]
    <3>1. states[o] \in States
      OBVIOUS
    <3>2. Converges(states[o], o \in had, Later(word, after), yes)
      BY <2>1, <2>3
    <3> HIDE DEF after
    <3>3. Converges(now, o \in has, Later(after, said(o)), yes)
      <4>1. CASE word = yes
        <5>1. Converges("no", o \in had, Later(yes, after), yes) /\ "no" \in States
          BY <3>2, <4>1 DEF States
        <5>2. /\ Converges("yes", TRUE, Later(after, IF o \in had THEN "none" ELSE yes), yes)
              /\ Converges("no", FALSE, Later(after, IF o \in had THEN no ELSE "none"), yes)
          BY <5>1, HearsYes
        <5> QED
          BY <1>1, <1>2, <5>2 DEF Converges
      <4>2. CASE word = no
        <5>1. Converges("yes", o \in had, Later(no, after), yes) /\ "yes" \in States /\ now = "no"
          BY <3>2, <4>2 DEF States
        <5>2. Converges("no", FALSE, Later(after, IF o \in had THEN no ELSE "none"), yes)
          BY <5>1, HearsNo
        <5> QED
          BY <1>1, <5>1, <5>2 DEF Converges
      <4> QED
        BY <4>1, <4>2
    <3> QED
      BY <2>3, <3>3 DEF after, Turned
  <2> QED
    BY <2>2, <2>3
<1>4. ASSUME NEW x \in Options \ may PROVE StaysOff(then[x], x \in has)
  BY <1>1, <1>2, <1>4 DEF Agreeable, StaysOff, Turned
<1> QED
  BY <1>3, <1>4 DEF Agreeable, Follows, said

\* And when it asks of its own accord.
LEMMA AsksFor ==
  ASSUME NEW yes, NEW no, Pair(yes, no), NEW may, NEW verbs, NEW states \in [Options -> States], NEW had, NEW has,
         NEW last, NEW later, NEW o \in Options, NEW then, NEW q,
         Follows(later, last, q.reply, verbs),
         Turned(then, states, o, IF states[o] = "no" THEN "asked on" ELSE "asked off"),
         Agreeable(states, had, last, may, yes), states[o] \in {"no", "yes"},
         Turns(q, o, had, has, states[o] = "no", may, verbs, yes, no)
  PROVE  Agreeable(then, has, later, may, yes)
<1> DEFINE said(x) == LastSaid(q.reply, x, verbs)
           now == IF states[o] = "no" THEN "asked on" ELSE "asked off"
<1>1. /\ \A x : x # o => (x \in has <=> x \in had) /\ said(x) = "none"
      /\ states[o] = "no" /\ o \in may => o \in has /\ said(o) = IF o \in had THEN "none" ELSE yes
      /\ states[o] = "no" /\ o \notin may => (o \in has <=> o \in had)
      /\ states[o] # "no" => o \notin has /\ said(o) = IF o \in had THEN no ELSE "none"
  BY DEF Turns
<1> HIDE DEF said
<1>2. ASSUME NEW x \in Options \cap may
      PROVE  Converges(then[x], x \in has, Later(last[x], said(x)), yes)
  <2>1. Converges(states[x], x \in had, last[x], yes)
    BY <1>2 DEF Agreeable, Precedes
  <2>2. CASE x # o
    <3>1. Later(last[x], said(x)) = last[x]
      BY <1>1, <2>2, LaterLaws
    <3>2. (x \in has <=> x \in had) /\ then[x] = states[x]
      BY <1>1, <1>2, <2>2 DEF Turned
    <3> QED
      BY <2>1, <3>1, <3>2 DEF Converges
  <2>3. CASE x = o
    <3> DEFINE before == last[o]
    <3>1. Converges(states[o], o \in had, before, yes) /\ o \in may
      BY <1>2, <2>1, <2>3
    <3> HIDE DEF before
    <3>2. Converges(now, o \in has, Later(before, said(o)), yes)
      <4>1. CASE states[o] = "no"
        <5>1. Converges("no", o \in had, before, yes) /\ "no" \in States
          BY <3>1, <4>1 DEF States
        <5>2. Converges("asked on", TRUE, Later(before, IF o \in had THEN "none" ELSE yes), yes)
          BY <5>1, Asks
        <5> QED
          BY <1>1, <3>1, <4>1, <5>2
      <4>2. CASE states[o] = "yes"
        <5>1. Converges("yes", o \in had, before, yes) /\ "yes" \in States
          BY <3>1, <4>2 DEF States
        <5>2. Converges("asked off", FALSE, Later(before, IF o \in had THEN no ELSE "none"), yes)
          BY <5>1, Asks
        <5> QED
          BY <1>1, <4>2, <5>2 DEF Converges
      <4> QED
        BY <4>1, <4>2
    <3> QED
      BY <2>3, <3>2 DEF before, Turned
  <2> QED
    BY <2>2, <2>3
<1>3. ASSUME NEW x \in Options \ may PROVE StaysOff(then[x], x \in has)
  BY <1>1, <1>3 DEF Agreeable, StaysOff, Turned
<1> QED
  BY <1>2, <1>3 DEF Agreeable, Follows, said, now

\* What does not touch the option does not disturb the agreement.
LEMMA StaysAgreed ==
  ASSUME NEW states, NEW had, NEW has, NEW last, NEW later, NEW may, NEW yes,
         Agreeable(states, had, last, may, yes),
         \A o \in Options : (o \in has <=> o \in had) /\ later[o] = last[o]
  PROVE  Agreeable(states, has, later, may, yes)
BY DEF Agreeable, Converges, StaysOff

\* What the server sends for the terminal is on its way.
LEMMA OutputGrows ==
  ASSUME TypeOK, OutputIsOnItsWay, UNCHANGED clientVars, NEW d \in Seq(Bytes),
         Ahead.data \in Seq(Bytes), Ahead'.data = Ahead.data \o d, sent' = sent \o d
  PROVE  OutputIsOnItsWay' /\ sent' \in Seq(Bytes)
<1>1. events \in Seq(Events) /\ sent \in Seq(Bytes) /\ parsed.data \in Seq(Bytes)
  BY DEF TypeOK, ClientTypeOK, ServerTypeOK
<1>2. Heard \in Seq(Bytes) /\ Heard' = Heard
  BY <1>1, HeardMore DEF Heard, HeardIn, clientVars
<1>3. sent' \in Seq(Bytes)
  BY <1>1, ConcatElements
<1>4. ASSUME listening, reader = "ended" PROVE IsPrefix(Heard, sent')
  BY <1>1, <1>2, <1>4, PrefixLaws DEF OutputIsOnItsWay
<1>5. ASSUME listening, reader # "ended" PROVE Heard \o parsed.data \o Ahead'.data = sent'
  <2> DEFINE h == Heard \o parsed.data
             a == Ahead.data
  <2>1. h \in Seq(Bytes) /\ a \in Seq(Bytes) /\ d \in Seq(Bytes)
    BY <1>1, <1>2, ConcatElements
  <2>2. h \o a = sent /\ Ahead'.data = a \o d
    BY <1>5 DEF OutputIsOnItsWay
  <2> HIDE DEF h, a
  <2>3. (h \o a) \o d = h \o (a \o d)
    <3>1. Joined(Joined(h, a), d) = Joined(h, Joined(a, d))
      BY ONLY <2>1, JoinedAssoc
    <3> QED
      BY <3>1 DEF Joined
  <2>4. h \o Ahead'.data = sent'
    BY <2>2, <2>3
  <2> QED
    BY <2>4 DEF h
<1> QED
  BY <1>2, <1>3, <1>4, <1>5 DEF OutputIsOnItsWay, clientVars

\* What the server may make of a word about an option, and say to it.
Silently(word, yes, was, now) ==
  /\ word = yes => \/ was \in {"asked on", "yes"} /\ now = "yes"
                   \/ was = "asked off" /\ now = "no"
  /\ word # yes => was # "yes" /\ now = "no"
Aloud(word, yes, was, now) ==
  /\ word = yes => was = "no"
  /\ word # yes => was = "yes" /\ now = "no"
Reacts(word, yes, was, now, w, accept, refuse) ==
  /\ now \in {"yes", "no"}
  /\ \/ w = <<>> /\ Silently(word, yes, was, now)
     \/ w = (IF now = "yes" THEN accept ELSE refuse) /\ Aloud(word, yes, was, now)

\* A server's reaction to a word is one of the above.
LEMMA OnWord ==
  ASSUME NEW was \in States, NEW word, NEW yes, NEW accept, NEW refuse,
         NEW r \in IF word = yes THEN OnYes(was, accept, refuse) ELSE OnNo(was, refuse)
  PROVE  Reacts(word, yes, was, r.now, r.say, accept, refuse)
<1> DEFINE none == <<>>
<1>1. CASE word = yes
  <2>1. r \in OnYes(was, accept, refuse)
    BY <1>1
  <2>2. CASE was = "no"
    <3>1. r = [now |-> "yes", say |-> accept] \/ r = [now |-> "no", say |-> refuse]
      BY <2>1, <2>2 DEF OnYes
    <3> QED
      BY <1>1, <2>2, <3>1 DEF Reacts, Silently, Aloud
  <2>3. CASE was \in {"asked on", "yes"}
    <3> DEFINE only == [now |-> "yes", say |-> none]
    <3>1. OnYes(was, accept, refuse) = {only}
      BY <2>3 DEF OnYes
    <3>2. r = only
      BY <2>1, <3>1
    <3> QED
      BY <1>1, <2>3, <3>2 DEF Reacts, Silently, Aloud
  <2>4. CASE was = "asked off"
    <3> DEFINE only == [now |-> "no", say |-> none]
    <3>1. OnYes(was, accept, refuse) = {only}
      BY <2>4 DEF OnYes
    <3>2. r = only
      BY <2>1, <3>1
    <3> QED
      BY <1>1, <2>4, <3>2 DEF Reacts, Silently, Aloud
  <2> QED
    BY <2>2, <2>3, <2>4 DEF States
<1>2. CASE word # yes
  <2>1. r.now = "no" /\ r.say = IF was = "yes" THEN refuse ELSE none
    BY <1>2 DEF OnNo
  <2> HIDE DEF none
  <2> QED
    BY <1>2, <2>1 DEF none, Reacts, Silently, Aloud
<1> QED
  BY <1>1, <1>2

\* The next message heard, and what is behind it.
LEMMA HeardNext ==
  ASSUME IInv, toServer # <<>>
  PROVE  /\ Head(toServer) \in Messages /\ Tail(toServer) \in Seq(Messages)
         /\ SizeFollows(Tail(toServer))
         /\ Head(toServer) = Say("WILL", "NAWS") => Tail(toServer) # <<>> /\ Head(Tail(toServer)).say = "SIZE"
         /\ \A o, verbs : LastOnTheWay(o, verbs)
                            = Later(Word(Head(toServer), o, verbs), Later(LastSaid(Tail(toServer), o, verbs), Rest(o, verbs)))
<1>1. toServer \in Seq(Messages) /\ SizeFollows(toServer)
  BY DEF IInv, TypeOK, ServerTypeOK, SizeIsTold
<1>2. /\ Head(toServer) \in Messages /\ Tail(toServer) \in Seq(Messages)
      /\ SizeFollows(Tail(toServer))
      /\ Head(toServer) = Say("WILL", "NAWS") => Tail(toServer) # <<>> /\ Head(Tail(toServer)).say = "SIZE"
  BY <1>1, TailElements, SizeFollowsTail
<1>3. \A o, verbs : LastSaid(toServer, o, verbs) = Later(Word(Head(toServer), o, verbs), LastSaid(Tail(toServer), o, verbs))
  BY <1>1, LastSaidTail
<1>4. \A o, verbs : LastOnTheWay(o, verbs)
                      = Later(Word(Head(toServer), o, verbs), Later(LastSaid(Tail(toServer), o, verbs), Rest(o, verbs)))
  BY <1>3, OnTheWayIs, LaterLaws
<1> QED
  BY <1>2, <1>4

------------------------------------------------------------------------------
(* The steps                                                               *)

\* Words between the two ends.
US == {"WILL", "WONT"}
THEM == {"DO", "DONT"}

\* A message says something of at most one option.
LEMMA Unsaid ==
  ASSUME NEW m \in Messages, NEW verbs
  PROVE  /\ m.say \notin verbs => \A o : Word(m, o, verbs) = "none"
         /\ m.say \in verbs => \A o : Word(m, o, verbs) = IF o = m.option THEN m.say ELSE "none"
         /\ m.say \in Verbs => m.option \in Options
         /\ m.say = "WILL" => m.option \in WE_MAY_ENABLE /\ m = Say("WILL", m.option)
         /\ m.say = "DO" => m.option \in THEY_MAY_ENABLE
         /\ m.say = "SIZE" => m.size \in Nat \ {0}
<1>1. /\ m.say \notin verbs => \A o : Word(m, o, verbs) = "none"
      /\ m.say \in verbs => \A o : Word(m, o, verbs) = IF o = m.option THEN m.say ELSE "none"
  BY DEF Word
<1>2. /\ m.say \in Verbs => m.option \in Options
      /\ m.say = "WILL" => m.option \in WE_MAY_ENABLE /\ m = Say("WILL", m.option)
      /\ m.say = "DO" => m.option \in THEY_MAY_ENABLE
      /\ m.say = "SIZE" => m.size \in Nat \ {0}
  BY DEF Messages, Talk, Say, Verbs, TerminalIs, HereIAm, Typed
<1> QED
  BY <1>1, <1>2

\* What comes of what the server says of an option of the client's.
Moves(t, w, q, thereWas, there, here, verbs) ==
  /\ w \in Seq(Bytes) /\ q.telnet.state = "Data" /\ q.data = <<>> /\ q.reply \in Seq(Messages)
  /\ there = thereWas /\ here \subseteq Options
  /\ Mute(q.reply, verbs)

\* A command about this end's options leaves the other's alone, and the other way
\* round.
LEMMA SpokenOfUs ==
  ASSUME NEW t \in Telnets, t.state = "Data", t.enabledHere \cup t.enabledThere \subseteq Options,
         NEW o \in Options, NEW verb \in {"DO", "DONT"}, NEW w, w = Spoken(verb, o), NEW q, q = Receive(t, w)
  PROVE  Moves(t, w, q, t.enabledThere, q.telnet.enabledThere, q.telnet.enabledHere, THEM)
<1>1. w \in Seq(Bytes)
  BY SpokenIs DEF Verbs
<1>5. q = Receive(t, Spoken(verb, o))
  OBVIOUS
<1>2. /\ q.telnet.state = "Data" /\ q.data = <<>> /\ q.reply \in Seq(Messages)
      /\ q.telnet.enabledThere = t.enabledThere
      /\ Turns(q, o, t.enabledHere, q.telnet.enabledHere, verb = "DO", WE_MAY_ENABLE, {"WILL", "WONT"}, "WILL", "WONT")
  BY ONLY t \in Telnets, t.state = "Data", o \in Options, verb \in {"DO", "DONT"}, <1>5, SpokenDo
<1>4. Mute(q.reply, {"DO", "DONT"})
  BY ONLY t \in Telnets, t.state = "Data", o \in Options, verb \in {"DO", "DONT"}, <1>5, SpokenDo
<1>3. q.telnet.enabledHere \subseteq Options
  BY <1>2 DEF Turns
<1> QED
  BY <1>1, <1>2, <1>3, <1>4, Zenon DEF THEM, Moves

LEMMA SaidOfUs ==
  ASSUME NEW t \in Telnets, t.state = "Data", t.enabledHere \cup t.enabledThere \subseteq Options,
         NEW o \in Options, NEW word, NEW was, NEW now, NEW w, NEW q, q = Receive(t, w),
         Reacts(word, "WILL", was, now, w, Spoken("DO", o), Spoken("DONT", o))
  PROVE  Moves(t, w, q, t.enabledThere, q.telnet.enabledThere, q.telnet.enabledHere, THEM)
<1>1. w = <<>> \/ w = Spoken("DO", o) \/ w = Spoken("DONT", o)
  BY DEF Reacts
<1>2. CASE w = <<>>
  <2>1. q = Silent(t) /\ w \in Seq(Bytes)
    BY <1>2, ReceiveFew
  <2>2. q.telnet = t /\ q.data = <<>> /\ q.reply = <<>>
    BY <2>1 DEF Silent
  <2> QED
    BY <2>1, <2>2, LastSaidFew DEF Mute, Moves
<1>3. CASE w = Spoken("DO", o)
  BY <1>3, SpokenOfUs
<1>4. CASE w = Spoken("DONT", o)
  BY <1>4, SpokenOfUs
<1> QED
  BY <1>1, <1>2, <1>3, <1>4

\* The agreement on this end's options, after the server has heard a word and
\* reacted.
LEMMA AgreedOfUs ==
  ASSUME NEW t \in Telnets, t.state = "Data", NEW o \in Options, NEW w, NEW q, q = Receive(t, w),
         NEW states \in [Options -> States], NEW last, NEW rest, NEW later, NEW word \in US, NEW now, NEW then,
         Precedes(last, o, word, rest), Follows(later, rest, q.reply, US),
         Turned(then, states, o, now), word = "WILL" => o \in WE_MAY_ENABLE,
         Agreeable(states, t.enabledHere, last, WE_MAY_ENABLE, "WILL"),
         Reacts(word, "WILL", states[o], now, w, Spoken("DO", o), Spoken("DONT", o))
  PROVE  Agreeable(then, q.telnet.enabledHere, later, WE_MAY_ENABLE, "WILL")
<1>1. Pair("WILL", "WONT") /\ word \in {"WILL", "WONT"} /\ now \in {"yes", "no"} /\ now \in States
  BY DEF Pair, US, States, Reacts
<1>2. CASE w = <<>> /\ Silently(word, "WILL", states[o], now)
  <2>1. q = Silent(t)
    BY <1>2, ReceiveFew
  <2>2. q.telnet = t /\ \A x, verbs : LastSaid(q.reply, x, verbs) = "none"
    BY <2>1, LastSaidFew DEF Silent
  <2>3. Agreeable(then, t.enabledHere, rest, WE_MAY_ENABLE, "WILL")
    <3>1. /\ word = "WILL" => /\ o \in WE_MAY_ENABLE
                              /\ \/ states[o] \in {"asked on", "yes"} /\ now = "yes"
                                 \/ states[o] = "asked off" /\ now = "no"
          /\ word = "WONT" => states[o] # "yes" /\ now = "no"
      BY <1>2 DEF Silently
    <3> QED
      BY <1>1, <3>1, HearsQuietly
  <2> QED
    <3>1. ASSUME NEW x \in Options PROVE later[x] = rest[x]
      <4>1. LastSaid(q.reply, x, US) = "none" /\ later[x] = Later(rest[x], LastSaid(q.reply, x, US))
        BY <2>2 DEF Follows
      <4> QED
        BY <4>1, LaterLaws
    <3> QED
      BY <2>2, <2>3, <3>1, StaysAgreed
<1>3. CASE w = (IF now = "yes" THEN Spoken("DO", o) ELSE Spoken("DONT", o)) /\ Aloud(word, "WILL", states[o], now)
  <2>1. CASE now = "yes"
    <3>1. Turns(q, o, t.enabledHere, q.telnet.enabledHere, "DO" = "DO", WE_MAY_ENABLE, {"WILL", "WONT"}, "WILL", "WONT")
      BY <1>3, <2>1, SpokenDo
    <3>2. Turns(q, o, t.enabledHere, q.telnet.enabledHere, now = "yes", WE_MAY_ENABLE, US, "WILL", "WONT")
      BY <2>1, <3>1 DEF Turns, US
    <3> QED
      BY <1>1, <1>3, <3>2, HearsAndSays DEF Aloud
  <2>2. CASE now = "no"
    <3>1. Turns(q, o, t.enabledHere, q.telnet.enabledHere, "DONT" = "DO", WE_MAY_ENABLE, {"WILL", "WONT"}, "WILL", "WONT")
      BY <1>3, <2>2, SpokenDo
    <3>2. Turns(q, o, t.enabledHere, q.telnet.enabledHere, now = "yes", WE_MAY_ENABLE, US, "WILL", "WONT")
      BY <2>2, <3>1 DEF Turns, US
    <3> QED
      BY <1>1, <1>3, <3>2, HearsAndSays DEF Aloud
  <2> QED
    BY <1>1, <2>1, <2>2
<1> QED
  BY <1>2, <1>3, Zenon DEF Reacts

\* And of an option of the server's own.
LEMMA SpokenOfThem ==
  ASSUME NEW t \in Telnets, t.state = "Data", t.enabledThere \cup t.enabledHere \subseteq Options,
         NEW o \in Options, NEW verb \in {"WILL", "WONT"}, NEW w, w = Spoken(verb, o), NEW q, q = Receive(t, w)
  PROVE  Moves(t, w, q, t.enabledHere, q.telnet.enabledHere, q.telnet.enabledThere, US)
<1>1. w \in Seq(Bytes)
  BY SpokenIs DEF Verbs
<1>5. q = Receive(t, Spoken(verb, o))
  OBVIOUS
<1>2. /\ q.telnet.state = "Data" /\ q.data = <<>> /\ q.reply \in Seq(Messages)
      /\ q.telnet.enabledHere = t.enabledHere
      /\ Turns(q, o, t.enabledThere, q.telnet.enabledThere, verb = "WILL", THEY_MAY_ENABLE, {"DO", "DONT"}, "DO", "DONT")
  BY ONLY t \in Telnets, t.state = "Data", o \in Options, verb \in {"WILL", "WONT"}, <1>5, SpokenWill
<1>4. Mute(q.reply, {"WILL", "WONT"})
  BY ONLY t \in Telnets, t.state = "Data", o \in Options, verb \in {"WILL", "WONT"}, <1>5, SpokenWill
<1>3. q.telnet.enabledThere \subseteq Options
  BY <1>2 DEF Turns
<1> QED
  BY <1>1, <1>2, <1>3, <1>4, Zenon DEF US, Moves

LEMMA SaidOfThem ==
  ASSUME NEW t \in Telnets, t.state = "Data", t.enabledThere \cup t.enabledHere \subseteq Options,
         NEW o \in Options, NEW word, NEW was, NEW now, NEW w, NEW q, q = Receive(t, w),
         Reacts(word, "DO", was, now, w, Spoken("WILL", o), Spoken("WONT", o))
  PROVE  Moves(t, w, q, t.enabledHere, q.telnet.enabledHere, q.telnet.enabledThere, US)
<1>1. w = <<>> \/ w = Spoken("WILL", o) \/ w = Spoken("WONT", o)
  BY DEF Reacts
<1>2. CASE w = <<>>
  <2>1. q = Silent(t) /\ w \in Seq(Bytes)
    BY <1>2, ReceiveFew
  <2>2. q.telnet = t /\ q.data = <<>> /\ q.reply = <<>>
    BY <2>1 DEF Silent
  <2> QED
    BY <2>1, <2>2, LastSaidFew DEF Mute, Moves
<1>3. CASE w = Spoken("WILL", o)
  BY <1>3, SpokenOfThem
<1>4. CASE w = Spoken("WONT", o)
  BY <1>4, SpokenOfThem
<1> QED
  BY <1>1, <1>2, <1>3, <1>4

\* The agreement on the other end's.
LEMMA AgreedOfThem ==
  ASSUME NEW t \in Telnets, t.state = "Data", NEW o \in Options, NEW w, NEW q, q = Receive(t, w),
         NEW states \in [Options -> States], NEW last, NEW rest, NEW later, NEW word \in THEM, NEW now, NEW then,
         Precedes(last, o, word, rest), Follows(later, rest, q.reply, THEM),
         Turned(then, states, o, now), word = "DO" => o \in THEY_MAY_ENABLE,
         Agreeable(states, t.enabledThere, last, THEY_MAY_ENABLE, "DO"),
         Reacts(word, "DO", states[o], now, w, Spoken("WILL", o), Spoken("WONT", o))
  PROVE  Agreeable(then, q.telnet.enabledThere, later, THEY_MAY_ENABLE, "DO")
<1>1. Pair("DO", "DONT") /\ word \in {"DO", "DONT"} /\ now \in {"yes", "no"} /\ now \in States
  BY DEF Pair, THEM, States, Reacts
<1>2. CASE w = <<>> /\ Silently(word, "DO", states[o], now)
  <2>1. q = Silent(t)
    BY <1>2, ReceiveFew
  <2>2. q.telnet = t /\ \A x, verbs : LastSaid(q.reply, x, verbs) = "none"
    BY <2>1, LastSaidFew DEF Silent
  <2>3. Agreeable(then, t.enabledThere, rest, THEY_MAY_ENABLE, "DO")
    <3>1. /\ word = "DO" => /\ o \in THEY_MAY_ENABLE
                              /\ \/ states[o] \in {"asked on", "yes"} /\ now = "yes"
                                 \/ states[o] = "asked off" /\ now = "no"
          /\ word = "DONT" => states[o] # "yes" /\ now = "no"
      BY <1>2 DEF Silently
    <3> QED
      BY <1>1, <3>1, HearsQuietly
  <2> QED
    <3>1. ASSUME NEW x \in Options PROVE later[x] = rest[x]
      <4>1. LastSaid(q.reply, x, THEM) = "none" /\ later[x] = Later(rest[x], LastSaid(q.reply, x, THEM))
        BY <2>2 DEF Follows
      <4> QED
        BY <4>1, LaterLaws
    <3> QED
      BY <2>2, <2>3, <3>1, StaysAgreed
<1>3. CASE w = (IF now = "yes" THEN Spoken("WILL", o) ELSE Spoken("WONT", o)) /\ Aloud(word, "DO", states[o], now)
  <2>1. CASE now = "yes"
    <3>1. Turns(q, o, t.enabledThere, q.telnet.enabledThere, "WILL" = "WILL", THEY_MAY_ENABLE, {"DO", "DONT"}, "DO", "DONT")
      BY <1>3, <2>1, SpokenWill
    <3>2. Turns(q, o, t.enabledThere, q.telnet.enabledThere, now = "yes", THEY_MAY_ENABLE, THEM, "DO", "DONT")
      BY <2>1, <3>1 DEF Turns, THEM
    <3> QED
      BY <1>1, <1>3, <3>2, HearsAndSays DEF Aloud
  <2>2. CASE now = "no"
    <3>1. Turns(q, o, t.enabledThere, q.telnet.enabledThere, "WONT" = "WILL", THEY_MAY_ENABLE, {"DO", "DONT"}, "DO", "DONT")
      BY <1>3, <2>2, SpokenWill
    <3>2. Turns(q, o, t.enabledThere, q.telnet.enabledThere, now = "yes", THEY_MAY_ENABLE, THEM, "DO", "DONT")
      BY <2>2, <3>1 DEF Turns, THEM
    <3> QED
      BY <1>1, <1>3, <3>2, HearsAndSays DEF Aloud
  <2> QED
    BY <1>1, <2>1, <2>2
<1> QED
  BY <1>2, <1>3, Zenon DEF Reacts

\* What is left of the rest when the server has heard a message.
Behind(verbs) == [x \in Options |-> Later(LastSaid(Tail(toServer), x, verbs), Rest(x, verbs))]

LEMMA ClientStays ==
  ASSUME IInv, UNCHANGED clientVars
  PROVE  ClientTypeOK' /\ EndIsReported'
         /\ SizeFollows(parsed.reply)' /\ (\A k \in DOMAIN commands : commands[k].do = "Raw" => SizeFollows(commands[k].bytes))'
BY DEF IInv, TypeOK, ClientTypeOK, EndIsReported, SizeIsTold, clientVars

LEMMA OnTheWayNext ==
  \A o, verbs : LastOnTheWay(o, verbs)' = Later(LastSaid(toServer', o, verbs), Rest(o, verbs)')
BY LaterLaws DEF LastOnTheWay, Rest

LEMMA ConvergeNext ==
  ASSUME socket' = "open" /\ writer' = "waiting" =>
           /\ Agreeable(client', Ahead'.telnet.enabledHere, LastOf(US)', WE_MAY_ENABLE, "WILL")
           /\ Agreeable(server', Ahead'.telnet.enabledThere, LastOf(THEM)', THEY_MAY_ENABLE, "DO")
  PROVE  OptionsConverge'
BY DEF OptionsConverge, Agreeable, LastOf, US, THEM

LEMMA OutputStays ==
  ASSUME TypeOK, OutputIsOnItsWay, UNCHANGED <<clientVars, sent>>,
         Ahead.data \in Seq(Bytes), NEW d, d = <<>>, Ahead'.data = Ahead.data \o d
  PROVE  OutputIsOnItsWay'
<1>1. d \in Seq(Bytes) /\ sent \in Seq(Bytes)
  BY DEF TypeOK, ServerTypeOK
<1>2. sent' = sent \o d
  BY <1>1, ConcatLaws
<1> QED
  BY <1>1, <1>2, OutputGrows

\* ServerHears, by what is heard: of an option here, of one there, or neither.
LEMMA HearsOfUs ==
  ASSUME IInv, Serves, NEW m, m = Head(toServer), m.say \in US, toServer' = Tail(toServer), NEW now, NEW w,
         Reacts(m.say, "WILL", client[m.option], now, w, Spoken("DO", m.option), Spoken("DONT", m.option)),
         client' = [client EXCEPT ![m.option] = now], toClient' = toClient \o w,
         UNCHANGED <<server, told, clientVars, socket, sent, requests, counters>>
  PROVE  IInv'
<1> DEFINE o == m.option
           q == Receive(Ahead.telnet, w)
           last == LastOf(US)
           rest == Behind(US)
           later == LastOf(US)'
<1>1. /\ TypeOK /\ EndIsReported /\ OutputIsOnItsWay /\ ServerIsWellSpoken /\ OptionsConverge /\ SizeIsTold
      /\ socket = "open" /\ toServer # <<>>
  BY DEF IInv, Serves
<1>2. /\ m \in Messages /\ Tail(toServer) \in Seq(Messages) /\ SizeFollows(Tail(toServer))
      /\ m = Say("WILL", "NAWS") => Tail(toServer) # <<>> /\ Head(Tail(toServer)).say = "SIZE"
      /\ \A x, verbs : LastOnTheWay(x, verbs)
           = Later(Word(m, x, verbs), Later(LastSaid(Tail(toServer), x, verbs), Rest(x, verbs)))
  BY <1>1, HeardNext
<1>3. /\ o \in Options /\ (m.say = "WILL" => o \in WE_MAY_ENABLE /\ m = Say("WILL", o))
      /\ \A x : Word(m, x, US) = IF x = o THEN m.say ELSE "none"
      /\ \A x : Word(m, x, THEM) = "none"
  BY <1>2, Unsaid DEF US, THEM, Verbs
<1>4. client \in [Options -> States] /\ client[o] \in States
  BY <1>1, <1>3 DEF TypeOK, ServerTypeOK
<1>5. Ahead.telnet \in Telnets /\ Ahead.telnet.state = "Data"
      /\ Ahead.telnet.enabledHere \cup Ahead.telnet.enabledThere \subseteq Options
  BY <1>1, AheadType DEF Parses, ServerIsWellSpoken
<1>6. Moves(Ahead.telnet, w, q, Ahead.telnet.enabledThere, q.telnet.enabledThere, q.telnet.enabledHere, THEM)
  BY <1>3, <1>5, SaidOfUs
<1>7. /\ w \in Seq(Bytes) /\ q.telnet.state = "Data" /\ q.data = <<>> /\ q.reply \in Seq(Messages)
      /\ q.telnet.enabledHere \cup q.telnet.enabledThere \subseteq Options
      /\ q.telnet.enabledThere = Ahead.telnet.enabledThere
      /\ \A x : LastSaid(q.reply, x, THEM) = "none"
  BY <1>5, <1>6 DEF Mute, Moves
<1> HIDE DEF q
<1>8. /\ toClient' \in Seq(Bytes) /\ ServerIsWellSpoken'
      /\ Ahead.data \in Seq(Bytes) /\ q.data \in Seq(Bytes)
      /\ Ahead'.telnet = q.telnet /\ Ahead'.data = Ahead.data \o q.data
      /\ \A x, verbs : Rest(x, verbs)' = Later(Rest(x, verbs), LastSaid(q.reply, x, verbs))
  BY <1>7, ServerSays DEF q
<1>9. UNCHANGED clientVars /\ server' = server /\ told' = told /\ socket' = socket /\ sent' = sent
      /\ requests' = requests /\ inputs' = inputs /\ cuts' = cuts
  BY DEF counters
<1>10. OutputIsOnItsWay'
  BY <1>1, <1>7, <1>8, <1>9, OutputStays
<1>11. TypeOK'
  <2>1. ClientTypeOK'
    BY <1>9, ClientStays
  <2>2. client' \in [Options -> States]
    BY <1>4 DEF Reacts, States
  <2>3. ServerTypeOK'
    BY <1>1, <1>2, <1>8, <1>9, <2>2 DEF TypeOK, ServerTypeOK
  <2>4. CountersOK'
    BY <1>1, <1>9 DEF TypeOK, CountersOK
  <2> QED
    BY <2>1, <2>3, <2>4 DEF TypeOK
<1>12. SizeIsTold'
  <2>1. /\ SizeFollows(toServer') /\ SizeFollows(parsed.reply)'
        /\ (\A k \in DOMAIN commands : commands[k].do = "Raw" => SizeFollows(commands[k].bytes))'
    BY <1>2, <1>9, ClientStays
  <2>2. ASSUME "NAWS" \in Options, client'["NAWS"] = "yes", told' = 0
        PROVE  toServer' # <<>> /\ Head(toServer').say = "SIZE"
    <3>1. client["NAWS"] # "yes"
      <4>1. m.say # "SIZE"
        BY DEF US
      <4> QED
        BY <1>1, <1>9, <2>2, <4>1 DEF SizeIsTold
    <3>2. o = "NAWS" /\ now = "yes"
      BY <1>4, <2>2, <3>1
    <3>3. m.say = "WILL"
      BY <3>2 DEF US, Reacts, Silently, Aloud
    <3> QED
      BY <1>2, <1>3, <3>2, <3>3
  <2> QED
    BY <2>1, <2>2 DEF SizeIsTold
<1>13. OptionsConverge'
  <2> SUFFICES ASSUME writer = "waiting"
               PROVE  /\ Agreeable(client', Ahead'.telnet.enabledHere, LastOf(US)', WE_MAY_ENABLE, "WILL")
                      /\ Agreeable(server', Ahead'.telnet.enabledThere, LastOf(THEM)', THEY_MAY_ENABLE, "DO")
    BY <1>9, ConvergeNext DEF clientVars
  <2>1. /\ Agreeable(client, Ahead.telnet.enabledHere, LastOf(US), WE_MAY_ENABLE, "WILL")
        /\ Agreeable(server, Ahead.telnet.enabledThere, LastOf(THEM), THEY_MAY_ENABLE, "DO")
    BY <1>1, ConvergeIs DEF US, THEM
  <2>2. Precedes(last, o, m.say, rest)
    BY <1>2, <1>3 DEF Precedes, LastOf, Behind
  <2>3. \A x, verbs : LastOnTheWay(x, verbs)'
          = Later(Later(LastSaid(Tail(toServer), x, verbs), Rest(x, verbs)), LastSaid(q.reply, x, verbs))
    BY <1>8, OnTheWayNext, LaterLaws
  <2>4. Follows(later, rest, q.reply, US)
    BY <2>3 DEF Follows, LastOf, Behind
  <2>5. Turned(client', client, o, now)
    BY DEF Turned
  <2>6. \A x \in Options : LastOf(THEM)'[x] = LastOf(THEM)[x]
    BY <1>2, <1>3, <1>7, <2>3, LaterLaws DEF LastOf
  <2> HIDE DEF last, rest, later, o
  <2>7. Agreeable(client', q.telnet.enabledHere, later, WE_MAY_ENABLE, "WILL")
    <3> DEFINE t == Ahead.telnet
               word == m.say
    <3>1. t \in Telnets /\ t.state = "Data" /\ o \in Options /\ q = Receive(t, w) /\ word \in US
      BY <1>3, <1>5 DEF q
    <3>2. client \in [Options -> States] /\ Precedes(last, o, word, rest)
      BY <1>4, <2>2
    <3>3. Agreeable(client, t.enabledHere, last, WE_MAY_ENABLE, "WILL") /\ (word = "WILL" => o \in WE_MAY_ENABLE)
      BY <1>3, <2>1 DEF last
    <3>4. Reacts(word, "WILL", client[o], now, w, Spoken("DO", o), Spoken("DONT", o))
      BY DEF o
    <3> HIDE DEF t, word
    <3> QED
      BY <3>1, <3>2, <3>3, <3>4, <2>4, <2>5, AgreedOfUs
  <2>8. Agreeable(server', Ahead'.telnet.enabledThere, LastOf(THEM)', THEY_MAY_ENABLE, "DO")
    BY <1>7, <1>8, <1>9, <2>1, <2>6, StaysAgreed
  <2> QED
    BY <1>8, <2>7, <2>8 DEF later
<1> QED
  BY <1>8, <1>9, <1>10, <1>11, <1>12, <1>13, ClientStays DEF IInv

LEMMA HearsOfThem ==
  ASSUME IInv, Serves, NEW m, m = Head(toServer), m.say \in THEM, toServer' = Tail(toServer), NEW now, NEW w,
         Reacts(m.say, "DO", server[m.option], now, w, Spoken("WILL", m.option), Spoken("WONT", m.option)),
         server' = [server EXCEPT ![m.option] = now], toClient' = toClient \o w,
         UNCHANGED <<client, told, clientVars, socket, sent, requests, counters>>
  PROVE  IInv'
<1> DEFINE o == m.option
           q == Receive(Ahead.telnet, w)
           last == LastOf(THEM)
           rest == Behind(THEM)
           later == LastOf(THEM)'
<1>1. /\ TypeOK /\ EndIsReported /\ OutputIsOnItsWay /\ ServerIsWellSpoken /\ OptionsConverge /\ SizeIsTold
      /\ socket = "open" /\ toServer # <<>>
  BY DEF IInv, Serves
<1>2. /\ m \in Messages /\ Tail(toServer) \in Seq(Messages) /\ SizeFollows(Tail(toServer))
      /\ \A x, verbs : LastOnTheWay(x, verbs)
           = Later(Word(m, x, verbs), Later(LastSaid(Tail(toServer), x, verbs), Rest(x, verbs)))
  BY <1>1, HeardNext
<1>3. /\ o \in Options /\ (m.say = "DO" => o \in THEY_MAY_ENABLE)
      /\ \A x : Word(m, x, THEM) = IF x = o THEN m.say ELSE "none"
      /\ \A x : Word(m, x, US) = "none"
  BY <1>2, Unsaid DEF THEM, US, Verbs
<1>4. server \in [Options -> States] /\ server[o] \in States
  BY <1>1, <1>3 DEF TypeOK, ServerTypeOK
<1>5. Ahead.telnet \in Telnets /\ Ahead.telnet.state = "Data"
      /\ Ahead.telnet.enabledThere \cup Ahead.telnet.enabledHere \subseteq Options
  BY <1>1, AheadType DEF Parses, ServerIsWellSpoken
<1>6. Moves(Ahead.telnet, w, q, Ahead.telnet.enabledHere, q.telnet.enabledHere, q.telnet.enabledThere, US)
  BY <1>3, <1>5, SaidOfThem
<1>7. /\ w \in Seq(Bytes) /\ q.telnet.state = "Data" /\ q.data = <<>> /\ q.reply \in Seq(Messages)
      /\ q.telnet.enabledThere \cup q.telnet.enabledHere \subseteq Options
      /\ q.telnet.enabledHere = Ahead.telnet.enabledHere
      /\ \A x : LastSaid(q.reply, x, US) = "none"
  BY <1>5, <1>6 DEF Mute, Moves
<1> HIDE DEF q
<1>8. /\ toClient' \in Seq(Bytes) /\ ServerIsWellSpoken'
      /\ Ahead.data \in Seq(Bytes) /\ q.data \in Seq(Bytes)
      /\ Ahead'.telnet = q.telnet /\ Ahead'.data = Ahead.data \o q.data
      /\ \A x, verbs : Rest(x, verbs)' = Later(Rest(x, verbs), LastSaid(q.reply, x, verbs))
  BY <1>7, ServerSays DEF q
<1>9. UNCHANGED clientVars /\ client' = client /\ told' = told /\ socket' = socket /\ sent' = sent
      /\ requests' = requests /\ inputs' = inputs /\ cuts' = cuts
  BY DEF counters
<1>10. OutputIsOnItsWay'
  BY <1>1, <1>7, <1>8, <1>9, OutputStays
<1>11. TypeOK'
  <2>1. ClientTypeOK'
    BY <1>9, ClientStays
  <2>2. server' \in [Options -> States]
    BY <1>4 DEF Reacts, States
  <2>3. ServerTypeOK'
    BY <1>1, <1>2, <1>8, <1>9, <2>2 DEF TypeOK, ServerTypeOK
  <2>4. CountersOK'
    BY <1>1, <1>9 DEF TypeOK, CountersOK
  <2> QED
    BY <2>1, <2>3, <2>4 DEF TypeOK
<1>12. SizeIsTold'
  <2>1. /\ SizeFollows(toServer') /\ SizeFollows(parsed.reply)'
        /\ (\A k \in DOMAIN commands : commands[k].do = "Raw" => SizeFollows(commands[k].bytes))'
    BY <1>2, <1>9, ClientStays
  <2>2. ASSUME "NAWS" \in Options, client'["NAWS"] = "yes", told' = 0
        PROVE  toServer' # <<>> /\ Head(toServer').say = "SIZE"
    <3>1. m.say # "SIZE"
      BY DEF THEM
    <3> QED
      BY <1>1, <1>9, <2>2, <3>1 DEF SizeIsTold
  <2> QED
    BY <2>1, <2>2 DEF SizeIsTold
<1>13. OptionsConverge'
  <2> SUFFICES ASSUME writer = "waiting"
               PROVE  /\ Agreeable(server', Ahead'.telnet.enabledThere, LastOf(THEM)', THEY_MAY_ENABLE, "DO")
                      /\ Agreeable(client', Ahead'.telnet.enabledHere, LastOf(US)', WE_MAY_ENABLE, "WILL")
    BY <1>9, ConvergeNext DEF clientVars
  <2>1. /\ Agreeable(server, Ahead.telnet.enabledThere, LastOf(THEM), THEY_MAY_ENABLE, "DO")
        /\ Agreeable(client, Ahead.telnet.enabledHere, LastOf(US), WE_MAY_ENABLE, "WILL")
    BY <1>1, ConvergeIs DEF THEM, US
  <2>2. Precedes(last, o, m.say, rest)
    BY <1>2, <1>3 DEF Precedes, LastOf, Behind
  <2>3. \A x, verbs : LastOnTheWay(x, verbs)'
          = Later(Later(LastSaid(Tail(toServer), x, verbs), Rest(x, verbs)), LastSaid(q.reply, x, verbs))
    BY <1>8, OnTheWayNext, LaterLaws
  <2>4. Follows(later, rest, q.reply, THEM)
    BY <2>3 DEF Follows, LastOf, Behind
  <2>5. Turned(server', server, o, now)
    BY DEF Turned
  <2>6. \A x \in Options : LastOf(US)'[x] = LastOf(US)[x]
    BY <1>2, <1>3, <1>7, <2>3, LaterLaws DEF LastOf
  <2> HIDE DEF last, rest, later, o
  <2>7. Agreeable(server', q.telnet.enabledThere, later, THEY_MAY_ENABLE, "DO")
    <3> DEFINE t == Ahead.telnet
               word == m.say
    <3>1. t \in Telnets /\ t.state = "Data" /\ o \in Options /\ q = Receive(t, w) /\ word \in THEM
      BY <1>3, <1>5 DEF q
    <3>2. server \in [Options -> States] /\ Precedes(last, o, word, rest)
      BY <1>4, <2>2
    <3>3. Agreeable(server, t.enabledThere, last, THEY_MAY_ENABLE, "DO") /\ (word = "DO" => o \in THEY_MAY_ENABLE)
      BY <1>3, <2>1 DEF last
    <3>4. Reacts(word, "DO", server[o], now, w, Spoken("WILL", o), Spoken("WONT", o))
      BY DEF o
    <3> HIDE DEF t, word
    <3> QED
      BY <3>1, <3>2, <3>3, <3>4, <2>4, <2>5, AgreedOfThem
  <2>8. Agreeable(client', Ahead'.telnet.enabledHere, LastOf(US)', WE_MAY_ENABLE, "WILL")
    BY <1>7, <1>8, <1>9, <2>1, <2>6, StaysAgreed
  <2> QED
    BY <1>8, <2>7, <2>8 DEF later
<1> QED
  BY <1>8, <1>9, <1>10, <1>11, <1>12, <1>13, ClientStays DEF IInv

\* As long as neither end of the way to the client moves, what will be read is
\* the same.
LEMMA NothingSaid ==
  ASSUME IInv, UNCHANGED <<clientVars, toClient, sent>>
  PROVE  /\ Ahead' = Ahead /\ \A o, verbs : Rest(o, verbs)' = Rest(o, verbs)
         /\ ServerIsWellSpoken' /\ OutputIsOnItsWay'
<1>1. Ahead' = Ahead /\ \A o, verbs : Rest(o, verbs)' = Rest(o, verbs)
  BY DEF Ahead, Rest, clientVars
<1>2. ServerIsWellSpoken'
  BY <1>1 DEF IInv, ServerIsWellSpoken, clientVars
<1>3. Heard' = Heard
  BY DEF Heard, clientVars
<1>4. OutputIsOnItsWay'
  BY <1>1, <1>3 DEF IInv, OutputIsOnItsWay, clientVars
<1> QED
  BY <1>1, <1>2, <1>4

LEMMA HearsOther ==
  ASSUME IInv, Serves, NEW m, m = Head(toServer), m.say \notin Verbs, toServer' = Tail(toServer),
         told' = IF m.say = "SIZE" THEN m.size ELSE told,
         UNCHANGED <<client, server, toClient, clientVars, socket, sent, requests, counters>>
  PROVE  IInv'
<1>1. /\ TypeOK /\ EndIsReported /\ OutputIsOnItsWay /\ ServerIsWellSpoken /\ OptionsConverge /\ SizeIsTold
      /\ socket = "open" /\ toServer # <<>>
  BY DEF IInv, Serves
<1>2. /\ m \in Messages /\ Tail(toServer) \in Seq(Messages) /\ SizeFollows(Tail(toServer))
      /\ \A x, verbs : LastOnTheWay(x, verbs)
           = Later(Word(m, x, verbs), Later(LastSaid(Tail(toServer), x, verbs), Rest(x, verbs)))
  BY <1>1, HeardNext
<1>3. /\ \A x : Word(m, x, US) = "none" /\ Word(m, x, THEM) = "none"
      /\ m.say = "SIZE" => m.size \in Nat \ {0}
  <2>1. m \in Messages /\ m.say \notin US /\ m.say \notin THEM
    BY <1>2 DEF US, THEM, Verbs
  <2> QED
    BY <2>1, Unsaid
<1>4. UNCHANGED clientVars /\ client' = client /\ server' = server /\ socket' = socket /\ sent' = sent
      /\ toClient' = toClient /\ requests' = requests /\ inputs' = inputs /\ cuts' = cuts
  BY DEF counters
<1>5. Ahead' = Ahead /\ \A x, verbs : Rest(x, verbs)' = Rest(x, verbs)
  BY <1>4, NothingSaid
<1>6. ServerIsWellSpoken' /\ OutputIsOnItsWay'
  BY <1>4, NothingSaid
<1>7. TypeOK'
  <2>1. ClientTypeOK'
    BY <1>4, ClientStays
  <2>2. ServerTypeOK'
    BY <1>1, <1>2, <1>3, <1>4 DEF TypeOK, ServerTypeOK
  <2>3. CountersOK'
    BY <1>1, <1>4 DEF TypeOK, CountersOK
  <2> QED
    BY <2>1, <2>2, <2>3 DEF TypeOK
<1>8. SizeIsTold'
  <2>1. /\ SizeFollows(toServer') /\ SizeFollows(parsed.reply)'
        /\ (\A k \in DOMAIN commands : commands[k].do = "Raw" => SizeFollows(commands[k].bytes))'
    BY <1>2, <1>4, ClientStays
  <2>2. ~("NAWS" \in Options /\ client["NAWS"] = "yes" /\ told' = 0)
    BY <1>1, <1>3 DEF SizeIsTold
  <2> QED
    BY <1>4, <2>1, <2>2 DEF SizeIsTold
<1>9. OptionsConverge'
  <2> SUFFICES ASSUME writer = "waiting"
               PROVE  /\ Agreeable(client', Ahead'.telnet.enabledHere, LastOf(US)', WE_MAY_ENABLE, "WILL")
                      /\ Agreeable(server', Ahead'.telnet.enabledThere, LastOf(THEM)', THEY_MAY_ENABLE, "DO")
    BY <1>4, ConvergeNext DEF clientVars
  <2>1. /\ Agreeable(client, Ahead.telnet.enabledHere, LastOf(US), WE_MAY_ENABLE, "WILL")
        /\ Agreeable(server, Ahead.telnet.enabledThere, LastOf(THEM), THEY_MAY_ENABLE, "DO")
    BY <1>1, ConvergeIs DEF US, THEM
  <2>2. \A x, verbs : LastOnTheWay(x, verbs)' = Later(LastSaid(Tail(toServer), x, verbs), Rest(x, verbs))
    BY <1>5, OnTheWayNext
  <2>3. \A x \in Options : LastOf(US)'[x] = LastOf(US)[x] /\ LastOf(THEM)'[x] = LastOf(THEM)[x]
    BY <1>2, <1>3, <2>2, LaterLaws DEF LastOf
  <2> QED
    BY <1>4, <1>5, <2>1, <2>3, StaysAgreed
<1> QED
  BY <1>4, <1>6, <1>7, <1>8, <1>9, ClientStays DEF IInv

LEMMA HearingKeeps ==
  ASSUME IInv, ServerHears
  PROVE  IInv'
<1> DEFINE m == Head(toServer)
           o == m.option
<1>1. /\ Serves /\ toServer' = Tail(toServer) /\ m = Head(toServer)
      /\ UNCHANGED <<clientVars, socket, sent, requests, counters>>
  BY DEF ServerHears
<1>2. m \in Messages /\ client \in [Options -> States] /\ server \in [Options -> States]
  BY <1>1, HeardNext DEF IInv, TypeOK, ServerTypeOK, Serves
<1>3. m.say \in Verbs => o \in Options
  BY <1>2, Unsaid
<1>4. CASE /\ m.say \in {"WILL", "WONT"}
           /\ \E r \in IF m.say = "WILL" THEN OnYes(client[o], Spoken("DO", o), Spoken("DONT", o))
                                         ELSE OnNo(client[o], Spoken("DONT", o)) :
                client' = [client EXCEPT ![o] = r.now] /\ toClient' = toClient \o r.say
           /\ UNCHANGED <<server, told>>
  <2> DEFINE accept == Spoken("DO", o)
             refuse == Spoken("DONT", o)
  <2>1. PICK r \in IF m.say = "WILL" THEN OnYes(client[o], accept, refuse) ELSE OnNo(client[o], refuse) :
               client' = [client EXCEPT ![o] = r.now] /\ toClient' = toClient \o r.say
    BY <1>4
  <2>2. client[o] \in States
    BY <1>2, <1>3, <1>4 DEF Verbs
  <2> HIDE DEF accept, refuse
  <2>3. Reacts(m.say, "WILL", client[o], r.now, r.say, accept, refuse)
    BY <2>1, <2>2, OnWord
  <2> QED
    BY <1>1, <1>4, <2>1, <2>3, HearsOfUs DEF US, accept, refuse
<1>5. CASE /\ m.say \in {"DO", "DONT"}
           /\ \E r \in IF m.say = "DO" THEN OnYes(server[o], Spoken("WILL", o), Spoken("WONT", o))
                                       ELSE OnNo(server[o], Spoken("WONT", o)) :
                server' = [server EXCEPT ![o] = r.now] /\ toClient' = toClient \o r.say
           /\ UNCHANGED <<client, told>>
  <2> DEFINE accept == Spoken("WILL", o)
             refuse == Spoken("WONT", o)
  <2>1. PICK r \in IF m.say = "DO" THEN OnYes(server[o], accept, refuse) ELSE OnNo(server[o], refuse) :
               server' = [server EXCEPT ![o] = r.now] /\ toClient' = toClient \o r.say
    BY <1>5
  <2>2. server[o] \in States
    BY <1>2, <1>3, <1>5 DEF Verbs
  <2> HIDE DEF accept, refuse
  <2>3. Reacts(m.say, "DO", server[o], r.now, r.say, accept, refuse)
    BY <2>1, <2>2, OnWord
  <2> QED
    BY <1>1, <1>5, <2>1, <2>3, HearsOfThem DEF THEM, accept, refuse
<1>6. CASE m.say = "SIZE" /\ told' = m.size /\ UNCHANGED <<client, server, toClient>>
  BY <1>1, <1>6, HearsOther DEF Verbs
<1>7. CASE m.say \notin Verbs \cup {"SIZE"} /\ UNCHANGED <<client, server, told, toClient>>
  BY <1>1, <1>7, HearsOther
<1> QED
  BY <1>4, <1>5, <1>6, <1>7 DEF ServerHears

\* SocketCloses: what was on its way to the server is lost, and nothing is
\* promised of it.
LEMMA ClosingKeeps ==
  ASSUME IInv, SocketCloses
  PROVE  IInv'
<1>1. /\ UNCHANGED clientVars /\ toServer' = <<>> /\ socket' = "closed" /\ toClient' = toClient
      /\ client' = client /\ server' = server /\ told' = told /\ sent' = sent
      /\ requests' = requests /\ inputs' = inputs /\ cuts' = cuts
  BY DEF SocketCloses, serverVars, counters
<1>2. ServerIsWellSpoken' /\ OutputIsOnItsWay'
  BY <1>1, NothingSaid
<1>3. TypeOK'
  <2>1. toServer' \in Seq(Messages)
    BY <1>1
  <2>2. ClientTypeOK'
    BY <1>1, ClientStays
  <2> QED
    BY <1>1, <2>1, <2>2 DEF IInv, TypeOK, ServerTypeOK, CountersOK
<1>4. OptionsConverge'
  BY <1>1, ConvergeNext
<1>5. SizeIsTold'
  <2>1. SizeFollows(toServer')
    BY <1>1, SizeFollowsFew
  <2> QED
    BY <1>1, <2>1, ClientStays DEF SizeIsTold
<1> QED
  BY <1>1, <1>2, <1>3, <1>4, <1>5, ClientStays DEF IInv

\* One more word at the end of all that is on its way.
LEMMA SaysMore ==
  ASSUME toServer' = toServer, NEW o, NEW verbs, NEW said, Rest(o, verbs)' = Later(Rest(o, verbs), said)
  PROVE  LastOnTheWay(o, verbs)' = Later(LastOnTheWay(o, verbs), said)
<1> DEFINE first == LastSaid(toServer, o, verbs)
           rest == Rest(o, verbs)
<1>1. LastOnTheWay(o, verbs)' = Later(first, Later(rest, said))
  BY OnTheWayNext
<1>2. LastOnTheWay(o, verbs) = Later(first, rest)
  BY OnTheWayIs
<1> HIDE DEF first, rest
<1>3. Later(Later(first, rest), said) = Later(first, Later(rest, said))
  BY LaterLaws
<1> QED
  BY <1>1, <1>2, <1>3

LEMMA CountersGrow ==
  /\ CountersOK /\ requests < MaxRequests /\ requests' = requests + 1 /\ UNCHANGED counters => CountersOK'
  /\ CountersOK /\ inputs < MaxInputs /\ inputs' = inputs + 1 /\ UNCHANGED <<requests, cuts>> => CountersOK'
  /\ CountersOK /\ cuts < MaxCuts /\ cuts' = cuts + 1 /\ UNCHANGED <<requests, inputs>> => CountersOK'
<1> USE DEF CountersOK
<1>1. MaxRequests \in Nat /\ MaxInputs \in Nat /\ MaxCuts \in Nat
  BY BoundsAssumption
<1>2. CountersOK /\ requests < MaxRequests /\ requests' = requests + 1 /\ UNCHANGED counters => CountersOK'
  BY <1>1 DEF counters
<1>3. CountersOK /\ inputs < MaxInputs /\ inputs' = inputs + 1 /\ UNCHANGED <<requests, cuts>> => CountersOK'
  BY <1>1
<1>4. CountersOK /\ cuts < MaxCuts /\ cuts' = cuts + 1 /\ UNCHANGED <<requests, inputs>> => CountersOK'
  BY <1>1
<1> QED
  BY <1>2, <1>3, <1>4

\* ServerAsks, of an option here and of one there.
LEMMA AsksOfUs ==
  ASSUME IInv, socket = "open", requests < MaxRequests, requests' = requests + 1,
         NEW o \in Options, client[o] \in {"no", "yes"},
         client' = [client EXCEPT ![o] = IF @ = "no" THEN "asked on" ELSE "asked off"],
         toClient' = toClient \o Spoken(IF client[o] = "no" THEN "DO" ELSE "DONT", o),
         UNCHANGED <<server, clientVars, toServer, socket, told, sent, counters>>
  PROVE  IInv'
<1> DEFINE verb == IF client[o] = "no" THEN "DO" ELSE "DONT"
           w == Spoken(verb, o)
           q == Receive(Ahead.telnet, w)
           last == LastOf(US)
           later == LastOf(US)'
<1>1. /\ TypeOK /\ EndIsReported /\ OutputIsOnItsWay /\ ServerIsWellSpoken /\ OptionsConverge /\ SizeIsTold
  BY DEF IInv
<1>2. /\ UNCHANGED clientVars /\ server' = server /\ told' = told /\ socket' = socket /\ sent' = sent
      /\ toServer' = toServer /\ inputs' = inputs /\ cuts' = cuts /\ toClient' = toClient \o w
      /\ verb \in {"DO", "DONT"} /\ (verb = "DO" <=> client[o] = "no")
  BY DEF counters
<1>3. client \in [Options -> States] /\ toServer \in Seq(Messages)
  BY <1>1 DEF TypeOK, ServerTypeOK
<1>4. Ahead.telnet \in Telnets /\ Ahead.telnet.state = "Data"
      /\ Ahead.telnet.enabledHere \cup Ahead.telnet.enabledThere \subseteq Options
  BY <1>1, AheadType DEF Parses, ServerIsWellSpoken
<1> HIDE DEF verb
<1>5. Moves(Ahead.telnet, w, q, Ahead.telnet.enabledThere, q.telnet.enabledThere, q.telnet.enabledHere, THEM)
  BY <1>2, <1>4, SpokenOfUs
<1>6. Turns(q, o, Ahead.telnet.enabledHere, q.telnet.enabledHere, verb = "DO", WE_MAY_ENABLE, {"WILL", "WONT"}, "WILL", "WONT")
  BY <1>2, <1>4, SpokenDo
<1> HIDE DEF w, q
<1>7. /\ w \in Seq(Bytes) /\ q.telnet.state = "Data" /\ q.data = <<>> /\ q.reply \in Seq(Messages)
      /\ q.telnet.enabledHere \cup q.telnet.enabledThere \subseteq Options
      /\ q.telnet.enabledThere = Ahead.telnet.enabledThere
      /\ \A x : LastSaid(q.reply, x, THEM) = "none"
  BY <1>4, <1>5 DEF Mute, Moves
<1>8. /\ toClient' \in Seq(Bytes) /\ ServerIsWellSpoken'
      /\ Ahead.data \in Seq(Bytes) /\ q.data \in Seq(Bytes)
      /\ Ahead'.telnet = q.telnet /\ Ahead'.data = Ahead.data \o q.data
      /\ \A x, verbs : Rest(x, verbs)' = Later(Rest(x, verbs), LastSaid(q.reply, x, verbs))
  BY <1>2, <1>7, ServerSays DEF q
<1>9. OutputIsOnItsWay'
  BY <1>1, <1>2, <1>7, <1>8, OutputStays
<1>10. TypeOK'
  <2>1. client' \in [Options -> States]
    BY <1>3 DEF States
  <2>2. ServerTypeOK'
    BY <1>1, <1>2, <1>8, <2>1 DEF TypeOK, ServerTypeOK
  <2>3. CountersOK'
    BY <1>1, CountersGrow DEF TypeOK
  <2> QED
    BY <1>2, <2>2, <2>3, ClientStays DEF TypeOK
<1>11. SizeIsTold'
  <2>1. "NAWS" \in Options /\ client'["NAWS"] = "yes" => client["NAWS"] = "yes"
    BY <1>3
  <2> QED
    BY <1>1, <1>2, <2>1, ClientStays DEF SizeIsTold
<1>12. OptionsConverge'
  <2> SUFFICES ASSUME writer = "waiting"
               PROVE  /\ Agreeable(client', Ahead'.telnet.enabledHere, LastOf(US)', WE_MAY_ENABLE, "WILL")
                      /\ Agreeable(server', Ahead'.telnet.enabledThere, LastOf(THEM)', THEY_MAY_ENABLE, "DO")
    BY <1>2, ConvergeNext DEF clientVars
  <2>1. /\ Agreeable(client, Ahead.telnet.enabledHere, LastOf(US), WE_MAY_ENABLE, "WILL")
        /\ Agreeable(server, Ahead.telnet.enabledThere, LastOf(THEM), THEY_MAY_ENABLE, "DO")
    BY <1>1, ConvergeIs DEF US, THEM
  <2>2. \A x, verbs : LastOnTheWay(x, verbs)' = Later(LastOnTheWay(x, verbs), LastSaid(q.reply, x, verbs))
    BY <1>2, <1>8, SaysMore
  <2>3. Follows(later, last, q.reply, US)
    BY <2>2 DEF Follows, LastOf
  <2>4. Turned(client', client, o, IF client[o] = "no" THEN "asked on" ELSE "asked off")
    BY DEF Turned
  <2>5. \A x \in Options : LastOf(THEM)'[x] = LastOf(THEM)[x]
    BY <1>7, <2>2, LaterLaws DEF LastOf
  <2>6. Turns(q, o, Ahead.telnet.enabledHere, q.telnet.enabledHere, client[o] = "no", WE_MAY_ENABLE, US, "WILL", "WONT")
    BY <1>2, <1>6 DEF Turns, US
  <2> HIDE DEF last, later
  <2>7. Agreeable(client', q.telnet.enabledHere, later, WE_MAY_ENABLE, "WILL")
    <3> DEFINE had == Ahead.telnet.enabledHere
               has == q.telnet.enabledHere
    <3>1. Agreeable(client, had, last, WE_MAY_ENABLE, "WILL") /\ Pair("WILL", "WONT")
      BY <2>1 DEF last, Pair
    <3>2. Turns(q, o, had, has, client[o] = "no", WE_MAY_ENABLE, US, "WILL", "WONT")
      BY <2>6
    <3> HIDE DEF had, has
    <3>3. Agreeable(client', has, later, WE_MAY_ENABLE, "WILL")
      BY <1>3, <2>3, <2>4, <3>1, <3>2, AsksFor
    <3> QED
      BY <3>3 DEF has
  <2>8. Agreeable(server', Ahead'.telnet.enabledThere, LastOf(THEM)', THEY_MAY_ENABLE, "DO")
    <3> DEFINE had == Ahead.telnet.enabledThere
               before == LastOf(THEM)
               after == LastOf(THEM)'
    <3>1. Ahead'.telnet.enabledThere = had /\ server' = server
      BY <1>2, <1>7, <1>8
    <3>2. Agreeable(server, had, before, THEY_MAY_ENABLE, "DO") /\ \A x \in Options : after[x] = before[x]
      BY <2>1, <2>5
    <3> HIDE DEF had, before, after
    <3>3. Agreeable(server, had, after, THEY_MAY_ENABLE, "DO")
      BY ONLY <3>2, StaysAgreed
    <3> QED
      BY <3>1, <3>3 DEF after
  <2> QED
    BY <1>8, <2>7, <2>8 DEF later
<1> QED
  BY <1>2, <1>8, <1>9, <1>10, <1>11, <1>12, ClientStays DEF IInv

LEMMA AsksOfThem ==
  ASSUME IInv, socket = "open", requests < MaxRequests, requests' = requests + 1,
         NEW o \in Options, server[o] \in {"no", "yes"},
         server' = [server EXCEPT ![o] = IF @ = "no" THEN "asked on" ELSE "asked off"],
         toClient' = toClient \o Spoken(IF server[o] = "no" THEN "WILL" ELSE "WONT", o),
         UNCHANGED <<client, clientVars, toServer, socket, told, sent, counters>>
  PROVE  IInv'
<1> DEFINE verb == IF server[o] = "no" THEN "WILL" ELSE "WONT"
           w == Spoken(verb, o)
           q == Receive(Ahead.telnet, w)
           last == LastOf(THEM)
           later == LastOf(THEM)'
<1>1. /\ TypeOK /\ EndIsReported /\ OutputIsOnItsWay /\ ServerIsWellSpoken /\ OptionsConverge /\ SizeIsTold
  BY DEF IInv
<1>2. /\ UNCHANGED clientVars /\ client' = client /\ told' = told /\ socket' = socket /\ sent' = sent
      /\ toServer' = toServer /\ inputs' = inputs /\ cuts' = cuts /\ toClient' = toClient \o w
      /\ verb \in {"WILL", "WONT"} /\ (verb = "WILL" <=> server[o] = "no")
  BY DEF counters
<1>3. server \in [Options -> States] /\ toServer \in Seq(Messages)
  BY <1>1 DEF TypeOK, ServerTypeOK
<1>4. Ahead.telnet \in Telnets /\ Ahead.telnet.state = "Data"
      /\ Ahead.telnet.enabledThere \cup Ahead.telnet.enabledHere \subseteq Options
  BY <1>1, AheadType DEF Parses, ServerIsWellSpoken
<1> HIDE DEF verb
<1>5. Moves(Ahead.telnet, w, q, Ahead.telnet.enabledHere, q.telnet.enabledHere, q.telnet.enabledThere, US)
  BY <1>2, <1>4, SpokenOfThem
<1>6. Turns(q, o, Ahead.telnet.enabledThere, q.telnet.enabledThere, verb = "WILL", THEY_MAY_ENABLE, {"DO", "DONT"}, "DO", "DONT")
  BY <1>2, <1>4, SpokenWill
<1> HIDE DEF w, q
<1>7. /\ w \in Seq(Bytes) /\ q.telnet.state = "Data" /\ q.data = <<>> /\ q.reply \in Seq(Messages)
      /\ q.telnet.enabledThere \cup q.telnet.enabledHere \subseteq Options
      /\ q.telnet.enabledHere = Ahead.telnet.enabledHere
      /\ \A x : LastSaid(q.reply, x, US) = "none"
  BY <1>4, <1>5 DEF Mute, Moves
<1>8. /\ toClient' \in Seq(Bytes) /\ ServerIsWellSpoken'
      /\ Ahead.data \in Seq(Bytes) /\ q.data \in Seq(Bytes)
      /\ Ahead'.telnet = q.telnet /\ Ahead'.data = Ahead.data \o q.data
      /\ \A x, verbs : Rest(x, verbs)' = Later(Rest(x, verbs), LastSaid(q.reply, x, verbs))
  BY <1>2, <1>7, ServerSays DEF q
<1>9. OutputIsOnItsWay'
  BY <1>1, <1>2, <1>7, <1>8, OutputStays
<1>10. TypeOK'
  <2>1. server' \in [Options -> States]
    BY <1>3 DEF States
  <2>2. ServerTypeOK'
    BY <1>1, <1>2, <1>8, <2>1 DEF TypeOK, ServerTypeOK
  <2>3. CountersOK'
    BY <1>1, CountersGrow DEF TypeOK
  <2> QED
    BY <1>2, <2>2, <2>3, ClientStays DEF TypeOK
<1>11. SizeIsTold'
  BY <1>1, <1>2, ClientStays DEF SizeIsTold
<1>12. OptionsConverge'
  <2> SUFFICES ASSUME writer = "waiting"
               PROVE  /\ Agreeable(server', Ahead'.telnet.enabledThere, LastOf(THEM)', THEY_MAY_ENABLE, "DO")
                      /\ Agreeable(client', Ahead'.telnet.enabledHere, LastOf(US)', WE_MAY_ENABLE, "WILL")
    BY <1>2, ConvergeNext DEF clientVars
  <2>1. /\ Agreeable(server, Ahead.telnet.enabledThere, LastOf(THEM), THEY_MAY_ENABLE, "DO")
        /\ Agreeable(client, Ahead.telnet.enabledHere, LastOf(US), WE_MAY_ENABLE, "WILL")
    BY <1>1, ConvergeIs DEF THEM, US
  <2>2. \A x, verbs : LastOnTheWay(x, verbs)' = Later(LastOnTheWay(x, verbs), LastSaid(q.reply, x, verbs))
    BY <1>2, <1>8, SaysMore
  <2>3. Follows(later, last, q.reply, THEM)
    BY <2>2 DEF Follows, LastOf
  <2>4. Turned(server', server, o, IF server[o] = "no" THEN "asked on" ELSE "asked off")
    BY DEF Turned
  <2>5. \A x \in Options : LastOf(US)'[x] = LastOf(US)[x]
    BY <1>7, <2>2, LaterLaws DEF LastOf
  <2>6. Turns(q, o, Ahead.telnet.enabledThere, q.telnet.enabledThere, server[o] = "no", THEY_MAY_ENABLE, THEM, "DO", "DONT")
    BY <1>2, <1>6 DEF Turns, THEM
  <2> HIDE DEF last, later
  <2>7. Agreeable(server', q.telnet.enabledThere, later, THEY_MAY_ENABLE, "DO")
    <3> DEFINE had == Ahead.telnet.enabledThere
               has == q.telnet.enabledThere
    <3>1. Agreeable(server, had, last, THEY_MAY_ENABLE, "DO") /\ Pair("DO", "DONT")
      BY <2>1 DEF last, Pair
    <3>2. Turns(q, o, had, has, server[o] = "no", THEY_MAY_ENABLE, THEM, "DO", "DONT")
      BY <2>6
    <3> HIDE DEF had, has
    <3>3. Agreeable(server', has, later, THEY_MAY_ENABLE, "DO")
      BY <1>3, <2>3, <2>4, <3>1, <3>2, AsksFor
    <3> QED
      BY <3>3 DEF has
  <2>8. Agreeable(client', Ahead'.telnet.enabledHere, LastOf(US)', WE_MAY_ENABLE, "WILL")
    <3> DEFINE had == Ahead.telnet.enabledHere
               before == LastOf(US)
               after == LastOf(US)'
    <3>1. Ahead'.telnet.enabledHere = had /\ client' = client
      BY <1>2, <1>7, <1>8
    <3>2. Agreeable(client, had, before, WE_MAY_ENABLE, "WILL") /\ \A x \in Options : after[x] = before[x]
      BY <2>1, <2>5
    <3> HIDE DEF had, before, after
    <3>3. Agreeable(client, had, after, WE_MAY_ENABLE, "WILL")
      BY ONLY <3>2, StaysAgreed
    <3> QED
      BY <3>1, <3>3 DEF after
  <2> QED
    BY <1>8, <2>7, <2>8 DEF later
<1> QED
  BY <1>2, <1>8, <1>9, <1>10, <1>11, <1>12, ClientStays DEF IInv

LEMMA AskingKeeps ==
  ASSUME IInv, ServerAsks
  PROVE  IInv'
<1>1. /\ socket = "open" /\ requests < MaxRequests /\ requests' = requests + 1
      /\ UNCHANGED <<clientVars, toServer, socket, told, sent, counters>>
  BY DEF ServerAsks
<1>2. PICK o \in Options :
        \/ /\ client[o] \in {"no", "yes"}
           /\ client' = [client EXCEPT ![o] = IF @ = "no" THEN "asked on" ELSE "asked off"]
           /\ toClient' = toClient \o Spoken(IF client[o] = "no" THEN "DO" ELSE "DONT", o)
           /\ UNCHANGED server
        \/ /\ server[o] \in {"no", "yes"}
           /\ server' = [server EXCEPT ![o] = IF @ = "no" THEN "asked on" ELSE "asked off"]
           /\ toClient' = toClient \o Spoken(IF server[o] = "no" THEN "WILL" ELSE "WONT", o)
           /\ UNCHANGED client
  BY DEF ServerAsks
<1>3. CASE /\ client[o] \in {"no", "yes"}
           /\ client' = [client EXCEPT ![o] = IF @ = "no" THEN "asked on" ELSE "asked off"]
           /\ toClient' = toClient \o Spoken(IF client[o] = "no" THEN "DO" ELSE "DONT", o)
           /\ UNCHANGED server
  BY <1>1, <1>3, AsksOfUs
<1>4. CASE /\ server[o] \in {"no", "yes"}
           /\ server' = [server EXCEPT ![o] = IF @ = "no" THEN "asked on" ELSE "asked off"]
           /\ toClient' = toClient \o Spoken(IF server[o] = "no" THEN "WILL" ELSE "WONT", o)
           /\ UNCHANGED client
  BY <1>1, <1>4, AsksOfThem
<1> QED
  BY <1>2, <1>3, <1>4

\* The remarks say nothing of any option.
LEMMA RemarksAreMute ==
  ASSUME NEW r \in Remarks
  PROVE  Mute(r, US) /\ Mute(r, THEM)
<1>1. \A x : Word(TerminalIs, x, US) = "none" /\ Word(TerminalIs, x, THEM) = "none"
  BY DEF Word, TerminalIs, US, THEM
<1>2. \A x : Word(HereIAm, x, US) = "none" /\ Word(HereIAm, x, THEM) = "none"
  BY DEF Word, HereIAm, US, THEM
<1>3. CASE r = <<>>
  BY <1>3, LastSaidFew DEF Mute
<1>4. CASE r = <<TerminalIs>>
  BY <1>1, <1>4, LastSaidFew DEF Mute
<1>5. CASE r = <<HereIAm>>
  BY <1>2, <1>5, LastSaidFew DEF Mute
<1> QED
  BY <1>3, <1>4, <1>5 DEF Remarks

\* What the server sends that is about no option.
LEMMA SendsKeeps ==
  ASSUME IInv, socket = "open", requests < MaxRequests, requests' = requests + 1,
         NEW w, w \in Seq(Bytes), toClient' = toClient \o w, NEW q, q = Receive(Ahead.telnet, w),
         sent' = sent \o q.data, q.reply \in Remarks, q.telnet.state = "Data",
         q.telnet.enabledHere = Ahead.telnet.enabledHere, q.telnet.enabledThere = Ahead.telnet.enabledThere,
         UNCHANGED <<clientVars, toServer, socket, client, server, told, counters>>
  PROVE  IInv'
<1>1. /\ TypeOK /\ EndIsReported /\ OutputIsOnItsWay /\ ServerIsWellSpoken /\ OptionsConverge /\ SizeIsTold
  BY DEF IInv
<1>2. /\ UNCHANGED clientVars /\ client' = client /\ server' = server /\ told' = told /\ socket' = socket
      /\ toServer' = toServer /\ inputs' = inputs /\ cuts' = cuts
  BY DEF counters
<1>3. q.reply \in Seq(Messages) /\ q.telnet.enabledHere \cup q.telnet.enabledThere \subseteq Options
  <2>1. TerminalIs \in Messages /\ HereIAm \in Messages
    BY DEF Messages, Talk
  <2>2. q.reply \in Seq(Messages)
    BY <2>1, FewOf DEF Remarks
  <2> QED
    BY <1>1, <2>2 DEF ServerIsWellSpoken
<1>4. \A x : LastSaid(q.reply, x, US) = "none" /\ LastSaid(q.reply, x, THEM) = "none"
  BY RemarksAreMute DEF Mute
<1>5. /\ toClient' \in Seq(Bytes) /\ ServerIsWellSpoken'
      /\ Ahead.data \in Seq(Bytes) /\ q.data \in Seq(Bytes)
      /\ Ahead'.telnet = q.telnet /\ Ahead'.data = Ahead.data \o q.data
      /\ \A x, verbs : Rest(x, verbs)' = Later(Rest(x, verbs), LastSaid(q.reply, x, verbs))
  <2>1. /\ UNCHANGED clientVars /\ q.telnet.state = "Data" /\ q.reply \in Seq(Messages)
        /\ q.telnet.enabledHere \cup q.telnet.enabledThere \subseteq Options
    BY <1>2, <1>3
  <2> QED
    BY ONLY IInv, w \in Seq(Bytes), q = Receive(Ahead.telnet, w), toClient' = toClient \o w, <2>1, ServerSays
<1>6. OutputIsOnItsWay' /\ sent' \in Seq(Bytes)
  BY <1>1, <1>2, <1>5, OutputGrows
<1>7. TypeOK'
  <2>1. ServerTypeOK'
    BY <1>1, <1>2, <1>5, <1>6 DEF TypeOK, ServerTypeOK
  <2>2. CountersOK'
    BY <1>1, CountersGrow DEF TypeOK
  <2> QED
    BY <1>2, <2>1, <2>2, ClientStays DEF TypeOK
<1>8. SizeIsTold'
  BY <1>1, <1>2, ClientStays DEF SizeIsTold
<1>9. OptionsConverge'
  <2> SUFFICES ASSUME writer = "waiting"
               PROVE  /\ Agreeable(client', Ahead'.telnet.enabledHere, LastOf(US)', WE_MAY_ENABLE, "WILL")
                      /\ Agreeable(server', Ahead'.telnet.enabledThere, LastOf(THEM)', THEY_MAY_ENABLE, "DO")
    BY <1>2, ConvergeNext DEF clientVars
  <2>1. /\ Agreeable(client, Ahead.telnet.enabledHere, LastOf(US), WE_MAY_ENABLE, "WILL")
        /\ Agreeable(server, Ahead.telnet.enabledThere, LastOf(THEM), THEY_MAY_ENABLE, "DO")
    BY <1>1, ConvergeIs DEF US, THEM
  <2>2. \A x, verbs : LastOnTheWay(x, verbs)' = Later(LastOnTheWay(x, verbs), LastSaid(q.reply, x, verbs))
    BY <1>2, <1>5, SaysMore
  <2>3. \A x \in Options : LastOf(US)'[x] = LastOf(US)[x] /\ LastOf(THEM)'[x] = LastOf(THEM)[x]
    BY <1>4, <2>2, LaterLaws DEF LastOf
  <2>4. Ahead'.telnet.enabledHere = Ahead.telnet.enabledHere /\ Ahead'.telnet.enabledThere = Ahead.telnet.enabledThere
        /\ client' = client /\ server' = server
    BY <1>2, <1>5
  <2> QED
    BY <2>1, <2>3, <2>4, StaysAgreed
<1> QED
  BY <1>2, <1>5, <1>6, <1>7, <1>8, <1>9, ClientStays DEF IInv

LEMMA AppendIs ==
  ASSUME NEW S, NEW s \in Seq(S), NEW x \in S
  PROVE  Append(s, x) = s \o <<x>> /\ <<x>> \in Seq(S)
OBVIOUS

LEMMA SendingKeeps ==
  ASSUME IInv, ServerSends
  PROVE  IInv'
<1> DEFINE t == Ahead.telnet
<1>1. /\ socket = "open" /\ requests < MaxRequests /\ requests' = requests + 1
      /\ UNCHANGED <<clientVars, toServer, socket, client, server, told, counters>>
  BY DEF ServerSends
<1>2. t \in Telnets /\ t.state = "Data" /\ toClient \in Seq(Bytes) /\ sent \in Seq(Bytes)
  BY AheadType DEF IInv, TypeOK, ServerTypeOK, Parses, ServerIsWellSpoken
<1> HIDE DEF t
<1>3. ASSUME NEW b \in Bytes, NEW w \in Seq(Bytes), toClient' = toClient \o w, sent' = sent \o <<b>>,
             Receive(t, w) = Shows(t, b)
      PROVE  IInv'
  <2> DEFINE q == Receive(t, w)
             one == <<b>>
             none == <<>>
  <2>1. q.data = one /\ q.telnet = t /\ q.reply = none
    BY <1>3 DEF Shows
  <2>2. none \in Remarks
    BY DEF Remarks
  <2>3. sent' = sent \o one
    BY <1>3
  <2> HIDE DEF one, none
  <2>4. q = Receive(Ahead.telnet, w) /\ q.reply \in Remarks /\ sent' = sent \o q.data /\ q.telnet.state = "Data"
        /\ q.telnet.enabledHere = Ahead.telnet.enabledHere /\ q.telnet.enabledThere = Ahead.telnet.enabledThere
    BY <1>2, <2>1, <2>2, <2>3 DEF t
  <2> HIDE DEF q
  <2> QED
    BY <1>1, <1>3, <2>4, SendsKeeps
<1>4. CASE sent = <<>> /\ sent' = <<"IAC">> /\ toClient' = toClient \o <<"IAC", "IAC">>
  <2> DEFINE one == <<"IAC">>
             two == <<"IAC", "IAC">>
             b == "IAC"
  <2>1. two \in Seq(Bytes) /\ Receive(t, two) = Shows(t, b) /\ b \in Bytes /\ one \in Seq(Bytes)
    BY <1>2, ShownIs DEF Bytes
  <2>2. sent' = <<>> \o one
    <3> HIDE DEF one
    <3>1. <<>> \o one = one
      BY <2>1, ConcatLaws
    <3> QED
      BY <1>4, <3>1 DEF one
  <2>3. sent' = sent \o <<b>> /\ toClient' = toClient \o two
    BY <1>4, <2>2
  <2> HIDE DEF two, b
  <2> QED
    BY <1>3, <2>1, <2>3
<1>5. CASE sent' = Append(sent, "text") /\ toClient' = Append(toClient, "text")
  <2> DEFINE b == "text"
             one == <<b>>
  <2>1. one \in Seq(Bytes) /\ Receive(t, one) = Shows(t, b) /\ b \in Bytes
    BY <1>2, ShownIs DEF Bytes
  <2>2. sent' = sent \o <<b>> /\ toClient' = toClient \o one
    BY <1>2, <1>5, <2>1, AppendIs
  <2> HIDE DEF one, b
  <2> QED
    BY <1>3, <2>1, <2>2
<1>6. CASE /\ "TTYPE" \in Options
           /\ toClient' = (toClient \o Spoken("SB", "TTYPE")) \o <<"SEND", "IAC", "SE">>
           /\ UNCHANGED sent
  <2> DEFINE u == Spoken("SB", "TTYPE")
             v == <<"SEND", "IAC", "SE">>
             w == u \o v
             q == Receive(t, w)
  <2>1. u \in Seq(Bytes) /\ v \in Seq(Bytes)
    BY <1>6 DEF Spoken, Bytes
  <2>2. w \in Seq(Bytes) /\ q.data = <<>> /\ q.reply \in Remarks /\ q.telnet = Moved(t, "Data", t.command, <<>>)
    BY <1>2, <1>6, RequestIs
  <2>3. toClient' = (toClient \o u) \o v
    BY <1>6
  <2> HIDE DEF u, v
  <2>4. toClient' = toClient \o w
    <3>1. toClient \in Seq(Bytes) /\ u \in Seq(Bytes) /\ v \in Seq(Bytes)
      BY <1>2, <2>1
    <3>2. (toClient \o u) \o v = toClient \o (u \o v)
      <4>1. Joined(Joined(toClient, u), v) = Joined(toClient, Joined(u, v))
        BY ONLY <3>1, JoinedAssoc
      <4> QED
        BY <4>1 DEF Joined
    <3> QED
      BY <2>3, <3>2
  <2>5. sent' = sent \o q.data
    BY <1>2, <1>6, <2>2, ConcatLaws
  <2>6. q.telnet.state = "Data" /\ q.telnet.enabledHere = t.enabledHere /\ q.telnet.enabledThere = t.enabledThere
    BY <1>2, <2>2 DEF Moved, Telnets
  <2> HIDE DEF w
  <2>7. q = Receive(Ahead.telnet, w)
        /\ q.telnet.enabledHere = Ahead.telnet.enabledHere /\ q.telnet.enabledThere = Ahead.telnet.enabledThere
    BY <2>6 DEF t
  <2> HIDE DEF q
  <2> QED
    BY <1>1, <2>2, <2>4, <2>5, <2>6, <2>7, SendsKeeps
<1> QED
  BY <1>4, <1>5, <1>6 DEF ServerSends

\* Where the last word about every option stays what it was, so does the rest.
LEMMA ConvergeStays ==
  ASSUME OptionsConverge,
         writer' = "waiting" /\ socket' = "open" =>
           /\ writer = "waiting" /\ socket = "open" /\ client' = client /\ server' = server
           /\ Ahead'.telnet.enabledHere = Ahead.telnet.enabledHere
           /\ Ahead'.telnet.enabledThere = Ahead.telnet.enabledThere
           /\ \A o : /\ LastOnTheWay(o, US)' = LastOnTheWay(o, US)
                     /\ LastOnTheWay(o, THEM)' = LastOnTheWay(o, THEM)
  PROVE  OptionsConverge'
<1> SUFFICES ASSUME writer' = "waiting", socket' = "open"
             PROVE  /\ Agreeable(client', Ahead'.telnet.enabledHere, LastOf(US)', WE_MAY_ENABLE, "WILL")
                    /\ Agreeable(server', Ahead'.telnet.enabledThere, LastOf(THEM)', THEY_MAY_ENABLE, "DO")
  BY ConvergeNext
<1>1. /\ Agreeable(client, Ahead.telnet.enabledHere, LastOf(US), WE_MAY_ENABLE, "WILL")
      /\ Agreeable(server, Ahead.telnet.enabledThere, LastOf(THEM), THEY_MAY_ENABLE, "DO")
  BY ConvergeIs DEF US, THEM
<1>2. \A x \in Options : LastOf(US)'[x] = LastOf(US)[x] /\ LastOf(THEM)'[x] = LastOf(THEM)[x]
  BY DEF LastOf
<1>3. Ahead'.telnet.enabledHere = Ahead.telnet.enabledHere /\ Ahead'.telnet.enabledThere = Ahead.telnet.enabledThere
      /\ client' = client /\ server' = server
  OBVIOUS
<1> QED
  BY <1>1, <1>2, <1>3, StaysAgreed

LEMMA SplitAt ==
  ASSUME NEW S, NEW s \in Seq(S), NEW n \in 1 .. Len(s)
  PROVE  /\ SubSeq(s, 1, n) \in Seq(S) /\ SubSeq(s, n + 1, Len(s)) \in Seq(S)
         /\ s = SubSeq(s, 1, n) \o SubSeq(s, n + 1, Len(s))
OBVIOUS

\* ReadChunk: what was on its way is worked out, and nothing is lost in the cut.
LEMMA ReadingKeeps ==
  ASSUME IInv, ReadChunk
  PROVE  IInv'
<1>1. PICK n \in 1 .. Len(toClient) :
        /\ n < Len(toClient) => cuts < MaxCuts
        /\ cuts' = IF n < Len(toClient) THEN cuts + 1 ELSE cuts
        /\ toClient' = SubSeq(toClient, n + 1, Len(toClient))
        /\ telnet' = Receive(telnet, SubSeq(toClient, 1, n)).telnet
        /\ parsed' = [data |-> Receive(telnet, SubSeq(toClient, 1, n)).data,
                      reply |-> Receive(telnet, SubSeq(toClient, 1, n)).reply]
  BY DEF ReadChunk
<1>2. /\ reader = "reading" /\ reader' = "queueing"
      /\ writer' = writer /\ commands' = commands /\ events' = events /\ window' = window /\ shut' = shut
      /\ listening' = listening /\ toServer' = toServer /\ socket' = socket
      /\ client' = client /\ server' = server /\ told' = told /\ sent' = sent
      /\ requests' = requests /\ inputs' = inputs
  BY DEF ReadChunk, serverVars
<1>3. /\ TypeOK /\ EndIsReported /\ OutputIsOnItsWay /\ ServerIsWellSpoken /\ OptionsConverge /\ SizeIsTold
  BY DEF IInv
<1>4. telnet \in Telnets /\ toClient \in Seq(Bytes)
  BY <1>3 DEF TypeOK, ClientTypeOK, ServerTypeOK
<1> DEFINE c == SubSeq(toClient, 1, n)
           d == SubSeq(toClient, n + 1, Len(toClient))
           p == Receive(telnet, c)
           q == Receive(p.telnet, d)
           pd == p.data
           pr == p.reply
           qd == q.data
           qr == q.reply
<1>5. c \in Seq(Bytes) /\ d \in Seq(Bytes) /\ toClient = c \o d
  BY <1>4, SplitAt
<1>6. toClient' = d /\ telnet' = p.telnet /\ parsed'.data = pd /\ parsed'.reply = pr
      /\ parsed' = [data |-> pd, reply |-> pr]
  BY <1>1
<1> HIDE DEF c, d
<1>7. p \in Parses /\ Receive(telnet, c \o d) = After(p, q)
  BY <1>4, <1>5, ReceiveConcat
<1>8. Ahead = After(p, q)
  BY <1>5, <1>7 DEF Ahead
<1>9. Ahead' = q
  BY <1>6 DEF Ahead
<1> HIDE DEF p
<1>10. q \in Parses
  <2>1. p.telnet \in Telnets
    BY <1>7 DEF Parses
  <2> QED
    BY <1>5, <2>1, ReceiveConcat
<1> HIDE DEF q
<1>11. /\ pd \in Seq(Bytes) /\ qd \in Seq(Bytes) /\ p.telnet \in Telnets
       /\ pr \in Seq(Talk(Bytes)) /\ qr \in Seq(Talk(Bytes))
  BY <1>7, <1>10 DEF Parses
<1>12. Ahead.telnet = q.telnet /\ Ahead.data = pd \o qd /\ Ahead.reply = pr \o qr
       /\ Ahead'.telnet = q.telnet /\ Ahead'.data = qd /\ Ahead'.reply = qr
  BY <1>8, <1>9 DEF After
<1> HIDE DEF pd, qd, pr, qr
<1>13. pr \in Seq(Messages) /\ qr \in Seq(Messages)
  BY <1>3, <1>11, <1>12, PartOf DEF ServerIsWellSpoken
<1>14. ServerIsWellSpoken'
  BY <1>2, <1>3, <1>12, <1>13 DEF ServerIsWellSpoken
<1>15. TypeOK'
  <2>1. ClientTypeOK'
    BY <1>2, <1>3, <1>6, <1>11, <1>13 DEF TypeOK, ClientTypeOK
  <2>2. ServerTypeOK'
    BY <1>2, <1>3, <1>5, <1>6 DEF TypeOK, ServerTypeOK
  <2>3. CountersOK'
    BY <1>1, <1>2, <1>3, CountersGrow DEF TypeOK, CountersOK
  <2> QED
    BY <2>1, <2>2, <2>3 DEF TypeOK
<1>16. parsed = Nothing /\ parsed.data = <<>> /\ parsed.reply = <<>>
  BY <1>2, <1>3 DEF ServerIsWellSpoken, Nothing
<1>17. OutputIsOnItsWay'
  <2> DEFINE none == <<>>
             h == Heard
  <2>1. Heard' = h /\ h \in Seq(Bytes)
    BY <1>2, <1>3, HeardMore DEF Heard, HeardIn, TypeOK, ClientTypeOK
  <2>2. ASSUME listening PROVE (h \o none) \o (pd \o qd) = sent
    BY <1>2, <1>3, <1>12, <1>16, <2>2 DEF OutputIsOnItsWay
  <2> HIDE DEF h
  <2>3. h \o none = h
    BY <2>1, ConcatLaws
  <2>4. (h \o pd) \o qd = h \o (pd \o qd)
    <3>1. h \in Seq(Bytes) /\ pd \in Seq(Bytes) /\ qd \in Seq(Bytes)
      BY <1>11, <2>1
    <3>2. (h \o pd) \o qd = h \o (pd \o qd)
      <4>1. Joined(Joined(h, pd), qd) = Joined(h, Joined(pd, qd))
        BY ONLY <3>1, JoinedAssoc
      <4> QED
        BY <4>1 DEF Joined
    <3> QED
      BY <3>2
  <2> HIDE DEF none
  <2>5. ASSUME listening PROVE (h \o pd) \o qd = sent
    BY <2>2, <2>3, <2>4, <2>5
  <2> QED
    BY <1>2, <1>6, <1>12, <2>1, <2>5 DEF OutputIsOnItsWay
<1>18. EndIsReported'
  BY <1>2, <1>3 DEF EndIsReported
<1>19. SizeIsTold'
  <2>1. SizeFollows(pr)
    BY <1>4, <1>5, ReceiveSizeFollows DEF pr, p
  <2> QED
    BY <1>2, <1>3, <1>6, <2>1 DEF SizeIsTold
<1>20. OptionsConverge'
  <2>1. ASSUME NEW o, NEW verbs PROVE LastOnTheWay(o, verbs)' = LastOnTheWay(o, verbs)
    <3> DEFINE first == LastSaid(toServer, o, verbs)
               second == LastQueued(commands, o, verbs)
               third == LastSaid(pr, o, verbs)
               fourth == LastSaid(qr, o, verbs)
    <3>1. LastSaid(pr \o qr, o, verbs) = Later(third, fourth) /\ LastSaid(parsed.reply, o, verbs) = "none"
      BY <1>13, <1>16, LastSaidConcat, LastSaidFew
    <3>2. LastOnTheWay(o, verbs) = Later(Later(first, second), Later("none", Later(third, fourth)))
      BY <1>12, <3>1 DEF LastOnTheWay
    <3>3. LastOnTheWay(o, verbs)' = Later(Later(first, second), Later(third, fourth))
      BY <1>2, <1>6, <1>12 DEF LastOnTheWay
    <3> HIDE DEF first, second, third, fourth
    <3> QED
      BY <3>2, <3>3, LaterLaws
  <2> QED
    BY <1>2, <1>3, <1>12, <2>1, ConvergeStays
<1> QED
  BY <1>14, <1>15, <1>17, <1>18, <1>19, <1>20 DEF IInv

\* What the reader reports: that it ended, or some output.
LEMMA ReportsEnd ==
  ASSUME TypeOK, EndIsReported, reader # "ended", reader' = "ended", Report(<<Closed>>), listening' = listening
  PROVE  EndIsReported' /\ events' \in Seq(Events) /\ (listening => Heard' = Heard)
<1> DEFINE one == <<Closed>>
<1>1. events \in Seq(Events) /\ Closed \in Events /\ one \in Seq(Events) /\ DataOf(Closed) = <<>>
  BY DEF TypeOK, ClientTypeOK, Events, DataOf
<1>2. CASE ~listening
  BY <1>1, <1>2 DEF Report, EndIsReported
<1>3. CASE listening
  <2>1. events' = Append(events, Closed)
    BY <1>1, <1>3, AppendIs DEF Report
  <2>2. events' \in Seq(Events) /\ Len(events') = Len(events) + 1 /\ events'[Len(events) + 1] = Closed
        /\ \A i \in 1 .. Len(events) : events'[i] = events[i]
    BY <1>1, <2>1
  <2>3. \A i \in 1 .. Len(events) : events[i] # Closed
    BY <1>1, <1>3 DEF EndIsReported
  <2>4. EndIsReported'
    <3> SUFFICES ASSUME NEW i \in 1 .. Len(events') + 1
                 PROVE  (reader' = "ended" /\ i = Len(events')) <=> (i <= Len(events') /\ events'[i] = Closed)
      BY DEF EndIsReported
    <3>1. i \in 1 .. Len(events) \/ i = Len(events) + 1 \/ i = Len(events) + 2
      BY <1>1, <2>2
    <3> QED
      BY <1>1, <2>2, <2>3, <3>1
  <2>5. Heard' = Heard
    <3> DEFINE none == <<>>
               h == HeardIn(events)
    <3>1. HeardIn(events') = h \o DataOf(Closed) /\ h \in Seq(Bytes)
      BY <1>1, <2>1, HeardMore
    <3>2. DataOf(Closed) = none
      BY <1>1
    <3> HIDE DEF h
    <3>3. h \o none = h
      BY <3>1, ConcatLaws
    <3>4. HeardIn(events') = h
      BY <3>1, <3>2, <3>3
    <3> QED
      BY <3>4 DEF h, Heard, HeardIn
  <2> QED
    BY <2>2, <2>4, <2>5
<1> QED
  BY <1>2, <1>3

LEMMA ReportsOutput ==
  ASSUME TypeOK, EndIsReported, reader # "ended", NEW data \in Seq(Bytes),
         Report(IF data = <<>> THEN <<>> ELSE <<Output(data)>>), listening' = listening,
         listening => reader' # "ended"
  PROVE  EndIsReported' /\ events' \in Seq(Events) /\ (listening => Heard' = Heard \o data)
<1>1. events \in Seq(Events) /\ Heard \in Seq(Bytes)
  BY HeardMore DEF TypeOK, ClientTypeOK, Heard, HeardIn
<1>2. CASE ~listening
  BY <1>1, <1>2 DEF Report, EndIsReported
<1>3. CASE listening /\ data = <<>>
  <2> DEFINE none == <<>>
             h == Heard
  <2>1. events' = events \o none
    BY <1>3 DEF Report
  <2> HIDE DEF none
  <2>2. events' = events
    BY <1>1, <2>1, ConcatLaws DEF none
  <2>3. Heard' = h
    BY <2>2 DEF Heard
  <2>4. h \in Seq(Bytes)
    BY <1>1
  <2> HIDE DEF h
  <2>5. h \o none = h
    BY <2>4, ConcatLaws DEF none
  <2>6. Heard' = Heard \o data
    BY <1>3, <2>3, <2>5 DEF none, h
  <2> QED
    BY <1>1, <1>3, <2>2, <2>6 DEF EndIsReported
<1>4. CASE listening /\ data # <<>>
  <2> DEFINE e == Output(data)
             one == <<e>>
  <2>1. e \in Events /\ e # Closed /\ DataOf(e) = data
    BY DEF Output, Closed, Events, DataOf
  <2> HIDE DEF e
  <2>2. events' = events \o one
    BY <1>4 DEF Report, e
  <2>3. events' = Append(events, e)
    BY <1>1, <2>1, <2>2, AppendIs
  <2>4. events' \in Seq(Events) /\ Len(events') = Len(events) + 1 /\ events'[Len(events) + 1] = e
        /\ \A i \in 1 .. Len(events) : events'[i] = events[i]
    BY <1>1, <2>1, <2>3
  <2>5. \A i \in 1 .. Len(events) : events[i] # Closed
    BY <1>1, <1>4 DEF EndIsReported
  <2>6. EndIsReported'
    <3> SUFFICES ASSUME NEW i \in 1 .. Len(events') + 1
                 PROVE  (reader' = "ended" /\ i = Len(events')) <=> (i <= Len(events') /\ events'[i] = Closed)
      BY DEF EndIsReported
    <3>1. i \in 1 .. Len(events) \/ i = Len(events) + 1 \/ i = Len(events) + 2
      BY <1>1, <2>4
    <3> QED
      BY <1>1, <1>4, <2>1, <2>4, <2>5, <3>1
  <2>7. HeardIn(events') = HeardIn(events) \o data
    BY <1>1, <2>1, <2>3, HeardMore
  <2> QED
    BY <2>4, <2>6, <2>7 DEF Heard, HeardIn
<1> QED
  BY <1>2, <1>3, <1>4

LEMMA NothingIs ==
  Nothing.data = <<>> /\ Nothing.reply = <<>> /\ Nothing \in [data : Seq(Bytes), reply : Seq(Messages)]
BY DEF Nothing

\* A session that ends heard a beginning of what was sent.
LEMMA EndHeard ==
  ASSUME IInv, reader # "ended", reader' = "ended", listening' = listening, sent' = sent,
         listening => Heard' = Heard
  PROVE  OutputIsOnItsWay'
<1>1. TypeOK /\ OutputIsOnItsWay
  BY DEF IInv
<1> DEFINE h == Heard
           d == parsed.data
           a == Ahead.data
<1>2. h \in Seq(Bytes) /\ d \in Seq(Bytes) /\ a \in Seq(Bytes)
  BY <1>1, HeardMore, AheadType DEF Heard, HeardIn, TypeOK, ClientTypeOK, Parses
<1>3. ASSUME listening PROVE (h \o d) \o a = sent /\ Heard' = h
  BY <1>1, <1>3 DEF OutputIsOnItsWay
<1> HIDE DEF h, d, a
<1>4. IsPrefix(h, (h \o d) \o a)
  <2>1. (h \o d) \o a = h \o (d \o a) /\ d \o a \in Seq(Bytes)
    <3>1. (h \o d) \o a = h \o (d \o a)
      <4>1. Joined(Joined(h, d), a) = Joined(h, Joined(d, a))
        BY ONLY <1>2, JoinedAssoc
      <4> QED
        BY <4>1 DEF Joined
    <3> QED
      BY <1>2, <3>1, ConcatElements
  <2> DEFINE u == d \o a
  <2>2. u \in Seq(Bytes)
    BY <2>1
  <2> HIDE DEF u
  <2>3. IsPrefix(h, h \o u)
    BY <1>2, <2>2, PrefixLaws
  <2> QED
    BY <2>1, <2>3 DEF u
<1>5. ASSUME listening PROVE IsPrefix(Heard', sent')
  BY <1>3, <1>4, <1>5
<1> QED
  BY <1>5 DEF OutputIsOnItsWay

\* QueueParsed: what was worked out is queued before anything later is, or
\* nobody is left to write it.
LEMMA QueueingKeeps ==
  ASSUME IInv, QueueParsed
  PROVE  IInv'
<1>1. /\ reader = "queueing" /\ parsed' = Nothing
      /\ telnet' = telnet /\ writer' = writer /\ window' = window /\ shut' = shut /\ listening' = listening
      /\ toServer' = toServer /\ toClient' = toClient /\ socket' = socket
      /\ client' = client /\ server' = server /\ told' = told /\ sent' = sent
      /\ requests' = requests /\ inputs' = inputs /\ cuts' = cuts
  BY DEF QueueParsed, wires, serverVars, counters
<1>2. /\ TypeOK /\ EndIsReported /\ OutputIsOnItsWay /\ ServerIsWellSpoken /\ OptionsConverge /\ SizeIsTold
  BY DEF IInv
<1>3. commands \in Seq(Commands) /\ parsed.data \in Seq(Bytes) /\ parsed.reply \in Seq(Messages)
  BY <1>2 DEF TypeOK, ClientTypeOK
<1>4. Ahead' = Ahead
  BY <1>1 DEF Ahead
<1>5. ServerIsWellSpoken'
  BY <1>1, <1>2, <1>4 DEF ServerIsWellSpoken
<1>6. ServerTypeOK' /\ CountersOK'
  BY <1>1, <1>2 DEF TypeOK, ServerTypeOK, CountersOK
<1>7. SizeFollows(parsed'.reply)
  BY <1>1, NothingIs, SizeFollowsFew
<1>8. CASE parsed.reply # <<>> /\ writer = "ended" /\ reader' = "ended" /\ Report(<<Closed>>) /\ UNCHANGED commands
  <2>1. EndIsReported' /\ events' \in Seq(Events) /\ (listening => Heard' = Heard)
    BY <1>1, <1>2, <1>8, ReportsEnd
  <2>2. OutputIsOnItsWay'
    BY <1>1, <1>8, <2>1, EndHeard
  <2>3. TypeOK'
    BY <1>1, <1>2, <1>6, <1>8, <2>1, NothingIs DEF TypeOK, ClientTypeOK
  <2>4. OptionsConverge'
    BY <1>1, <1>8, ConvergeNext
  <2>5. SizeIsTold'
    BY <1>1, <1>2, <1>7, <1>8 DEF SizeIsTold
  <2> QED
    BY <1>5, <2>1, <2>2, <2>3, <2>4, <2>5 DEF IInv
<1>9. CASE /\ commands' = IF parsed.reply = <<>> THEN commands
                          ELSE Append(commands, [do |-> "Raw", bytes |-> parsed.reply])
           /\ Report(IF parsed.data = <<>> THEN <<>> ELSE <<Output(parsed.data)>>)
           /\ reader' = IF parsed.data # <<>> /\ ~listening THEN "ended" ELSE "reading"
  <2> DEFINE raw == [do |-> "Raw", bytes |-> parsed.reply]
             data == parsed.data
             reply == parsed.reply
  <2>1. EndIsReported' /\ events' \in Seq(Events) /\ (listening => Heard' = Heard \o data)
    BY <1>1, <1>2, <1>3, <1>9, ReportsOutput
  <2>2. OutputIsOnItsWay'
    <3> DEFINE none == <<>>
               h == Heard
               a == Ahead.data
    <3>1. h \in Seq(Bytes) /\ a \in Seq(Bytes) /\ data \in Seq(Bytes)
      BY <1>2, <1>3, HeardMore, AheadType DEF Heard, HeardIn, TypeOK, ClientTypeOK, Parses
    <3>2. ASSUME listening PROVE (h \o data) \o a = sent /\ Heard' = h \o data
      BY <1>1, <1>2, <2>1, <3>2 DEF OutputIsOnItsWay
    <3>3. parsed'.data = none /\ Ahead'.data = a
      BY <1>1, <1>4, NothingIs
    <3> HIDE DEF h, a, data, none
    <3>4. h \o data \in Seq(Bytes)
      BY <3>1, ConcatElements
    <3> DEFINE u == h \o data
    <3> HIDE DEF u
    <3>5. u \o none = u
      BY <3>4, ConcatLaws DEF u, none
    <3>6. ASSUME listening PROVE (Heard' \o parsed'.data) \o Ahead'.data = sent'
      BY <1>1, <3>2, <3>3, <3>5, <3>6 DEF u
    <3> QED
      BY <1>1, <1>9, <3>6 DEF OutputIsOnItsWay, data
  <2>3. raw \in Commands /\ raw.do = "Raw" /\ raw.bytes = reply
    BY <1>3 DEF Commands
  <2> HIDE DEF raw
  <2>4. commands' = IF reply = <<>> THEN commands ELSE Append(commands, raw)
    BY <1>9 DEF raw
  <2>5. commands' \in Seq(Commands)
    BY <1>3, <2>3, <2>4
  <2>6. TypeOK'
    BY <1>1, <1>2, <1>6, <1>9, <2>1, <2>5, NothingIs DEF TypeOK, ClientTypeOK
  <2>7. \A o, verbs : LastQueued(commands', o, verbs)
                        = Later(LastQueued(commands, o, verbs), LastSaid(reply, o, verbs))
    <3> TAKE o, verbs
    <3>1. CASE reply = <<>>
      BY <2>4, <3>1, LastSaidFew, LaterLaws
    <3>2. CASE reply # <<>>
      <4>1. Queued(raw, o, verbs) = LastSaid(reply, o, verbs)
        BY <2>3 DEF Queued
      <4> QED
        BY <1>3, <2>3, <2>4, <3>2, <4>1, LastQueuedAfter
    <3> QED
      BY <3>1, <3>2
  <2>8. OptionsConverge'
    <3>1. ASSUME NEW o, NEW verbs PROVE LastOnTheWay(o, verbs)' = LastOnTheWay(o, verbs)
      <4> DEFINE first == LastSaid(toServer, o, verbs)
                 second == LastQueued(commands, o, verbs)
                 third == LastSaid(reply, o, verbs)
                 fourth == LastSaid(Ahead.reply, o, verbs)
      <4>1. LastSaid(parsed'.reply, o, verbs) = "none"
        BY <1>1, NothingIs, LastSaidFew
      <4>2. LastOnTheWay(o, verbs) = Later(Later(first, second), Later(third, fourth))
        BY DEF LastOnTheWay
      <4>3. LastOnTheWay(o, verbs)' = Later(Later(first, Later(second, third)), Later("none", fourth))
        BY <1>1, <1>4, <2>7, <4>1 DEF LastOnTheWay
      <4> HIDE DEF first, second, third, fourth
      <4> QED
        BY <4>2, <4>3, LaterLaws
    <3> QED
      BY <1>1, <1>2, <1>4, <3>1, ConvergeStays
  <2>9. SizeIsTold'
    <3>1. ASSUME NEW k \in DOMAIN commands', commands'[k].do = "Raw" PROVE SizeFollows(commands'[k].bytes)
      <4>1. CASE k \in DOMAIN commands /\ commands'[k] = commands[k]
        BY <1>2, <3>1, <4>1 DEF SizeIsTold
      <4>2. CASE commands'[k] = raw
        BY <1>2, <2>3, <4>2 DEF SizeIsTold
      <4> QED
        BY <1>3, <2>3, <2>4, <3>1, <4>1, <4>2
    <3> QED
      BY <1>1, <1>2, <1>7, <3>1 DEF SizeIsTold
  <2> QED
    BY <1>5, <2>1, <2>2, <2>6, <2>8, <2>9 DEF IInv
<1> QED
  BY <1>8, <1>9 DEF QueueParsed

\* ReadEnd: nothing is left to be read, and the end is reported last.
LEMMA EndingKeeps ==
  ASSUME IInv, ReadEnd
  PROVE  IInv'
<1>1. /\ reader = "reading" /\ reader' = "ended" /\ Report(<<Closed>>) /\ socket = "closed"
      /\ telnet' = telnet /\ parsed' = parsed /\ writer' = writer /\ commands' = commands
      /\ window' = window /\ shut' = shut /\ listening' = listening
      /\ toServer' = toServer /\ toClient' = toClient /\ socket' = socket
      /\ client' = client /\ server' = server /\ told' = told /\ sent' = sent
      /\ requests' = requests /\ inputs' = inputs /\ cuts' = cuts
  BY DEF ReadEnd, wires, serverVars, counters
<1>2. /\ TypeOK /\ EndIsReported /\ OutputIsOnItsWay /\ ServerIsWellSpoken /\ OptionsConverge /\ SizeIsTold
  BY DEF IInv
<1>3. EndIsReported' /\ events' \in Seq(Events) /\ (listening => Heard' = Heard)
  BY <1>1, <1>2, ReportsEnd
<1>4. OutputIsOnItsWay'
  BY <1>1, <1>3, EndHeard
<1>5. ServerIsWellSpoken'
  BY <1>1, <1>2 DEF ServerIsWellSpoken, Ahead
<1>6. TypeOK'
  BY <1>1, <1>2, <1>3 DEF TypeOK, ClientTypeOK, ServerTypeOK, CountersOK
<1>7. OptionsConverge'
  BY <1>1, ConvergeNext
<1>8. SizeIsTold'
  BY <1>1, <1>2 DEF SizeIsTold
<1> QED
  BY <1>3, <1>4, <1>5, <1>6, <1>7, <1>8 DEF IInv

AsQueued(list, command) ==
  \A o : LastSaid(list, o, US) = Queued(command, o, US) /\ LastSaid(list, o, THEM) = Queued(command, o, THEM)
AsSaid(list, before) ==
  \A o : LastSaid(list, o, US) = LastSaid(before, o, US) /\ LastSaid(list, o, THEM) = LastSaid(before, o, THEM)

\* What the writer writes for a command that the negotiation is not touched by.
LEMMA WritesOut ==
  ASSUME IInv, writer = "waiting", commands # <<>>, commands' = Tail(commands),
         NEW bytes \in Seq(Messages), Written(bytes), SizeFollows(bytes),
         AsQueued(bytes, Head(commands)), telnet' \in Telnets,
         Ahead'.data = Ahead.data, Ahead'.reply \in Seq(Messages), AsSaid(Ahead'.reply, Ahead.reply),
         Ahead'.telnet.state = "Data", Ahead'.telnet.enabledHere = Ahead.telnet.enabledHere,
         Ahead'.telnet.enabledThere = Ahead.telnet.enabledThere,
         UNCHANGED <<reader, parsed, events, window, shut, listening, toClient, socket, serverVars, counters>>
  PROVE  IInv'
<1>1. /\ reader' = reader /\ parsed' = parsed /\ events' = events /\ window' = window /\ shut' = shut
      /\ listening' = listening /\ toClient' = toClient /\ socket' = socket
      /\ client' = client /\ server' = server /\ told' = told /\ sent' = sent
      /\ requests' = requests /\ inputs' = inputs /\ cuts' = cuts
  BY DEF serverVars, counters
<1>2. /\ TypeOK /\ EndIsReported /\ OutputIsOnItsWay /\ ServerIsWellSpoken /\ OptionsConverge /\ SizeIsTold
  BY DEF IInv
<1>3. /\ commands \in Seq(Commands) /\ toServer \in Seq(Messages) /\ Tail(commands) \in Seq(Commands)
      /\ DOMAIN Tail(commands) = 1 .. Len(commands) - 1
      /\ \A k \in DOMAIN Tail(commands) : k + 1 \in DOMAIN commands /\ Tail(commands)[k] = commands[k + 1]
  BY <1>2, TailElements DEF TypeOK, ClientTypeOK, ServerTypeOK
<1>4. \/ socket = "open" /\ toServer' = toServer \o bytes /\ writer' = writer
      \/ socket # "open" /\ toServer' = toServer /\ writer' \in {"waiting", "ended"}
  BY DEF Written
<1>5. toServer' \in Seq(Messages) /\ SizeFollows(toServer') /\ writer' \in {"waiting", "ended"}
  <2>1. CASE socket = "open" /\ toServer' = toServer \o bytes /\ writer' = writer
    <3>1. toServer \o bytes \in Seq(Messages)
      BY <1>3, ConcatElements
    <3>2. SizeFollows(toServer)
      BY <1>2 DEF SizeIsTold
    <3>3. SizeFollows(toServer \o bytes)
      BY <1>3, <3>2, SizeFollowsConcat
    <3> QED
      BY <2>1, <3>1, <3>3
  <2>2. CASE toServer' = toServer /\ writer' \in {"waiting", "ended"}
    BY <1>2, <1>3, <2>2 DEF SizeIsTold
  <2> QED
    BY <1>4, <2>1, <2>2
<1>6. TypeOK'
  BY <1>1, <1>2, <1>3, <1>5 DEF TypeOK, ClientTypeOK, ServerTypeOK, CountersOK
<1>7. EndIsReported' /\ ServerIsWellSpoken'
  BY <1>1, <1>2 DEF EndIsReported, ServerIsWellSpoken
<1>8. OutputIsOnItsWay'
  <2>1. Heard' = Heard
    BY <1>1 DEF Heard
  <2> QED
    <3>1. ASSUME listening, reader # "ended" PROVE (Heard' \o parsed'.data) \o Ahead'.data = sent'
      <4>1. (Heard \o parsed.data) \o Ahead.data = sent
        BY <1>2, <3>1 DEF OutputIsOnItsWay
      <4> QED
        BY <1>1, <2>1, <4>1
    <3>2. ASSUME listening, reader = "ended" PROVE IsPrefix(Heard', sent')
      BY <1>1, <1>2, <2>1, <3>2 DEF OutputIsOnItsWay
    <3>3. listening' = listening /\ reader' = reader
      BY <1>1
    <3>4. CASE reader = "ended"
      BY <3>2, <3>3, <3>4 DEF OutputIsOnItsWay
    <3>5. CASE reader # "ended"
      <4>1. reader' # "ended" /\ (listening' => listening)
        BY <3>3, <3>5
      <4>2. listening' => (Heard' \o parsed'.data) \o Ahead'.data = sent'
        BY <3>1, <3>5, <4>1
      <4> QED
        BY <4>1, <4>2, Zenon DEF OutputIsOnItsWay
    <3> QED
      BY <3>4, <3>5
<1>9. SizeIsTold'
  <2>1. \A k \in DOMAIN commands' : commands'[k].do = "Raw" => SizeFollows(commands'[k].bytes)
    BY <1>2, <1>3 DEF SizeIsTold
  <2>2. ASSUME socket = "open", toServer # <<>> PROVE toServer' # <<>> /\ Head(toServer') = Head(toServer)
    <3>1. toServer' = toServer \o bytes
      BY <1>4, <2>2
    <3>2. Len(toServer) > 0 /\ Len(toServer') = Len(toServer) + Len(bytes) /\ toServer'[1] = toServer[1]
      BY <1>3, <2>2, <3>1, ConcatElements
    <3> QED
      BY <1>3, <1>5, <2>2, <3>2
  <2> QED
    BY <1>1, <1>2, <1>5, <2>1, <2>2 DEF SizeIsTold
<1>10. OptionsConverge'
  <2>1. ASSUME NEW verbs \in {US, THEM}, NEW o, socket = "open" PROVE LastOnTheWay(o, verbs)' = LastOnTheWay(o, verbs)
    <3> DEFINE first == LastSaid(toServer, o, verbs)
               second == LastSaid(bytes, o, verbs)
               third == LastQueued(Tail(commands), o, verbs)
               rest == Later(LastSaid(parsed.reply, o, verbs), LastSaid(Ahead.reply, o, verbs))
    <3>1. LastQueued(commands, o, verbs) = Later(second, third)
      <4>1. second = Queued(Head(commands), o, verbs)
        BY <2>1 DEF AsQueued
      <4> QED
        BY <1>3, <4>1, LastQueuedAfter
    <3>2. LastSaid(toServer', o, verbs) = Later(first, second)
      <4>1. toServer' = toServer \o bytes
        BY <1>4, <2>1
      <4>2. LastSaid(toServer \o bytes, o, verbs) = Later(first, second)
        BY <1>3, LastSaidConcat
      <4> QED
        BY <4>1, <4>2
    <3>3. LastOnTheWay(o, verbs) = Later(Later(first, Later(second, third)), rest)
      BY <3>1 DEF LastOnTheWay
    <3>4. LastSaid(Ahead'.reply, o, verbs) = LastSaid(Ahead.reply, o, verbs)
      BY <2>1 DEF AsSaid
    <3>5. LastOnTheWay(o, verbs)' = Later(Later(Later(first, second), third), rest)
      BY <1>1, <3>2, <3>4 DEF LastOnTheWay
    <3> HIDE DEF first, second, third, rest
    <3> QED
      BY <3>3, <3>5, LaterLaws
  <2> QED
    BY <1>1, <1>2, <2>1, ConvergeStays
<1> QED
  BY <1>6, <1>7, <1>8, <1>9, <1>10 DEF IInv

LEMMA ResizeIs ==
  ASSUME NEW t \in Telnets, NEW size \in Nat, NEW p, p = Resize(t, size)
  PROVE  /\ Clamped(size) \in Nat \ {0} /\ p.telnet = [t EXCEPT !.size = Clamped(size)] /\ p.telnet \in Telnets
         /\ p.reply \in Seq(Messages) /\ SizeFollows(p.reply)
         /\ Mute(p.reply, US) /\ Mute(p.reply, THEM)
<1> DEFINE n == Clamped(size)
           m == SizeIs(n)
<1>1. n \in Nat \ {0}
  BY DEF Clamped
<1> HIDE DEF n
<1>2. m \in Messages /\ m # Say("WILL", "NAWS") /\ \A o : Word(m, o, US) = "none" /\ Word(m, o, THEM) = "none"
  BY <1>1 DEF SizeIs, Messages, Talk, Say, Word, US, THEM
<1>3. p.telnet = [t EXCEPT !.size = n]
  BY DEF Resize, n
<1>4. p.reply = <<m>> \/ p.reply = <<>>
  BY DEF Resize, n
<1>5. p.telnet \in Telnets
  BY <1>1, <1>3 DEF Telnets
<1> HIDE DEF m
<1>6. p.reply \in Seq(Messages) /\ SizeFollows(p.reply)
  BY <1>2, <1>4, FewOf, SizeFollowsFew
<1>7. Mute(p.reply, US) /\ Mute(p.reply, THEM)
  BY <1>2, <1>4, LastSaidFew DEF Mute
<1> QED
  BY <1>1, <1>3, <1>5, <1>6, <1>7 DEF n

LEMMA CommandIs ==
  ASSUME IInv, commands # <<>>, NEW c, c = Head(commands)
  PROVE  /\ c.do = "Raw" => c.bytes \in Seq(Messages) /\ SizeFollows(c.bytes)
         /\ c.do = "Data" => c.byte = "high"
         /\ c.do = "Resize" => c.size \in Nat
         /\ Tail(commands) \in Seq(Commands)
         /\ \A k \in DOMAIN Tail(commands) : Tail(commands)[k].do = "Raw" => SizeFollows(Tail(commands)[k].bytes)
<1>1. commands \in Seq(Commands) /\ SizeIsTold
  BY DEF IInv, TypeOK, ClientTypeOK
<1>2. /\ Tail(commands) \in Seq(Commands) /\ c \in Commands /\ c = commands[1] /\ 1 \in DOMAIN commands
      /\ \A k \in DOMAIN Tail(commands) : k + 1 \in DOMAIN commands /\ Tail(commands)[k] = commands[k + 1]
  BY <1>1, TailElements
<1>3. /\ c.do = "Raw" => c.bytes \in Seq(Messages)
      /\ c.do = "Data" => c.byte = "high"
      /\ c.do = "Resize" => c.size \in Nat
  BY <1>2 DEF Commands
<1>4. c.do = "Raw" => SizeFollows(c.bytes)
  BY <1>1, <1>2 DEF SizeIsTold
<1>5. \A k \in DOMAIN Tail(commands) : Tail(commands)[k].do = "Raw" => SizeFollows(Tail(commands)[k].bytes)
  BY <1>1, <1>2 DEF SizeIsTold
<1> QED
  BY <1>2, <1>3, <1>4, <1>5

LEMMA TakingKeeps ==
  ASSUME IInv, TakeCommand
  PROVE  IInv'
<1> DEFINE c == Head(commands)
<1>1. /\ writer = "waiting" /\ commands # <<>> /\ commands' = Tail(commands)
      /\ UNCHANGED <<reader, parsed, events, window, shut, listening, toClient, socket, serverVars, counters>>
  BY DEF TakeCommand
<1>2. /\ TypeOK /\ EndIsReported /\ OutputIsOnItsWay /\ ServerIsWellSpoken /\ OptionsConverge /\ SizeIsTold
  BY DEF IInv
<1>3. telnet \in Telnets /\ toClient \in Seq(Bytes) /\ toClient' = toClient
  BY <1>1, <1>2 DEF TypeOK, ClientTypeOK, ServerTypeOK
<1>4. /\ c.do = "Raw" => c.bytes \in Seq(Messages) /\ SizeFollows(c.bytes)
      /\ c.do = "Data" => c.byte = "high"
      /\ c.do = "Resize" => c.size \in Nat
  BY <1>1, CommandIs
<1>5. Ahead \in Parses /\ Ahead.telnet.state = "Data" /\ Ahead.reply \in Seq(Messages)
  BY <1>2, AheadType DEF ServerIsWellSpoken
<1>6. ASSUME telnet' = telnet
      PROVE  /\ telnet' \in Telnets /\ Ahead'.data = Ahead.data /\ Ahead'.reply \in Seq(Messages)
             /\ AsSaid(Ahead'.reply, Ahead.reply) /\ Ahead'.telnet.state = "Data"
             /\ Ahead'.telnet.enabledHere = Ahead.telnet.enabledHere
             /\ Ahead'.telnet.enabledThere = Ahead.telnet.enabledThere
  <2>1. Ahead' = Ahead
    BY <1>3, <1>6 DEF Ahead
  <2> QED
    BY <1>3, <1>5, <1>6, <2>1 DEF AsSaid
<1>7. CASE c.do = "Raw" /\ Written(c.bytes) /\ UNCHANGED telnet
  <2>1. AsQueued(c.bytes, Head(commands))
    BY <1>7 DEF AsQueued, Queued
  <2> QED
    BY <1>1, <1>4, <1>6, <1>7, <2>1, WritesOut
<1>8. CASE c.do = "Data" /\ Written(<<Outgoing(telnet, c.byte)>>) /\ UNCHANGED telnet
  <2> DEFINE m == Outgoing(telnet, c.byte)
             bytes == <<m>>
  <2>1. m \in Messages /\ m # Say("WILL", "NAWS")
        /\ \A o : Word(m, o, US) = "none" /\ Word(m, o, THEM) = "none"
    BY <1>4, <1>8 DEF Outgoing, Typed, Messages, Talk, Say, Word, US, THEM
  <2> HIDE DEF m
  <2>2. bytes \in Seq(Messages) /\ SizeFollows(bytes)
    BY <2>1, FewOf, SizeFollowsFew
  <2>3. \A o : LastSaid(bytes, o, US) = "none" /\ LastSaid(bytes, o, THEM) = "none"
    BY <2>1, LastSaidOne
  <2>4. AsQueued(bytes, Head(commands))
    BY <1>8, <2>3 DEF AsQueued, Queued
  <2>5. Written(bytes)
    BY <1>8 DEF m
  <2> HIDE DEF bytes
  <2> QED
    BY <1>1, <1>6, <1>8, <2>2, <2>4, <2>5, WritesOut
<1>9. CASE c.do = "Resize" /\ telnet' = Resize(telnet, c.size).telnet /\ Written(Resize(telnet, c.size).reply)
  <2> DEFINE p == Resize(telnet, c.size)
             n == Clamped(c.size)
             bytes == p.reply
             r == Ahead.reply
  <2>1. /\ n \in Nat \ {0} /\ p.telnet = [telnet EXCEPT !.size = n] /\ p.telnet \in Telnets
        /\ bytes \in Seq(Messages) /\ SizeFollows(bytes)
        /\ Mute(bytes, US) /\ Mute(bytes, THEM)
    <3>1. telnet \in Telnets /\ c.size \in Nat
      BY <1>3, <1>4, <1>9
    <3> QED
      BY ONLY <3>1, ResizeIs
  <2>2. AsQueued(bytes, Head(commands))
    BY <1>9, <2>1 DEF AsQueued, Queued, Mute
  <2>3. Written(bytes) /\ telnet' = [telnet EXCEPT !.size = n] /\ telnet' \in Telnets
    BY <1>9, <2>1
  <2> HIDE DEF p, n, bytes
  <2>4. Ahead' = Resized(Ahead, n)
    BY <1>3, <2>1, <2>3, ReceiveResized DEF Ahead
  <2>5. Ahead'.telnet = [Ahead.telnet EXCEPT !.size = n] /\ Ahead'.data = Ahead.data /\ Ahead'.reply = Resizes(r, n)
    BY <2>4 DEF Resized
  <2>6. /\ Ahead'.telnet.state = "Data" /\ Ahead'.telnet.enabledHere = Ahead.telnet.enabledHere
        /\ Ahead'.telnet.enabledThere = Ahead.telnet.enabledThere
    BY <1>5, <2>5 DEF Parses, Telnets
  <2>7. r \in Seq(Talk(Options)) /\ "SIZE" \notin US /\ "SIZE" \notin THEM
    BY <1>5 DEF Messages, US, THEM
  <2>8. AsSaid(Resizes(r, n), r) /\ Resizes(r, n) \in Seq(Messages)
    <3> HIDE DEF r
    <3>1. Resizes(r, n) \in Seq(Talk(Options))
      BY <2>1, <2>7, ResizesIs
    <3>2. \A o : LastSaid(Resizes(r, n), o, US) = LastSaid(r, o, US) /\ LastSaid(Resizes(r, n), o, THEM) = LastSaid(r, o, THEM)
      BY <2>1, <2>7, ResizesSaid
    <3> QED
      BY <3>1, <3>2 DEF AsSaid, Messages
  <2> QED
    BY <1>1, <2>1, <2>2, <2>3, <2>5, <2>6, <2>8, WritesOut
<1>10. CASE c.do = "Shutdown" /\ writer' = "ended" /\ UNCHANGED <<telnet, toServer>>
  <2>1. /\ reader' = reader /\ parsed' = parsed /\ events' = events /\ window' = window /\ shut' = shut
        /\ listening' = listening /\ toClient' = toClient /\ socket' = socket /\ telnet' = telnet /\ toServer' = toServer
        /\ client' = client /\ server' = server /\ told' = told /\ sent' = sent
        /\ requests' = requests /\ inputs' = inputs /\ cuts' = cuts
    BY <1>1, <1>10 DEF serverVars, counters
  <2>2. Tail(commands) \in Seq(Commands)
        /\ \A k \in DOMAIN Tail(commands) : Tail(commands)[k].do = "Raw" => SizeFollows(Tail(commands)[k].bytes)
    BY <1>1, CommandIs
  <2>3. TypeOK'
    BY <1>1, <1>2, <1>10, <2>1, <2>2 DEF TypeOK, ClientTypeOK, ServerTypeOK, CountersOK
  <2>4. Ahead' = Ahead /\ Heard' = Heard
    BY <2>1 DEF Ahead, Heard
  <2>5. EndIsReported' /\ ServerIsWellSpoken'
    BY <1>2, <2>1, <2>4 DEF EndIsReported, ServerIsWellSpoken
  <2>6. OutputIsOnItsWay'
    BY <1>2, <2>1, <2>4 DEF OutputIsOnItsWay
  <2>7. OptionsConverge'
    BY <1>10, ConvergeNext
  <2>8. SizeIsTold'
    BY <1>1, <1>2, <2>1, <2>2 DEF SizeIsTold
  <2> QED
    BY <2>3, <2>5, <2>6, <2>7, <2>8 DEF IInv
<1> QED
  BY <1>7, <1>8, <1>9, <1>10 DEF TakeCommand

\* The interface queues what says nothing of any option.
LEMMA QueuesMore ==
  ASSUME IInv, NEW c \in Commands, c.do # "Raw", Ask(c),
         window' \in Nat, shut' \in BOOLEAN, CountersOK',
         UNCHANGED <<telnet, reader, parsed, writer, events, listening, wires, client, server, told, sent>>
  PROVE  IInv'
<1>1. /\ TypeOK /\ EndIsReported /\ OutputIsOnItsWay /\ ServerIsWellSpoken /\ OptionsConverge /\ SizeIsTold
  BY DEF IInv
<1>2. /\ telnet' = telnet /\ reader' = reader /\ parsed' = parsed /\ writer' = writer /\ events' = events
      /\ listening' = listening /\ toServer' = toServer /\ toClient' = toClient /\ socket' = socket
      /\ client' = client /\ server' = server /\ told' = told /\ sent' = sent
  BY DEF wires
<1>3. commands \in Seq(Commands)
  BY <1>1 DEF TypeOK, ClientTypeOK
<1>4. /\ commands' \in Seq(Commands)
      /\ (\A k \in DOMAIN commands : commands[k].do = "Raw" => SizeFollows(commands[k].bytes)) =>
           \A k \in DOMAIN commands' : commands'[k].do = "Raw" => SizeFollows(commands'[k].bytes)
  BY <1>3 DEF Ask
<1>5. TypeOK'
  BY <1>1, <1>2, <1>4 DEF TypeOK, ClientTypeOK, ServerTypeOK
<1>6. Ahead' = Ahead /\ Heard' = Heard
  BY <1>2 DEF Ahead, Heard
<1>7. EndIsReported' /\ ServerIsWellSpoken'
  BY <1>1, <1>2, <1>6 DEF EndIsReported, ServerIsWellSpoken
<1>8. OutputIsOnItsWay'
  <2>1. OutputIsOnItsWay /\ listening' = listening /\ reader' = reader /\ parsed' = parsed /\ sent' = sent
    BY <1>1, <1>2
  <2> QED
    BY ONLY <2>1, <1>6 DEF OutputIsOnItsWay
<1>9. SizeIsTold'
  BY <1>1, <1>2, <1>4 DEF SizeIsTold
<1>10. \A o, verbs : LastQueued(commands', o, verbs) = LastQueued(commands, o, verbs)
  <2> SUFFICES ASSUME NEW o, NEW verbs, writer # "ended"
               PROVE  LastQueued(commands', o, verbs) = LastQueued(commands, o, verbs)
    BY DEF Ask
  <2>1. LastQueued(Append(commands, c), o, verbs) = Later(LastQueued(commands, o, verbs), Queued(c, o, verbs))
    BY <1>3, LastQueuedAfter
  <2>2. Queued(c, o, verbs) = "none"
    BY DEF Queued
  <2> QED
    BY <2>1, <2>2, LaterLaws DEF Ask
<1>11. \A o, verbs : LastOnTheWay(o, verbs)' = LastOnTheWay(o, verbs)
  BY <1>2, <1>6, <1>10 DEF LastOnTheWay
<1>12. OptionsConverge'
  BY <1>1, <1>2, <1>6, <1>11, ConvergeStays
<1> QED
  BY <1>5, <1>7, <1>8, <1>9, <1>12 DEF IInv

LEMMA UsingKeeps ==
  ASSUME IInv, Interface
  PROVE  IInv'
<1>1. /\ TypeOK /\ EndIsReported /\ OutputIsOnItsWay /\ ServerIsWellSpoken /\ OptionsConverge /\ SizeIsTold
  BY DEF IInv
<1>2. window \in Nat /\ shut \in BOOLEAN /\ CountersOK
  BY <1>1 DEF TypeOK, ClientTypeOK
<1>3. CASE Type
  <2> DEFINE c == [do |-> "Data", byte |-> "high"]
  <2>1. c \in Commands /\ c.do # "Raw"
    BY DEF Commands
  <2>2. CountersOK'
    BY <1>2, <1>3, CountersGrow DEF Type, serverVars
  <2>3. Ask(c) /\ window' = window /\ shut' = shut
        /\ UNCHANGED <<telnet, reader, parsed, writer, events, listening, wires, client, server, told, sent>>
    BY <1>3 DEF Type, serverVars
  <2> HIDE DEF c
  <2> QED
    BY <1>2, <2>1, <2>2, <2>3, QueuesMore
<1>4. ASSUME NEW size \in Sizes, ResizeWindow(size)
      PROVE  IInv'
  <2> DEFINE c == [do |-> "Resize", size |-> size]
  <2>1. size \in Nat
    BY SizesAssumption
  <2>2. c \in Commands /\ c.do # "Raw"
    BY <2>1 DEF Commands
  <2>3. CountersOK'
    BY <1>2, <1>4, CountersGrow DEF ResizeWindow, serverVars
  <2>4. Ask(c) /\ window' = size /\ shut' = shut
        /\ UNCHANGED <<telnet, reader, parsed, writer, events, listening, wires, client, server, told, sent>>
    BY <1>4 DEF ResizeWindow, serverVars
  <2> HIDE DEF c
  <2> QED
    BY <1>2, <2>1, <2>2, <2>3, <2>4, QueuesMore
<1>5. CASE Shutdown
  <2> DEFINE c == [do |-> "Shutdown"]
  <2>1. c \in Commands /\ c.do # "Raw"
    BY DEF Commands
  <2>2. CountersOK'
    BY <1>2, <1>5 DEF Shutdown, serverVars, counters, CountersOK
  <2>3. Ask(c) /\ window' = window /\ shut' = TRUE
        /\ UNCHANGED <<telnet, reader, parsed, writer, events, listening, wires, client, server, told, sent>>
    BY <1>5 DEF Shutdown, serverVars
  <2> HIDE DEF c
  <2> QED
    BY <1>2, <2>1, <2>2, <2>3, QueuesMore
<1>6. CASE Drop
  <2>1. /\ listening' = FALSE /\ events' = <<>>
        /\ telnet' = telnet /\ reader' = reader /\ parsed' = parsed /\ writer' = writer /\ commands' = commands
        /\ window' = window /\ shut' = shut /\ toServer' = toServer /\ toClient' = toClient /\ socket' = socket
        /\ client' = client /\ server' = server /\ told' = told /\ sent' = sent
        /\ requests' = requests /\ inputs' = inputs /\ cuts' = cuts
    BY <1>6 DEF Drop, wires, serverVars, counters
  <2>10. events' \in Seq(Events)
    BY <2>1, FewOf
  <2>8. ClientTypeOK'
    BY <1>1, <2>1, <2>10 DEF TypeOK, ClientTypeOK
  <2>9. ServerTypeOK' /\ CountersOK'
    BY <1>1, <2>1 DEF TypeOK, ServerTypeOK, CountersOK
  <2>2. TypeOK'
    BY <2>8, <2>9 DEF TypeOK
  <2>3. EndIsReported' /\ OutputIsOnItsWay'
    BY <2>1 DEF EndIsReported, OutputIsOnItsWay
  <2>4. Ahead' = Ahead
    BY <2>1 DEF Ahead
  <2>5. ServerIsWellSpoken' /\ SizeIsTold'
    BY <1>1, <2>1, <2>4 DEF ServerIsWellSpoken, SizeIsTold
  <2>6. \A o, verbs : LastOnTheWay(o, verbs)' = LastOnTheWay(o, verbs)
    BY <2>1, <2>4 DEF LastOnTheWay
  <2>7. OptionsConverge'
    BY <1>1, <2>1, <2>4, <2>6, ConvergeStays
  <2> QED
    BY <2>2, <2>3, <2>5, <2>7 DEF IInv
<1> QED
  BY <1>3, <1>4, <1>5, <1>6 DEF Interface

\* Stuttering.
LEMMA StandsStill ==
  ASSUME IInv, UNCHANGED <<clientVars, toClient, sent>>,
         UNCHANGED <<toServer, socket, client, server, told, requests, inputs, cuts>>
  PROVE  IInv'
<1>1. /\ TypeOK /\ EndIsReported /\ OutputIsOnItsWay /\ ServerIsWellSpoken /\ OptionsConverge /\ SizeIsTold
  BY DEF IInv
<1>2. /\ telnet' = telnet /\ reader' = reader /\ parsed' = parsed /\ writer' = writer /\ commands' = commands
      /\ events' = events /\ window' = window /\ shut' = shut /\ listening' = listening
      /\ toServer' = toServer /\ toClient' = toClient /\ socket' = socket
      /\ client' = client /\ server' = server /\ told' = told /\ sent' = sent
      /\ requests' = requests /\ inputs' = inputs /\ cuts' = cuts
  BY DEF clientVars
<1>3. Ahead' = Ahead /\ ServerIsWellSpoken' /\ OutputIsOnItsWay'
  BY NothingSaid
<1>4. TypeOK'
  BY <1>1, <1>2 DEF TypeOK, ClientTypeOK, ServerTypeOK, CountersOK
<1>5. EndIsReported' /\ SizeIsTold'
  BY <1>1, <1>2 DEF EndIsReported, SizeIsTold
<1>6. \A o, verbs : LastOnTheWay(o, verbs)' = LastOnTheWay(o, verbs)
  BY <1>2, <1>3 DEF LastOnTheWay
<1>7. OptionsConverge'
  BY <1>1, <1>2, <1>3, <1>6, ConvergeStays
<1> QED
  BY <1>3, <1>4, <1>5, <1>7 DEF IInv

\* Every step keeps the invariant.
LEMMA StepKeeps ==
  ASSUME IInv, [Next]_vars
  PROVE  IInv'
<1>1. CASE ReadingTask
  BY <1>1, ReadingKeeps, QueueingKeeps, EndingKeeps DEF ReadingTask
<1>2. CASE WritingTask
  BY <1>2, TakingKeeps DEF WritingTask
<1>3. CASE Interface
  BY <1>3, UsingKeeps
<1>4. CASE Server
  BY <1>4, HearingKeeps, AskingKeeps, SendingKeeps, ClosingKeeps DEF Server
<1>5. CASE UNCHANGED vars
  <2>1. UNCHANGED <<clientVars, toClient, sent>> /\ UNCHANGED <<toServer, socket, client, server, told, requests, inputs, cuts>>
    BY <1>5 DEF vars, clientVars
  <2> QED
    BY <2>1, StandsStill
<1> QED
  BY <1>1, <1>2, <1>3, <1>4, <1>5 DEF Next

\* And it holds to begin with: nothing is agreed and nothing is waited for.
LEMMA InitHolds ==
  ASSUME Init
  PROVE  IInv
<1> DEFINE t == New(FirstSize)
           none == <<>>
           states == [o \in Options |-> "no"]
<1>1. /\ telnet = t /\ reader = "reading" /\ parsed = Nothing /\ writer = "waiting" /\ commands = none /\ events = none
      /\ window = FirstSize /\ shut = FALSE /\ listening = TRUE /\ toServer = Opening /\ toClient = none
      /\ socket = "open" /\ client = states /\ server = states /\ told = 0 /\ sent = none
      /\ requests = 0 /\ inputs = 0 /\ cuts = 0
  BY DEF Init
<1>2. t \in Telnets /\ t.state = "Data" /\ t.enabledHere = {} /\ t.enabledThere = {}
  <2>1. Clamped(FirstSize) \in Nat \ {0}
    BY SizesAssumption DEF Clamped
  <2>2. none \in {s \in Seq(Bytes) : Len(s) <= SUBNEGOTIATION_LIMIT}
    BY LimitAssumption
  <2> QED
    BY <2>1, <2>2 DEF New, Telnets, Verbs
<1> HIDE DEF t
<1>3. none \in Seq(Bytes) /\ none \in Seq(Commands) /\ none \in Seq(Events) /\ none \in Seq(Messages)
  BY FewOf
<1>4. ClientTypeOK
  BY <1>1, <1>2, <1>3, NothingIs, SizesAssumption DEF ClientTypeOK
<1>5. ServerTypeOK /\ CountersOK
  <2>1. states \in [Options -> States] /\ 0 \in Nat
    BY DEF States
  <2> HIDE DEF states
  <2>2. ServerTypeOK
    BY <1>1, <1>3, <2>1, OpeningIs DEF ServerTypeOK
  <2>3. CountersOK
    BY <1>1, BoundsAssumption DEF CountersOK
  <2> QED
    BY <2>2, <2>3
<1>6. Ahead = Silent(t)
  BY <1>1, <1>2, ReceiveFew DEF Ahead
<1>7. Ahead.telnet = t /\ Ahead.data = none /\ Ahead.reply = none
  BY <1>6 DEF Silent
<1>8. EndIsReported
  BY <1>1 DEF EndIsReported
<1>9. OutputIsOnItsWay
  <2>1. Heard = none
    BY <1>1, <1>3, HeardMore DEF Heard, HeardIn
  <2>2. parsed.data = none
    BY <1>1, NothingIs
  <2>3. Heard \o parsed.data \o Ahead.data = none
    BY <1>7, <2>1, <2>2
  <2> QED
    BY <1>1, <2>3 DEF OutputIsOnItsWay
<1>10. ServerIsWellSpoken
  BY <1>1, <1>2, <1>3, <1>7 DEF ServerIsWellSpoken
<1>11. OptionsConverge
  <2>1. \A o \in Options : client[o] = "no" /\ server[o] = "no"
    BY <1>1
  <2>2. Ahead.telnet.enabledHere = {} /\ Ahead.telnet.enabledThere = {}
    BY <1>2, <1>7
  <2> QED
    BY <2>1, <2>2 DEF OptionsConverge, Converges, StaysOff
<1>12. SizeIsTold
  <2>1. SizeFollows(toServer) /\ SizeFollows(parsed.reply)
    BY <1>1, OpeningIs, SizeFollowsFew, NothingIs
  <2>2. "NAWS" \in Options => client["NAWS"] # "yes"
    BY <1>1
  <2>3. \A k \in DOMAIN commands : commands[k].do = "Raw" => SizeFollows(commands[k].bytes)
    BY <1>1
  <2> QED
    BY <2>1, <2>2, <2>3 DEF SizeIsTold
<1> QED
  BY <1>4, <1>5, <1>8, <1>9, <1>10, <1>11, <1>12 DEF IInv, TypeOK

\* Reader, writer, interface and server, however their steps cross: what the
\* server takes of an option, what this end does, and what is still on its way
\* about it always come to an agreement.
THEOREM TelnetInvariance == Spec => []IInv
<1>1. Init => IInv
  BY InitHolds
<1>2. IInv /\ [Next]_vars => IInv'
  BY StepKeeps
<1> QED
  BY <1>1, <1>2, PTL DEF Spec

\* Whatever ends the reading task is reported, last and once, to whoever still
\* listens.
THEOREM EveryEndIsReported == Spec => []EndIsReported
<1>1. IInv => EndIsReported
  BY DEF IInv
<1> QED
  BY <1>1, TelnetInvariance, PTL

\* The terminal gets what the server sent, in order, wherever the stream is cut
\* and whatever is negotiated in the middle of it.
THEOREM NothingIsMissed == Spec => []OutputIsWhatWasSent
<1>1. IInv => OutputIsWhatWasSent
  <2> SUFFICES ASSUME IInv, listening, reader # "ended"
               PROVE  IsPrefix(Heard, sent)
    BY DEF OutputIsWhatWasSent, IInv, OutputIsOnItsWay
  <2>1. Heard \o parsed.data \o Ahead.data = sent
    BY DEF IInv, OutputIsOnItsWay
  <2>2. /\ events \in Seq(Events) /\ parsed.data \in Seq(Bytes) /\ Ahead.data \in Seq(Bytes)
    BY AheadType DEF IInv, TypeOK, ClientTypeOK, Parses
  <2>3. Heard \in Seq(Bytes)
    BY <2>2, HeardMore DEF Heard, HeardIn
  <2> DEFINE h == Heard
             d == parsed.data
             a == Ahead.data
  <2>4. h \in Seq(Bytes) /\ d \in Seq(Bytes) /\ a \in Seq(Bytes)
    BY <2>2, <2>3
  <2>9. (h \o d) \o a = sent
    BY <2>1
  <2> HIDE DEF h, d, a
  <2>5. (h \o d) \o a = h \o (d \o a)
    <3>1. Joined(Joined(h, d), a) = Joined(h, Joined(d, a))
      BY ONLY <2>4, JoinedAssoc
    <3> QED
      BY <3>1 DEF Joined
  <2>6. d \o a \in Seq(Bytes)
    BY <2>4, ConcatElements
  <2>7. IsPrefix(h, h \o (d \o a))
    BY <2>4, <2>6, PrefixLaws
  <2>8. IsPrefix(h, sent)
    BY <2>5, <2>7, <2>9
  <2> QED
    BY <2>8 DEF h
<1> QED
  BY <1>1, TelnetInvariance, PTL

\* Once all is said, both ends believe the same of every option, and the server
\* waits for no answer it is owed.
THEOREM BothEndsConverge == Spec => []BothEndsAgree
<1>1. IInv => BothEndsAgree
  <2> SUFFICES ASSUME IInv, Settled
               PROVE  /\ telnet.enabledHere = {o \in Options : client[o] = "yes"}
                      /\ telnet.enabledThere = {o \in Options : server[o] = "yes"}
                      /\ \A o \in Options \cap WE_MAY_ENABLE : client[o] \in {"no", "yes"}
                      /\ \A o \in Options \cap THEY_MAY_ENABLE : server[o] \in {"no", "yes"}
                      /\ "NAWS" \in Options /\ client["NAWS"] = "yes" => told # 0
    BY DEF BothEndsAgree
  <2>1. /\ TypeOK /\ OptionsConverge /\ SizeIsTold /\ ServerIsWellSpoken
    BY DEF IInv
  <2>2. /\ socket = "open" /\ writer = "waiting" /\ reader = "reading"
        /\ toServer = <<>> /\ toClient = <<>> /\ commands = <<>>
    BY DEF Settled
  <2>3. telnet \in Telnets /\ client \in [Options -> States] /\ server \in [Options -> States]
    BY <2>1 DEF TypeOK, ClientTypeOK, ServerTypeOK
  <2>4. Ahead = Silent(telnet)
    BY <2>2, <2>3, ReceiveFew DEF Ahead
  <2>5. Ahead.telnet = telnet /\ Ahead.reply = <<>>
    BY <2>4 DEF Silent
  <2>6. parsed.reply = <<>>
    BY <2>1, <2>2, NothingIs DEF ServerIsWellSpoken
  <2>7. \A o, verbs : LastQueued(commands, o, verbs) = "none"
    BY <2>2, FinalOfFew DEF LastQueued
  <2>8. \A o, verbs : LastOnTheWay(o, verbs) = "none"
    BY <2>2, <2>5, <2>6, <2>7, LastSaidFew, LaterLaws DEF LastOnTheWay
  <2>9. telnet.enabledHere \cup telnet.enabledThere \subseteq Options
    BY <2>1, <2>5 DEF ServerIsWellSpoken
  <2>10. /\ \A o \in Options \cap WE_MAY_ENABLE : Converges(client[o], o \in telnet.enabledHere, "none", "WILL")
         /\ \A o \in Options \ WE_MAY_ENABLE : StaysOff(client[o], o \in telnet.enabledHere)
         /\ \A o \in Options \cap THEY_MAY_ENABLE : Converges(server[o], o \in telnet.enabledThere, "none", "DO")
         /\ \A o \in Options \ THEY_MAY_ENABLE : StaysOff(server[o], o \in telnet.enabledThere)
    BY <2>1, <2>2, <2>5, <2>8 DEF OptionsConverge
  <2>11. \A o \in Options \cap WE_MAY_ENABLE : client[o] \in {"no", "yes"} /\ (o \in telnet.enabledHere <=> client[o] = "yes")
    BY <2>3, <2>10 DEF Converges, States
  <2>12. \A o \in Options \cap THEY_MAY_ENABLE : server[o] \in {"no", "yes"} /\ (o \in telnet.enabledThere <=> server[o] = "yes")
    BY <2>3, <2>10 DEF Converges, States
  <2>13. \A o \in Options : o \in telnet.enabledHere <=> client[o] = "yes"
    BY <2>10, <2>11 DEF StaysOff
  <2>14. \A o \in Options : o \in telnet.enabledThere <=> server[o] = "yes"
    BY <2>10, <2>12 DEF StaysOff
  <2>15. "NAWS" \in Options /\ client["NAWS"] = "yes" => told # 0
    BY <2>1, <2>2 DEF SizeIsTold
  <2> QED
    BY <2>9, <2>11, <2>12, <2>13, <2>14, <2>15
<1> QED
  BY <1>1, TelnetInvariance, PTL
==============================================================================
