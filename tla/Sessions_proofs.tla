--------------------------- MODULE Sessions_proofs ---------------------------
(***************************************************************************)
(* The sessions, in memory and on the disk.                                *)
(*                                                                         *)
(* SessionTree: the child lists and the parents describe one forest,       *)
(* whatever is added, removed and moved, and every operation on them is    *)
(* the one Forest promises.  The order of the argument: a forest stays     *)
(* one; what each operation does to a list; remove's subtree and           *)
(* move_node's ancestors mean what is below a node; so each step is a step *)
(* of Forest, which gives the new forest, and the lists agree with it      *)
(* because each operation changes both.                                    *)
(*                                                                         *)
(* TreeDocument: of all lists of entries those are accepted that are       *)
(* forests, and what is saved is what is loaded.  The first is that a      *)
(* climb of more steps than there are entries has been somewhere twice.    *)
(* The second: putting two lists one after the other puts what they give   *)
(* each folder one after the other, so that a subtree gives a folder its   *)
(* children if the folder is in it, and nothing if not; no folder is below *)
(* two siblings, and every one is below the top level.                     *)
(*                                                                         *)
(* DocumentStore, for any number of running instances: until two saves     *)
(* overlap the document is a whole text at every moment, through kills and *)
(* power failures, and what readers see is the durable document of         *)
(* DurableDocument; and until another instance has come between a backup   *)
(* and the save it is for, the original is kept.                           *)
(***************************************************************************)
EXTENDS TreeDocument, DocumentStore, SequenceTheorems, FiniteSetTheorems, WellFoundedInduction, TLAPS

OnceIn(list) == \A i, j \in DOMAIN list : list[i] = list[j] => i = j

------------------------------------------------------------------------------
(* A forest stays one, whatever is inserted, removed and moved.  The step  *)
(* that needs an argument is Move: a set that goes round in a circle after *)
(* the move holds the moved node and its new parent; what of the set is    *)
(* not below the moved node went round in a circle before.                 *)

\* What is below a node holds the node and everything that is in it.
LEMMA BelowIsClosed ==
  ASSUME NEW id \in nodes
  PROVE  id \in F!Below(id) /\ F!Closed(F!Below(id))
<1>1. id \in F!Below(id)
  BY DEF F!Below
<1>2. ASSUME NEW c \in nodes, parent[c] \in F!Below(id)
      PROVE  c \in F!Below(id)
  <2> SUFFICES ASSUME NEW S \in SUBSET nodes, id \in S, F!Closed(S)
               PROVE  c \in S
    BY DEF F!Below
  <2>1. parent[c] \in S
    BY <1>2 DEF F!Below
  <2> QED
    BY <2>1 DEF F!Closed
<1> QED
  BY <1>1, <1>2 DEF F!Closed

\* Inserting into a forest: a circle would have to pass through the new node,
\* which nothing has as its parent.
LEMMA InsertStep ==
  ASSUME F!TopIsNoNode, F!IsForest, NEW id \in NodeIds, NEW p \in NodeIds \cup {Top}, F!Insert(id, p)
  PROVE  F!IsForest'
<1> USE DEF F!TopIsNoNode
<1>1. F!TypeOK'
  BY DEF F!IsForest, F!TypeOK, F!Insert
<1>2. F!InFolders'
  <2> SUFFICES ASSUME NEW n \in nodes'
               PROVE  parent'[n] \in folders' \cup {Top}
    BY DEF F!InFolders
  <2>1. CASE n = id
    BY <2>1 DEF F!IsForest, F!TypeOK, F!Insert
  <2>2. CASE n # id
    BY <2>2 DEF F!IsForest, F!TypeOK, F!InFolders, F!Insert
  <2> QED
    BY <2>1, <2>2
<1>3. F!Acyclic'
  <2> SUFFICES ASSUME NEW S \in SUBSET nodes', S # {}
               PROVE  \E n \in S : parent'[n] \notin S
    BY DEF F!Acyclic
  <2>1. \A n \in nodes : parent'[n] = parent[n] /\ parent[n] # id
    BY DEF F!IsForest, F!TypeOK, F!InFolders, F!Insert
  <2>2. CASE S = {id}
    <3>1. parent'[id] = p /\ p # id
      BY DEF F!IsForest, F!TypeOK, F!Insert
    <3> QED
      BY <2>2, <3>1
  <2>3. CASE S # {id}
    <3>1. S \ {id} \in SUBSET nodes /\ S \ {id} # {}
      BY <2>3 DEF F!Insert
    <3>2. PICK n \in S \ {id} : parent[n] \notin S \ {id}
      BY <3>1 DEF F!IsForest, F!Acyclic
    <3> QED
      BY <2>1, <3>1, <3>2
  <2> QED
    BY <2>2, <2>3
<1> QED
  BY <1>1, <1>2, <1>3 DEF F!IsForest

\* What remains keeps its parents, and they remain: a node whose folder goes is
\* below what is removed.
LEMMA RemoveStep ==
  ASSUME F!IsForest, NEW id \in NodeIds, F!Remove(id)
  PROVE  F!IsForest'
<1>1. id \in F!Below(id) /\ F!Closed(F!Below(id))
  BY BelowIsClosed DEF F!Remove
<1>2. F!TypeOK'
  BY DEF F!IsForest, F!TypeOK, F!Remove
<1>3. \A n \in nodes' : n \in nodes /\ n \in NodeIds /\ parent'[n] = parent[n] /\ parent[n] \notin F!Below(id)
  BY <1>1 DEF F!IsForest, F!TypeOK, F!Remove, F!Closed
<1>4. F!InFolders'
  BY <1>3 DEF F!IsForest, F!InFolders, F!Remove
<1>5. F!Acyclic'
  BY <1>3 DEF F!IsForest, F!Acyclic, F!Remove
<1> QED
  BY <1>2, <1>4, <1>5 DEF F!IsForest

\* Moving a node to the top level, or into a folder that is not below it.
LEMMA MoveStep ==
  ASSUME F!TopIsNoNode, F!IsForest, NEW id \in NodeIds, NEW p \in NodeIds \cup {Top}, F!Move(id, p)
  PROVE  F!IsForest'
<1> USE DEF F!TopIsNoNode
<1>1. F!TypeOK'
  BY DEF F!IsForest, F!TypeOK, F!Move
<1>2. \A n \in nodes : parent'[n] = IF n = id THEN p ELSE parent[n]
  BY DEF F!IsForest, F!TypeOK, F!Move
<1>3. F!InFolders'
  BY <1>2 DEF F!IsForest, F!InFolders, F!Move, F!MayMove
<1>4. F!Acyclic'
  <2> SUFFICES ASSUME NEW S \in SUBSET nodes, S # {}, \A n \in S : parent'[n] \in S
               PROVE  FALSE
    BY DEF F!Acyclic, F!Move
  <2>1. CASE id \notin S
    BY <1>2, <2>1 DEF F!IsForest, F!Acyclic
  <2>2. CASE id \in S
    <3>1. p \in S /\ p \in nodes
      BY <1>2, <2>2
    <3>2. PICK T \in SUBSET nodes : id \in T /\ F!Closed(T) /\ p \notin T
      BY <3>1 DEF F!Move, F!MayMove, F!Below, F!IsForest, F!TypeOK
    <3>3. S \ T \in SUBSET nodes /\ S \ T # {}
      BY <3>1, <3>2
    <3>4. \A n \in S \ T : parent[n] \in S \ T
      BY <1>2, <3>2 DEF F!Closed
    <3> QED
      BY <3>3, <3>4 DEF F!IsForest, F!Acyclic
  <2> QED
    BY <2>1, <2>2
<1> QED
  BY <1>1, <1>3, <1>4 DEF F!IsForest

\* The empty forest is one.
LEMMA InitForest == F!Init => F!IsForest
BY DEF F!Init, F!IsForest, F!TypeOK, F!InFolders, F!Acyclic

\* Every operation keeps it one.
LEMMA StepForest ==
  ASSUME F!TopIsNoNode, F!IsForest, [F!Next]_(F!vars)
  PROVE  F!IsForest'
<1>1. CASE UNCHANGED F!vars
  BY <1>1 DEF F!IsForest, F!TypeOK, F!InFolders, F!Acyclic, F!vars
<1>2. CASE F!Next
  <2>1. CASE \E id \in NodeIds, p \in NodeIds \cup {Top} : F!Insert(id, p)
    BY <2>1, InsertStep
  <2>2. CASE \E id \in NodeIds, p \in NodeIds \cup {Top} : F!Move(id, p)
    BY <2>2, MoveStep
  <2>3. CASE \E id \in NodeIds : F!Remove(id)
    BY <2>3, RemoveStep
  <2> QED
    BY <1>2, <2>1, <2>2, <2>3 DEF F!Next
<1> QED
  BY <1>1, <1>2

\* No sequence of operations puts a folder inside itself or leaves a node whose
\* folder is gone (move_node and remove in crates/core-model/src/tree.rs).
THEOREM StaysForest == F!Spec => []F!IsForest
<1>1. F!Init => F!IsForest
  BY InitForest
<1>2. F!IsForest /\ [F!Next]_(F!vars) => F!IsForest'
  <2>1. F!TopIsNoNode
    BY TopAssumption DEF F!TopIsNoNode
  <2> QED
    BY <2>1, StepForest
<1> QED
  BY <1>1, <1>2, PTL DEF F!Spec

------------------------------------------------------------------------------
(* Lists                                                                   *)

LEMMA RemoveAtIs ==
  ASSUME NEW S, NEW s \in Seq(S), NEW i \in 1 .. Len(s)
  PROVE  RemoveAt(s, i) = [k \in 1 .. Len(s) - 1 |-> IF k < i THEN s[k] ELSE s[k + 1]]
<1> DEFINE a == SubSeq(s, 1, i - 1)
           b == SubSeq(s, i + 1, Len(s))
           w == [k \in 1 .. Len(s) - 1 |-> IF k < i THEN s[k] ELSE s[k + 1]]
<1>1. a \in Seq(S) /\ Len(a) = i - 1 /\ \A k \in 1 .. i - 1 : a[k] = s[k]
  BY SubSeqProperties
<1>2. b \in Seq(S) /\ Len(b) = Len(s) - i /\ \A k \in 1 .. Len(s) - i : b[k] = s[i + k]
  BY SubSeqProperties
<1> HIDE DEF a, b
<1>3. /\ a \o b \in Seq(S)
      /\ Len(a \o b) = Len(a) + Len(b)
      /\ \A k \in 1 .. Len(a) + Len(b) : (a \o b)[k] = IF k <= Len(a) THEN a[k] ELSE b[k - Len(a)]
  BY <1>1, <1>2, ConcatProperties
<1>4. Len(s) \in Nat /\ i \in Nat /\ i >= 1 /\ i <= Len(s)
  OBVIOUS
<1>5. Len(a \o b) = Len(s) - 1
  BY <1>1, <1>2, <1>3, <1>4
<1>6. ASSUME NEW k \in 1 .. Len(s) - 1
      PROVE  (a \o b)[k] = IF k < i THEN s[k] ELSE s[k + 1]
  <2>1. CASE k < i
    BY <1>1, <1>2, <1>3, <1>4, <2>1
  <2>2. CASE ~(k < i)
    <3>1. (a \o b)[k] = b[k - (i - 1)]
      BY <1>1, <1>2, <1>3, <1>4, <2>2
    <3>2. k - (i - 1) \in 1 .. Len(s) - i /\ i + (k - (i - 1)) = k + 1
      BY <1>4, <2>2
    <3> QED
      BY <1>2, <2>2, <3>1, <3>2
  <2> QED
    BY <2>1, <2>2
<1>7. a \o b = w
  <2> DEFINE c == a \o b
  <2>1. c \in Seq(S) /\ Len(c) = Len(s) - 1 /\ \A k \in 1 .. Len(s) - 1 : c[k] = w[k]
    BY <1>3, <1>5, <1>6
  <2> HIDE DEF c
  <2>2. c = w
    BY <2>1
  <2> QED
    BY <2>2 DEF c
<1> QED
  BY <1>7 DEF a, b, RemoveAt

LEMMA WithoutIs ==
  ASSUME NEW S, NEW list \in Seq(S), NEW id, OnceIn(list)
  PROVE  /\ Without(list, id) \in Seq(S)
         /\ ToSet(Without(list, id)) = ToSet(list) \ {id}
         /\ OnceIn(Without(list, id))
<1>1. CASE ~ \E i \in DOMAIN list : list[i] = id
  BY <1>1 DEF Without, ToSet
<1>2. CASE \E i \in DOMAIN list : list[i] = id
  <2> DEFINE i == CHOOSE i \in DOMAIN list : list[i] = id
  <2>1. i \in DOMAIN list /\ list[i] = id
    BY <1>2
  <2> HIDE DEF i
  <2> DEFINE w == [k \in 1 .. Len(list) - 1 |-> IF k < i THEN list[k] ELSE list[k + 1]]
  <2>2. Without(list, id) = w
    BY <1>2, <2>1, RemoveAtIs DEF Without, i
  <2>3. w \in Seq(S) /\ DOMAIN w = 1 .. Len(list) - 1
    <3>1. \A k \in 1 .. Len(list) - 1 : (IF k < i THEN list[k] ELSE list[k + 1]) \in S
      BY <2>1
    <3> QED
      BY <3>1, IsASeq
  <2>4. \A k \in DOMAIN w : w[k] \in ToSet(list) \ {id}
    BY <2>1, <2>3 DEF ToSet, OnceIn
  <2>5. \A x \in ToSet(list) \ {id} : \E k \in DOMAIN w : w[k] = x
    <3> SUFFICES ASSUME NEW j \in DOMAIN list, list[j] # id
                 PROVE  \E k \in DOMAIN w : w[k] = list[j]
      BY DEF ToSet
    <3>1. CASE j < i
      BY <2>1, <3>1
    <3>2. CASE j > i
      <4>1. j - 1 \in 1 .. Len(list) - 1 /\ w[j - 1] = list[j]
        BY <2>1, <3>2
      <4> QED
        BY <4>1, <2>3
    <3>3. j # i
      BY <2>1
    <3> QED
      BY <2>1, <3>1, <3>2, <3>3
  <2>6. OnceIn(w)
    BY <2>1 DEF OnceIn
  <2> HIDE DEF w
  <2>7. ToSet(w) = ToSet(list) \ {id}
    BY <2>4, <2>5 DEF ToSet
  <2> QED
    BY <2>2, <2>3, <2>6, <2>7
<1> QED
  BY <1>1, <1>2

LEMMA WithAtIs ==
  ASSUME NEW S, NEW list \in Seq(S), NEW id \in S, NEW index \in Nat,
         id \notin ToSet(list), OnceIn(list)
  PROVE  /\ WithAt(list, index, id) \in Seq(S)
         /\ ToSet(WithAt(list, index, id)) = ToSet(list) \cup {id}
         /\ OnceIn(WithAt(list, index, id))
<1> DEFINE i == IF index < Len(list) THEN index + 1 ELSE Len(list) + 1
<1>1. i \in 1 .. Len(list) + 1
  OBVIOUS
<1> HIDE DEF i
<1> DEFINE a == SubSeq(list, 1, i - 1)
           b == SubSeq(list, i, Len(list))
           w == [k \in 1 .. Len(list) + 1 |->
                   IF k < i THEN list[k] ELSE IF k = i THEN id ELSE list[k - 1]]
<1>2. /\ a \in Seq(S) /\ Len(a) = i - 1
      /\ \A k \in 1 .. i - 1 : a[k] = list[k]
  BY <1>1, SubSeqProperties
<1>3. /\ b \in Seq(S) /\ Len(b) = Len(list) + 1 - i
      /\ \A k \in 1 .. Len(list) + 1 - i : b[k] = list[i + k - 1]
  BY <1>1, SubSeqProperties
<1> HIDE DEF a, b
<1>4. /\ (a \o <<id>>) \o b \in Seq(S)
      /\ Len((a \o <<id>>) \o b) = Len(list) + 1
      /\ \A k \in 1 .. Len(list) + 1 :
           ((a \o <<id>>) \o b)[k] = IF k < i THEN list[k] ELSE IF k = i THEN id ELSE list[k - 1]
  <2> DEFINE c == a \o <<id>>
  <2>1. /\ c \in Seq(S) /\ Len(c) = i
        /\ \A k \in 1 .. i - 1 : c[k] = list[k]
        /\ c[i] = id
    BY <1>1, <1>2
  <2> HIDE DEF c
  <2>2. /\ c \o b \in Seq(S)
        /\ Len(c \o b) = Len(c) + Len(b)
        /\ \A k \in 1 .. Len(c) + Len(b) : (c \o b)[k] = IF k <= Len(c) THEN c[k] ELSE b[k - Len(c)]
    BY <1>3, <2>1, ConcatProperties
  <2>3. /\ Len(c \o b) = Len(list) + 1
        /\ \A k \in 1 .. Len(list) + 1 : (c \o b)[k] = IF k <= i THEN c[k] ELSE b[k - i]
    <3>1. i \in Nat /\ Len(list) \in Nat /\ Len(c) + Len(b) = Len(list) + 1
      BY <1>1, <1>3, <2>1
    <3> QED
      BY <2>1, <2>2, <3>1
  <2>4. ASSUME NEW k \in 1 .. Len(list) + 1, k > i
        PROVE  b[k - i] = list[k - 1]
    BY <1>1, <1>3, <2>4
  <2> QED
    BY <1>1, <2>1, <2>2, <2>3, <2>4 DEF c
<1>5. WithAt(list, index, id) = w
  <2>1. WithAt(list, index, id) = (a \o <<id>>) \o b
    BY DEF WithAt, InsertAt, i, a, b
  <2>2. (a \o <<id>>) \o b = w
    BY <1>4, SMTT(30)
  <2> QED
    BY <2>1, <2>2
<1>6. w \in Seq(S) /\ DOMAIN w = 1 .. Len(list) + 1
  <2>1. (a \o <<id>>) \o b = w
    BY <1>4, SMTT(30)
  <2> QED
    BY <1>4, <2>1
<1>7. \A k \in DOMAIN w : w[k] \in ToSet(list) \cup {id}
  BY <1>1 DEF ToSet
<1>8. w[i] = id /\ i \in DOMAIN w
  BY <1>1
<1>9. \A x \in ToSet(list) : \E k \in DOMAIN w : w[k] = x
  <2> SUFFICES ASSUME NEW j \in DOMAIN list
               PROVE  \E k \in DOMAIN w : w[k] = list[j]
    BY DEF ToSet
  <2>1. CASE j < i
    BY <1>1, <2>1
  <2>2. CASE j >= i
    <3>1. j + 1 \in 1 .. Len(list) + 1 /\ w[j + 1] = list[j]
      BY <1>1, <2>2
    <3> QED
      BY <3>1, <1>6
  <2> QED
    BY <1>1, <2>1, <2>2
<1>10. OnceIn(w)
  BY <1>1 DEF OnceIn, ToSet
<1> HIDE DEF w
<1>11. ToSet(w) = ToSet(list) \cup {id}
  BY <1>7, <1>8, <1>9 DEF ToSet
<1> QED
  BY <1>5, <1>6, <1>10, <1>11

LEMMA AppendIs ==
  ASSUME NEW S, NEW list \in Seq(S), NEW id \in S, id \notin ToSet(list), OnceIn(list)
  PROVE  /\ Append(list, id) \in Seq(S)
         /\ ToSet(Append(list, id)) = ToSet(list) \cup {id}
         /\ OnceIn(Append(list, id))
<1>1. /\ Append(list, id) \in Seq(S)
      /\ DOMAIN Append(list, id) = 1 .. Len(list) + 1
      /\ \A k \in 1 .. Len(list) : Append(list, id)[k] = list[k]
      /\ Append(list, id)[Len(list) + 1] = id
  BY AppendProperties
<1>2. ToSet(Append(list, id)) = ToSet(list) \cup {id}
  BY <1>1 DEF ToSet
<1>3. OnceIn(Append(list, id))
  BY <1>1 DEF OnceIn, ToSet
<1> QED
  BY <1>1, <1>2, <1>3

------------------------------------------------------------------------------
(* Below a node                                                            *)

\* remove's subtree, found along the lists, is what is below the node.
LEMMA SubtreeIsBelow ==
  ASSUME TreeTypeOK, ListsAgree, NEW id \in nodes
  PROVE  Subtree(id) = F!Below(id)
<1>1. ASSUME NEW S \in SUBSET nodes
      PROVE  (\A m \in S : ToSet(children[m]) \cap nodes \subseteq S) <=> F!Closed(S)
  BY DEF TreeTypeOK, ListsAgree, Owners, F!Closed
<1> QED
  BY <1>1 DEF Subtree, F!Below

\* What is below a node is there because its parent is, the node itself apart.
LEMMA BelowIsHeld ==
  ASSUME NEW id \in nodes
  PROVE  \A c \in F!Below(id) : c = id \/ parent[c] \in F!Below(id)
<1> DEFINE W == {c \in F!Below(id) : c = id \/ parent[c] \in F!Below(id)}
<1>1. id \in F!Below(id) /\ F!Closed(F!Below(id))
  BY BelowIsClosed
<1>2. W \in SUBSET nodes /\ id \in W
  BY <1>1 DEF F!Below
<1>3. F!Closed(W)
  BY <1>1 DEF F!Closed
<1> QED
  BY <1>2, <1>3 DEF F!Below

\* What move_node finds climbing from a folder tells whether the folder is
\* below the node: the complement of what is closed downwards is closed upwards.
LEMMA AncestorsAreAbove ==
  ASSUME TreeTypeOK, HeldByFolders, NEW id \in nodes, NEW p \in nodes
  PROVE  (p = id \/ id \in Ancestors(p)) <=> p \in F!Below(id)
<1> DEFINE UpClosed(S) == \A n \in S : parent[n] \in S \cup {Top}
<1>0. \A n \in nodes : parent[n] \in nodes \cup {Top}
  BY DEF TreeTypeOK, HeldByFolders
<1>1. Top \notin nodes
  BY TopAssumption DEF TreeTypeOK
<1>2. ASSUME p \notin F!Below(id)
      PROVE  p # id /\ id \notin Ancestors(p)
  <2>1. PICK S \in SUBSET nodes : id \in S /\ F!Closed(S) /\ p \notin S
    BY <1>2 DEF F!Below
  <2>2. UpClosed(nodes \ S)
    BY <1>0, <2>1 DEF F!Closed
  <2>3. parent[p] \in (nodes \ S) \cup {Top}
    BY <2>1, <2>2
  <2> QED
    BY <2>1, <2>2, <2>3 DEF Ancestors
<1>3. ASSUME p # id, id \notin Ancestors(p)
      PROVE  p \notin F!Below(id)
  <2>1. PICK S \in SUBSET nodes : parent[p] \in S \cup {Top} /\ UpClosed(S) /\ id \notin S
    BY <1>3 DEF Ancestors
  <2> DEFINE T == nodes \ (S \cup {p})
  <2>2. id \in T /\ p \notin T /\ T \in SUBSET nodes
    BY <1>3, <2>1
  <2>3. F!Closed(T)
    BY <1>1, <2>1 DEF F!Closed
  <2> QED
    BY <2>2, <2>3 DEF F!Below
<1> QED
  BY <1>2, <1>3

------------------------------------------------------------------------------
(* Every operation is one of Forest's                                      *)

LEMMA InvIsForest == TreeIInv => F!IsForest
BY DEF TreeIInv, TreeTypeOK, HeldByFolders, Acyclic, Owners,
       F!IsForest, F!TypeOK, F!InFolders, F!Acyclic

LEMMA AddInserts ==
  ASSUME NEW id \in NodeIds, NEW p \in Owners, AddNode(id, p)
  PROVE  F!Insert(id, p)
BY DEF AddNode, MayHold, F!Insert

LEMMA RemoveRemoves ==
  ASSUME TreeIInv, NEW id \in NodeIds, RemoveNode(id)
  PROVE  F!Remove(id)
<1>1. id \in nodes
  BY DEF RemoveNode
<1>2. Subtree(id) = F!Below(id)
  BY <1>1, SubtreeIsBelow DEF TreeIInv
<1> QED
  BY <1>1, <1>2 DEF RemoveNode, F!Remove

\* Climbing from the new parent finds out what is below the node.
LEMMA MayMoveAgrees ==
  ASSUME TreeIInv, NEW id \in nodes, NEW p \in Owners
  PROVE  MayMove(id, p) <=> F!MayMove(id, p)
<1>1. CASE p = Top
  BY <1>1 DEF MayMove, MayHold, F!MayMove
<1>2. CASE p # Top /\ p \notin folders
  BY <1>2 DEF MayMove, MayHold, F!MayMove
<1>3. CASE p # Top /\ p \in folders
  <2>1. p \in nodes /\ TreeTypeOK /\ HeldByFolders
    BY <1>3 DEF TreeIInv, TreeTypeOK
  <2>2. (p = id \/ id \in Ancestors(p)) <=> p \in F!Below(id)
    BY <2>1, AncestorsAreAbove
  <2> QED
    BY <1>3, <2>2 DEF MayMove, MayHold, F!MayMove
<1> QED
  BY <1>1, <1>2, <1>3

LEMMA MoveMoves ==
  ASSUME TreeIInv, NEW id \in NodeIds, NEW p \in Owners, NEW index \in Nat, MoveNode(id, p, index)
  PROVE  F!Move(id, p)
<1>1. id \in nodes
  BY DEF MoveNode
<1>2. F!MayMove(id, p)
  BY <1>1, MayMoveAgrees DEF MoveNode
<1>3. parent' = [parent EXCEPT ![id] = p] /\ UNCHANGED <<nodes, folders>>
  BY DEF MoveNode
<1> QED
  BY <1>1, <1>2, <1>3 DEF F!Move

\* So each operation is Forest's, whatever else a step may be.
LEMMA OperationsAreForests == TreeIInv => EachIsForests /\ MovesWhereForestMay
<1> SUFFICES ASSUME TreeIInv PROVE EachIsForests /\ MovesWhereForestMay
  OBVIOUS
<1>1. ASSUME NEW id \in NodeIds, NEW p \in Owners, NEW index \in 0 .. Len(children[p]),
             MoveNode(id, p, index)
      PROVE  F!Move(id, p)
  <2>1. index \in Nat
    OBVIOUS
  <2> QED
    BY <1>1, <2>1, MoveMoves
<1>2. EachIsForests
  BY <1>1, AddInserts, RemoveRemoves DEF EachIsForests
<1>3. MovesWhereForestMay
  BY MayMoveAgrees DEF MovesWhereForestMay
<1> QED
  BY <1>2, <1>3

LEMMA StepIsForests ==
  ASSUME TreeIInv, [TreeOperation]_treeVars
  PROVE  [F!Next]_(F!vars)
<1>1. CASE UNCHANGED treeVars
  BY <1>1 DEF treeVars, F!vars
<1>2. ASSUME NEW id \in NodeIds, NEW p \in Owners, AddNode(id, p)
      PROVE  F!Next
  <2>1. F!Insert(id, p)
    BY <1>2, AddInserts
  <2> QED
    BY <2>1 DEF F!Next, Owners
<1>3. ASSUME NEW id \in NodeIds, RemoveNode(id)
      PROVE  F!Next
  <2>1. F!Remove(id)
    BY <1>3, RemoveRemoves
  <2> QED
    BY <2>1 DEF F!Next
<1>4. ASSUME NEW id \in NodeIds, NEW p \in Owners, NEW index \in 0 .. Len(children[p]),
             MoveNode(id, p, index)
      PROVE  F!Next
  <2>1. index \in Nat
    OBVIOUS
  <2>2. F!Move(id, p)
    BY <1>4, <2>1, MoveMoves
  <2> QED
    BY <2>2 DEF F!Next, Owners
<1> QED
  BY <1>1, <1>2, <1>3, <1>4 DEF TreeOperation

------------------------------------------------------------------------------
(* The lists follow                                                        *)

ListsOK == children \in [Owners -> Seq(NodeIds)] /\ ListsAgree /\ ListedOnce

LEMMA AddLists ==
  ASSUME TreeIInv, NEW id \in NodeIds, NEW p \in Owners, AddNode(id, p)
  PROVE  ListsOK'
<1>1. id \notin nodes /\ id \notin ToSet(children[p])
  BY DEF AddNode, TreeIInv, ListsAgree
<1>2. children[p] \in Seq(NodeIds) /\ OnceIn(children[p])
  BY DEF TreeIInv, TreeTypeOK, ListedOnce, OnceIn
<1> DEFINE list == Append(children[p], id)
<1>3. list \in Seq(NodeIds) /\ ToSet(list) = ToSet(children[p]) \cup {id} /\ OnceIn(list)
  BY <1>1, <1>2, AppendIs
<1>4. children' = [children EXCEPT ![p] = list]
  BY DEF AddNode
<1> HIDE DEF list
<1>5. children' \in [Owners -> Seq(NodeIds)]
      /\ \A q \in Owners : children'[q] = IF q = p THEN list ELSE children[q]
  BY <1>3, <1>4 DEF TreeIInv, TreeTypeOK
<1>6. ListsAgree'
  <2>1. \A c \in NodeIds : parent'[c] = IF c = id THEN p ELSE parent[c]
    BY DEF AddNode, TreeIInv, TreeTypeOK
  <2>2. nodes' = nodes \cup {id}
    BY DEF AddNode
  <2> SUFFICES ASSUME NEW q \in Owners, NEW c \in NodeIds
               PROVE  c \in ToSet(children'[q]) <=> c \in nodes' /\ parent'[c] = q
    BY DEF ListsAgree
  <2>3. c \in ToSet(children[q]) <=> c \in nodes /\ parent[c] = q
    BY DEF TreeIInv, ListsAgree
  <2>4. CASE q = p
    BY <1>1, <1>3, <1>5, <2>1, <2>2, <2>3, <2>4
  <2>5. CASE q # p
    BY <1>1, <1>5, <2>1, <2>2, <2>3, <2>5
  <2> QED
    BY <2>4, <2>5
<1>7. ListedOnce'
  BY <1>3, <1>5 DEF ListedOnce, TreeIInv, OnceIn
<1> QED
  BY <1>5, <1>6, <1>7 DEF ListsOK

\* Taking a node out of its parent's list takes it out of every list.
LEMMA Detached ==
  ASSUME TreeIInv, NEW id \in nodes, NEW q \in Owners,
         NEW list, list = IF q = parent[id] THEN Without(children[q], id) ELSE children[q]
  PROVE  /\ list \in Seq(NodeIds)
         /\ ToSet(list) = ToSet(children[q]) \ {id}
         /\ OnceIn(list)
<1>1. children[q] \in Seq(NodeIds) /\ OnceIn(children[q])
  BY DEF TreeIInv, TreeTypeOK, ListedOnce, OnceIn
<1>2. CASE q = parent[id]
  BY <1>1, <1>2, WithoutIs
<1>3. CASE q # parent[id]
  <2>1. id \notin ToSet(children[q])
    BY <1>3 DEF TreeIInv, TreeTypeOK, ListsAgree
  <2> QED
    BY <1>1, <1>3, <2>1
<1> QED
  BY <1>2, <1>3

LEMMA RemoveLists ==
  ASSUME TreeIInv, NEW id \in NodeIds, RemoveNode(id)
  PROVE  ListsOK'
<1> DEFINE doomed == Subtree(id)
<1>1. id \in nodes /\ doomed \subseteq nodes
  BY DEF RemoveNode, Subtree
<1>2. /\ id \in doomed /\ F!Closed(doomed)
      /\ \A c \in doomed : c = id \/ parent[c] \in doomed
  <2>1. doomed = F!Below(id)
    BY <1>1, SubtreeIsBelow DEF TreeIInv
  <2>2. id \in F!Below(id) /\ F!Closed(F!Below(id))
    BY <1>1, BelowIsClosed
  <2>3. \A c \in F!Below(id) : c = id \/ parent[c] \in F!Below(id)
    BY <1>1, BelowIsHeld
  <2> QED
    BY <2>1, <2>2, <2>3
<1>3. /\ nodes' = nodes \ doomed
      /\ \A n \in NodeIds : parent'[n] = IF n \in doomed THEN Top ELSE parent[n]
      /\ children' = [q \in Owners |-> IF q \in doomed THEN <<>>
                                       ELSE IF q = parent[id] THEN Without(children[q], id)
                                       ELSE children[q]]
  BY DEF RemoveNode
<1> HIDE DEF doomed
<1>4. ASSUME NEW q \in Owners
      PROVE  /\ children'[q] \in Seq(NodeIds)
             /\ OnceIn(children'[q])
             /\ q \in doomed => ToSet(children'[q]) = {}
             /\ q \notin doomed => ToSet(children'[q]) = ToSet(children[q]) \ {id}
  <2>1. CASE q \in doomed
    BY <1>3, <2>1 DEF OnceIn, ToSet
  <2>2. CASE q \notin doomed
    <3>1. children'[q] = IF q = parent[id] THEN Without(children[q], id) ELSE children[q]
      BY <1>3, <2>2
    <3> QED
      BY <1>1, <2>2, <3>1, Detached
  <2> QED
    BY <2>1, <2>2
<1>5. children' \in [Owners -> Seq(NodeIds)]
  BY <1>3, <1>4
<1>6. ListsAgree'
  <2> SUFFICES ASSUME NEW q \in Owners, NEW c \in NodeIds
               PROVE  c \in ToSet(children'[q]) <=> c \in nodes' /\ parent'[c] = q
    BY DEF ListsAgree
  <2>1. c \in ToSet(children[q]) <=> c \in nodes /\ parent[c] = q
    BY DEF TreeIInv, ListsAgree
  <2>2. CASE q \in doomed
    <3>1. ~(c \in nodes' /\ parent'[c] = q)
      BY <1>2, <1>3, <2>2 DEF F!Closed
    <3> QED
      BY <1>4, <2>2, <3>1
  <2>3. CASE q \notin doomed
    <3>1. c \in doomed /\ c # id => parent[c] # q
      BY <1>2, <2>3
    <3>2. ToSet(children'[q]) = ToSet(children[q]) \ {id}
      BY <1>4, <2>3
    <3>3. c \in nodes' <=> c \in nodes /\ c \notin doomed
      BY <1>3
    <3>4. c \notin doomed => parent'[c] = parent[c]
      BY <1>3
    <3> QED
      BY <1>2, <2>1, <3>1, <3>2, <3>3, <3>4
  <2> QED
    BY <2>2, <2>3
<1>7. ListedOnce'
  BY <1>4 DEF ListedOnce, OnceIn
<1> QED
  BY <1>5, <1>6, <1>7 DEF ListsOK

LEMMA MoveLists ==
  ASSUME TreeIInv, NEW id \in NodeIds, NEW p \in Owners, NEW index \in Nat, MoveNode(id, p, index)
  PROVE  ListsOK'
<1> DEFINE detached == [children EXCEPT ![parent[id]] = Without(@, id)]
<1>1. id \in nodes /\ parent[id] \in Owners
  BY DEF MoveNode, TreeIInv, TreeTypeOK
<1>2. ASSUME NEW q \in Owners
      PROVE  /\ detached[q] \in Seq(NodeIds)
             /\ ToSet(detached[q]) = ToSet(children[q]) \ {id}
             /\ OnceIn(detached[q])
  <2>1. detached[q] = IF q = parent[id] THEN Without(children[q], id) ELSE children[q]
    BY DEF TreeIInv, TreeTypeOK
  <2> QED
    BY <1>1, <2>1, Detached
<1>3. DOMAIN detached = Owners
  BY DEF TreeIInv, TreeTypeOK
<1>4. /\ children' = [detached EXCEPT ![p] = WithAt(@, index, id)]
      /\ \A n \in NodeIds : parent'[n] = IF n = id THEN p ELSE parent[n]
      /\ nodes' = nodes
  BY DEF MoveNode, TreeIInv, TreeTypeOK
<1> HIDE DEF detached
<1> DEFINE list == WithAt(detached[p], index, id)
<1>5. list \in Seq(NodeIds) /\ ToSet(list) = (ToSet(children[p]) \ {id}) \cup {id} /\ OnceIn(list)
  <2>1. detached[p] \in Seq(NodeIds) /\ OnceIn(detached[p]) /\ id \notin ToSet(detached[p])
    BY <1>2
  <2>2. /\ list \in Seq(NodeIds)
        /\ ToSet(list) = ToSet(detached[p]) \cup {id}
        /\ OnceIn(list)
    BY <2>1, WithAtIs
  <2> QED
    BY <1>2, <2>2
<1>6. DOMAIN children' = Owners /\ \A q \in Owners : children'[q] = IF q = p THEN list ELSE detached[q]
  BY <1>3, <1>4
<1>7. children' = [q \in Owners |-> children'[q]]
  BY <1>3, <1>4
<1> HIDE DEF list
<1>8. children' \in [Owners -> Seq(NodeIds)]
  BY <1>2, <1>5, <1>6, <1>7
<1>9. ListsAgree'
  <2> SUFFICES ASSUME NEW q \in Owners, NEW c \in NodeIds
               PROVE  c \in ToSet(children'[q]) <=> c \in nodes' /\ parent'[c] = q
    BY DEF ListsAgree
  <2>1. c \in ToSet(children[q]) <=> c \in nodes /\ parent[c] = q
    BY DEF TreeIInv, ListsAgree
  <2>2. CASE q = p
    BY <1>1, <1>4, <1>5, <1>6, <2>1, <2>2
  <2>3. CASE q # p
    BY <1>1, <1>2, <1>4, <1>6, <2>1, <2>3
  <2> QED
    BY <2>2, <2>3
<1>10. ListedOnce'
  <2>1. \A q \in Owners : OnceIn(children'[q])
    BY <1>2, <1>5, <1>6
  <2> QED
    BY <2>1 DEF OnceIn, ListedOnce
<1> QED
  BY <1>8, <1>9, <1>10 DEF ListsOK

------------------------------------------------------------------------------
(* The theorems                                                            *)

LEMMA InitInv == TreeInit => TreeIInv
<1> SUFFICES ASSUME TreeInit PROVE TreeIInv
  OBVIOUS
<1>1. TreeTypeOK /\ ListedOnce /\ HeldByFolders /\ Acyclic
  BY DEF TreeInit, Owners, TreeTypeOK, ListedOnce, HeldByFolders, Acyclic
<1>2. ListsAgree
  BY DEF TreeInit, Owners, ListsAgree, ToSet
<1> QED
  BY <1>1, <1>2 DEF TreeIInv

LEMMA InvStep == TreeIInv /\ [TreeOperation]_treeVars => TreeIInv'
<1> SUFFICES ASSUME TreeIInv, [TreeOperation]_treeVars
             PROVE  TreeIInv'
  OBVIOUS
<1>1. F!IsForest'
  <2>1. F!TopIsNoNode
    BY TopAssumption DEF F!TopIsNoNode
  <2> QED
    BY <2>1, InvIsForest, StepIsForests, StepForest
<1>2. ListsOK'
  <2>1. CASE UNCHANGED treeVars
    BY <2>1 DEF treeVars, TreeIInv, TreeTypeOK, ListsAgree, ListedOnce, ListsOK
  <2>2. CASE \E id \in NodeIds, p \in Owners : AddNode(id, p)
    BY <2>2, AddLists
  <2>3. CASE \E id \in NodeIds : RemoveNode(id)
    BY <2>3, RemoveLists
  <2>4. CASE \E id \in NodeIds, p \in Owners : \E index \in 0 .. Len(children[p]) : MoveNode(id, p, index)
    <3>1. PICK id \in NodeIds, p \in Owners : \E index \in 0 .. Len(children[p]) : MoveNode(id, p, index)
      BY <2>4
    <3>2. PICK index \in Nat : MoveNode(id, p, index)
      BY <3>1
    <3> QED
      BY <3>1, <3>2, MoveLists
  <2> QED
    BY <2>1, <2>2, <2>3, <2>4 DEF TreeOperation
<1> QED
  BY <1>1, <1>2 DEF TreeIInv, TreeTypeOK, HeldByFolders, Acyclic, Owners, ListsOK,
                    F!IsForest, F!TypeOK, F!InFolders, F!Acyclic

\* For every set of identities and every sequence of operations, the child
\* lists of crates/core-model/src/tree.rs and its parent pointers describe one
\* forest: each node once, in the list of the folder it points to, and no
\* folder inside itself.
THEOREM Consistent == TreeSpec => []TreeIInv
<1>1. TreeInit => TreeIInv
  BY InitInv
<1>2. TreeIInv /\ [TreeOperation]_treeVars => TreeIInv'
  BY InvStep
<1> QED
  BY <1>1, <1>2, PTL DEF TreeSpec

\* Walking down from the top level meets every node there is: the nodes a walk
\* does not meet would have to hold one another in a circle.
LEMMA NothingLost == TreeIInv => NothingIsLost
<1> SUFFICES ASSUME TreeIInv, NEW S \in SUBSET nodes, ToSet(children[Top]) \subseteq S,
                    \A m \in S : ToSet(children[m]) \subseteq S, S # nodes
             PROVE  FALSE
  BY DEF NothingIsLost
<1> DEFINE Lost == nodes \ S
<1>1. PICK n \in Lost : parent[n] \notin Lost
  BY DEF TreeIInv, Acyclic
<1>2. n \in NodeIds /\ parent[n] \in Owners /\ n \in ToSet(children[parent[n]])
  BY <1>1 DEF TreeIInv, TreeTypeOK, ListsAgree
<1>3. parent[n] = Top \/ parent[n] \in S
  BY <1>1 DEF TreeIInv, HeldByFolders, TreeTypeOK
<1> QED
  BY <1>1, <1>2, <1>3

THEOREM WalkMeetsAll == TreeSpec => []NothingIsLost
BY NothingLost, Consistent, PTL

\* The tree is a forest that changes by Forest's operations alone, and each of its
\* operations is the one of that name: remove takes what is below the node, and
\* move_node refuses that and nothing else, though one descends and the other
\* climbs.
THEOREM TreeImplementsForest == TreeSpec => F!Spec /\ ImplementsForest
<1>1. TreeInit => F!Init
  BY DEF TreeInit, F!Init
<1>2. TreeIInv /\ [TreeOperation]_treeVars => [F!Next]_(F!vars)
  BY StepIsForests
<1>3. TreeIInv => EachIsForests /\ MovesWhereForestMay
  BY OperationsAreForests
<1> QED
  BY <1>1, <1>2, <1>3, Consistent, PTL DEF TreeSpec, ImplementsForest, F!Spec

------------------------------------------------------------------------------
(* Counting up, along a sequence, and by what came before                  *)

\* What holds of 0 and goes on from each number to the next holds of them all.
LEMMA Counting ==
  ASSUME NEW S, 0 \in S, \A i \in Nat : i \in S => i + 1 \in S
  PROVE  \A i \in Nat : i \in S
<1> DEFINE T == Nat \ S
<1> SUFFICES ASSUME T # {} PROVE FALSE
  OBVIOUS
<1>1. PICK i \in T : \A k \in T : i <= k
  <2>1. PICK i \in T : \A k \in T : ~(<<k, i>> \in OpToRel(<, Nat))
    BY NatLessThanWellFounded, WFMin, T \in SUBSET Nat
  <2>2. \A k \in T : ~(k < i)
    BY <2>1 DEF OpToRel
  <2> QED
    BY <2>2
<1>2. i # 0 /\ i - 1 \in Nat /\ i - 1 \in S
  BY <1>1
<1>3. i \in S
  BY <1>2
<1> QED
  BY <1>1, <1>3

\* What holds of the empty sequence and survives one more element holds of
\* every sequence.
LEMMA Lengthening ==
  ASSUME NEW S, NEW T, <<>> \in T,
         \A s \in Seq(S) : s \in T => \A x \in S : Append(s, x) \in T
  PROVE  \A s \in Seq(S) : s \in T
<1> DEFINE N == {n \in Nat : \A s \in Seq(S) : Len(s) = n => s \in T}
<1>1. 0 \in N
  BY \A s \in Seq(S) : Len(s) = 0 => s = <<>>
<1>2. ASSUME NEW n \in Nat, n \in N PROVE n + 1 \in N
  <2> SUFFICES ASSUME NEW s \in Seq(S), Len(s) = n + 1 PROVE s \in T
    OBVIOUS
  <2> DEFINE front == [i \in 1 .. n |-> s[i]]
  <2>1. front \in Seq(S) /\ Len(front) = n /\ s[n + 1] \in S
    OBVIOUS
  <2>2. s = Append(front, s[n + 1])
    BY <2>1
  <2> HIDE DEF front
  <2>3. front \in T
    BY <1>2, <2>1
  <2> QED
    BY <2>1, <2>2, <2>3
<1> HIDE DEF N
<1>3. \A n \in Nat : n \in N
  BY <1>1, <1>2, Counting
<1> QED
  BY <1>3 DEF N

Repeats(f, op, a) == f[0] = a /\ \A n \in Nat : f[n + 1] = op[<<f[n], n>>]

\* A function defined by its value at 0 and from each number to the next is
\* there: its beginnings agree, so that together they are one.
LEMMA Repeating ==
  ASSUME NEW A, NEW op, \A x \in A, n \in Nat : op[<<x, n>>] \in A, NEW a \in A
  PROVE  \E f \in [Nat -> A] : Repeats(f, op, a)
<1> DEFINE Begins(f, n) == /\ f \in [0 .. n -> A] /\ f[0] = a
                           /\ \A i \in 0 .. n - 1 : f[i + 1] = op[<<f[i], i>>]
           N == {n \in Nat : \E f : Begins(f, n)}
<1>1. 0 \in N
  <2> DEFINE f == [i \in 0 .. 0 |-> a]
  <2>1. Begins(f, 0)
    OBVIOUS
  <2> QED
    BY <2>1
<1>2. ASSUME NEW n \in Nat, n \in N PROVE n + 1 \in N
  <2>1. PICK f : Begins(f, n)
    BY <1>2
  <2> DEFINE v == op[<<f[n], n>>]
  <2>2. f[n] \in A /\ v \in A
    BY <2>1
  <2> HIDE DEF v
  <2> DEFINE g == [i \in 0 .. n + 1 |-> IF i = n + 1 THEN v ELSE f[i]]
  <2>3. g \in [0 .. n + 1 -> A] /\ g[0] = a
    BY <2>1, <2>2
  <2>4. ASSUME NEW i \in 0 .. n PROVE g[i + 1] = op[<<g[i], i>>]
    <3>1. CASE i = n
      <4>1. g[n + 1] = v /\ g[n] = f[n]
        OBVIOUS
      <4> HIDE DEF g
      <4> QED
        BY <3>1, <4>1 DEF v
    <3>2. CASE i # n
      <4>1. i \in 0 .. n - 1 /\ g[i + 1] = f[i + 1] /\ g[i] = f[i]
        BY <3>2
      <4> HIDE DEF g
      <4> QED
        BY <2>1, <4>1
    <3> QED
      BY <3>1, <3>2
  <2> HIDE DEF g
  <2>5. Begins(g, n + 1)
    BY <2>3, <2>4
  <2> QED
    BY <2>5
<1> HIDE DEF N
<1>3. \A n \in Nat : \E f : Begins(f, n)
  <2>1. \A n \in Nat : n \in N
    BY <1>1, <1>2, Counting
  <2> QED
    BY <2>1 DEF N
<1>4. ASSUME NEW m \in Nat, NEW n \in Nat, NEW f, NEW g, Begins(f, m), Begins(g, n)
      PROVE  \A i \in Nat : i <= m /\ i <= n => f[i] = g[i]
  <2> DEFINE E == {i \in Nat : i <= m /\ i <= n => f[i] = g[i]}
  <2>1. 0 \in E
    BY <1>4
  <2>2. ASSUME NEW i \in Nat, i \in E, i + 1 <= m, i + 1 <= n PROVE f[i + 1] = g[i + 1]
    <3>1. i \in 0 .. m - 1 /\ i \in 0 .. n - 1 /\ f[i] = g[i]
      BY <2>2
    <3> QED
      BY <1>4, <3>1
  <2>3. \A i \in Nat : i \in E => i + 1 \in E
    BY <2>2
  <2> HIDE DEF E
  <2>4. \A i \in Nat : i \in E
    BY <2>1, <2>3, Counting
  <2> QED
    BY <2>4 DEF E
<1> DEFINE part(n) == CHOOSE f : Begins(f, n)
           whole == [n \in Nat |-> part(n)[n]]
<1>5. \A n \in Nat : Begins(part(n), n)
  BY <1>3
<1> HIDE DEF part
<1>6. whole \in [Nat -> A] /\ whole[0] = a
  BY <1>5
<1>7. ASSUME NEW n \in Nat PROVE whole[n + 1] = op[<<whole[n], n>>]
  <2>1. Begins(part(n), n) /\ Begins(part(n + 1), n + 1)
    BY <1>5
  <2> HIDE DEF Begins
  <2>2. part(n)[n] = part(n + 1)[n]
    BY <1>4, <2>1, n + 1 \in Nat
  <2>3. part(n + 1)[n + 1] = op[<<part(n + 1)[n], n>>]
    BY <2>1, n \in 0 .. (n + 1) - 1 DEF Begins
  <2> QED
    BY <2>2, <2>3
<1> HIDE DEF whole
<1> QED
  BY <1>6, <1>7 DEF Repeats

------------------------------------------------------------------------------
(* Functions that go along a sequence                                      *)

Folds(f, op, a, s) == f[0] = a /\ \A i \in 1 .. Len(s) : f[i] = op[<<f[i - 1], s[i]>>]

\* There is one along every sequence, ...
LEMMA Folding ==
  ASSUME NEW A, NEW X, NEW op, \A x \in A, e \in X : op[<<x, e>>] \in A, NEW a \in A,
         NEW s \in Seq(X)
  PROVE  \E f : f \in [0 .. Len(s) -> A] /\ Folds(f, op, a, s)
<1> DEFINE step == [q \in A \X Nat |-> IF q[2] < Len(s) THEN op[<<q[1], s[q[2] + 1]>>] ELSE q[1]]
<1>1. \A x \in A, n \in Nat : step[<<x, n>>] = IF n < Len(s) THEN op[<<x, s[n + 1]>>] ELSE x
  OBVIOUS
<1> HIDE DEF step
<1>2. \A n \in Nat : n < Len(s) => s[n + 1] \in X
  OBVIOUS
<1>3. \A x \in A, n \in Nat : step[<<x, n>>] \in A
  BY <1>1, <1>2
<1>4. PICK g \in [Nat -> A] : Repeats(g, step, a)
  BY <1>3, Repeating
<1> DEFINE f == [i \in 0 .. Len(s) |-> g[i]]
<1>5. f \in [0 .. Len(s) -> A] /\ f[0] = a
  BY <1>4 DEF Repeats
<1>6. ASSUME NEW i \in 1 .. Len(s) PROVE f[i] = op[<<f[i - 1], s[i]>>]
  <2>1. i - 1 \in Nat /\ (i - 1) + 1 = i /\ i - 1 < Len(s)
    OBVIOUS
  <2>2. g[i] = step[<<g[i - 1], i - 1>>] /\ g[i - 1] \in A
    BY <1>4, <2>1 DEF Repeats
  <2>3. g[i] = op[<<g[i - 1], s[i]>>]
    BY <1>1, <2>1, <2>2
  <2>4. f[i] = g[i] /\ f[i - 1] = g[i - 1]
    BY <2>1
  <2> HIDE DEF f
  <2> QED
    BY <2>3, <2>4
<1> HIDE DEF f
<1> QED
  BY <1>5, <1>6 DEF Folds

Agrees(s, t, n) == \A i \in 1 .. n : s[i] = t[i]
AgreeAt(f, g, n) == f[n] = g[n]

\* ... two that go the same way are the same as far as they go together, ...
LEMMA FoldsAgree ==
  ASSUME NEW op, NEW a, NEW n \in Nat, NEW s, NEW t, NEW f, NEW g,
         n <= Len(s), n <= Len(t), Len(s) \in Nat, Len(t) \in Nat, Agrees(s, t, n),
         Folds(f, op, a, s), Folds(g, op, a, t)
  PROVE  AgreeAt(f, g, n)
<1> DEFINE E == {i \in Nat : i <= n => f[i] = g[i]}
<1>1. 0 \in E
  BY DEF Folds
<1>2. ASSUME NEW i \in Nat, i \in E, i + 1 <= n PROVE f[i + 1] = g[i + 1]
  <2>1. i + 1 \in 1 .. Len(s) /\ i + 1 \in 1 .. Len(t) /\ i + 1 \in 1 .. n /\ (i + 1) - 1 = i
    BY <1>2
  <2>2. f[i + 1] = op[<<f[i], s[i + 1]>>] /\ g[i + 1] = op[<<g[i], t[i + 1]>>]
    BY <2>1 DEF Folds
  <2>3. f[i] = g[i] /\ s[i + 1] = t[i + 1]
    BY <1>2, <2>1 DEF Agrees
  <2> QED
    BY <2>2, <2>3
<1>3. \A i \in Nat : i \in E => i + 1 \in E
  BY <1>2
<1> HIDE DEF E
<1>4. \A i \in Nat : i \in E
  BY <1>1, <1>3, Counting
<1> QED
  BY <1>4 DEF E, AgreeAt

GoesOn(f, g, op, s, t, e) == g[Len(t)] = op[<<f[Len(s)], e>>]

\* ... and one more element is one more step.
LEMMA FoldsAppend ==
  ASSUME NEW X, NEW s \in Seq(X), NEW e \in X, NEW op, NEW a, NEW f, NEW g, NEW t,
         t = Append(s, e), Folds(f, op, a, s), Folds(g, op, a, t)
  PROVE  GoesOn(f, g, op, s, t, e)
<1>1. /\ Len(s) \in Nat /\ Len(t) = Len(s) + 1 /\ t[Len(s) + 1] = e
      /\ \A i \in 1 .. Len(s) : t[i] = s[i]
  OBVIOUS
<1>3. f[Len(s)] = g[Len(s)]
  <2>1. Len(s) <= Len(s) /\ Len(s) <= Len(t) /\ Len(t) \in Nat
    BY <1>1
  <2>2. Agrees(s, t, Len(s))
    BY <1>1 DEF Agrees
  <2>3. AgreeAt(f, g, Len(s))
    BY <1>1, <2>1, <2>2, FoldsAgree
  <2> QED
    BY <2>3 DEF AgreeAt
<1>4. Len(s) + 1 \in 1 .. Len(t) /\ (Len(s) + 1) - 1 = Len(s)
  BY <1>1
<1>5. g[Len(s) + 1] = op[<<g[Len(s)], t[Len(s) + 1]>>]
  BY <1>4 DEF Folds
<1> QED
  BY <1>1, <1>3, <1>5 DEF GoesOn

------------------------------------------------------------------------------
(* Sequences of sequences                                                  *)

Joins(S) == [q \in Seq(S) \X Seq(S) |-> q[1] \o q[2]]

\* FlattenSeq is such a function, whatever CHOOSE takes inside it, ...
LEMMA FlattenFolds ==
  ASSUME NEW S, NEW ss \in Seq(Seq(S))
  PROVE  \E f : /\ f \in [0 .. Len(ss) -> Seq(S)] /\ Folds(f, Joins(S), <<>>, ss)
                /\ FlattenSeq(ss) = f[Len(ss)]
<1> DEFINE A == Seq(S)
           none == <<>>
           op == Joins(S)
           body(h) == [i \in 1 .. Len(ss) |-> IF i = 1 THEN ss[i] ELSE h[i - 1] \o ss[i]]
           chosen == CHOOSE h : h = body(h)
<1>1. none \in A /\ ss \in Seq(A) /\ \A x \in A : none \o x = x
  OBVIOUS
<1>2. \A x, y \in A : op[<<x, y>>] = x \o y /\ x \o y \in A
  <2> TAKE x, y \in A
  <2>1. x \o y \in A /\ <<x, y>> \in Seq(S) \X Seq(S)
    OBVIOUS
  <2> QED
    BY <2>1 DEF Joins
<1> HIDE DEF A, op, none
<1>3. PICK f : f \in [0 .. Len(ss) -> A] /\ Folds(f, op, none, ss)
  <2>1. \A x, y \in A : op[<<x, y>>] \in A
    BY <1>2
  <2> QED
    BY <1>1, <2>1, Folding
<1>4. CASE ss = <<>>
  <2>1. FlattenSeq(ss) = none /\ Len(ss) = 0
    BY <1>4 DEF FlattenSeq, none
  <2> QED
    BY <1>3, <2>1 DEF Folds, A, op, none
<1>5. CASE ss # <<>>
  <2>1. Len(ss) \in Nat \ {0}
    BY <1>1, <1>5
  <2>2. \A i \in 1 .. Len(ss) : ss[i] \in A
    BY <1>1
  <2>3. ASSUME NEW i \in 1 .. Len(ss) PROVE f[i] = f[i - 1] \o ss[i]
    <3>1. i - 1 \in 0 .. Len(ss)
      BY <2>1
    <3> QED
      BY <1>2, <1>3, <2>2, <3>1 DEF Folds
  <2>4. f[1] = ss[1]
    <3>1. 1 \in 1 .. Len(ss) /\ 1 - 1 = 0
      BY <2>1
    <3>2. f[1] = f[1 - 1] \o ss[1] /\ f[0] = none /\ ss[1] \in A
      BY <1>3, <2>2, <2>3, <3>1 DEF Folds
    <3> QED
      BY <1>1, <3>1, <3>2
  <2> DEFINE g == [i \in 1 .. Len(ss) |-> f[i]]
  <2>5. g = body(g)
    <3>1. ASSUME NEW i \in 1 .. Len(ss) PROVE f[i] = IF i = 1 THEN ss[i] ELSE g[i - 1] \o ss[i]
      <4>1. CASE i = 1
        BY <2>4, <4>1
      <4>2. CASE i # 1
        <5>1. i - 1 \in 1 .. Len(ss)
          BY <2>1, <4>2
        <5>2. g[i - 1] = f[i - 1]
          BY <5>1
        <5>3. f[i] = f[i - 1] \o ss[i]
          BY <2>3
        <5> QED
          BY <4>2, <5>2, <5>3
      <4> QED
        BY <4>1, <4>2
    <3> QED
      BY <3>1
  <2>6. chosen = body(chosen)
    BY <2>5
  <2>7. FlattenSeq(ss) = chosen[Len(ss)]
    BY <2>1, SMTT(20) DEF FlattenSeq
  <2> HIDE DEF chosen
  <2>8. \A i \in 1 .. Len(ss) : chosen[i] = IF i = 1 THEN ss[i] ELSE chosen[i - 1] \o ss[i]
    BY <2>6
  <2> DEFINE T == {i \in Nat : i \in 1 .. Len(ss) => chosen[i] = f[i]}
  <2>9. 0 \in T
    OBVIOUS
  <2>10. ASSUME NEW i \in Nat, i \in T, i + 1 \in 1 .. Len(ss) PROVE chosen[i + 1] = f[i + 1]
    <3>1. CASE i = 0
      <4>1. i + 1 = 1
        BY <3>1
      <4> QED
        BY <2>4, <2>8, <2>10, <4>1
    <3>2. CASE i # 0
      <4>1. i + 1 # 1 /\ i \in 1 .. Len(ss) /\ (i + 1) - 1 = i
        BY <2>1, <2>10, <3>2
      <4>2. chosen[i + 1] = chosen[i] \o ss[i + 1] /\ f[i + 1] = f[i] \o ss[i + 1]
        BY <2>3, <2>8, <2>10, <4>1
      <4> QED
        BY <2>10, <4>1, <4>2
    <3> QED
      BY <3>1, <3>2
  <2>11. \A i \in Nat : i \in T => i + 1 \in T
    BY <2>10
  <2> HIDE DEF T
  <2>12. \A i \in Nat : i \in T
    BY <2>9, <2>11, Counting
  <2>13. FlattenSeq(ss) = f[Len(ss)]
    BY <2>1, <2>7, <2>12 DEF T
  <2> QED
    BY <1>3, <2>13 DEF A, op, none
<1> QED
  BY <1>4, <1>5

\* ... so that one more list adds to the end of what was put together.
LEMMA FlattenAppend ==
  ASSUME NEW S, NEW ss \in Seq(Seq(S))
  PROVE  /\ FlattenSeq(<<>>) = <<>> /\ FlattenSeq(ss) \in Seq(S)
         /\ \A x \in Seq(S) : FlattenSeq(Append(ss, x)) = FlattenSeq(ss) \o x
<1> DEFINE A == Seq(S)
           op == Joins(S)
           none == <<>>
<1>1. FlattenSeq(<<>>) = none
  BY DEF FlattenSeq
<1>2. ss \in Seq(A) /\ \A x \in A : Append(ss, x) \in Seq(A)
  OBVIOUS
<1>3. \A x, y \in A : op[<<x, y>>] = x \o y
  BY DEF Joins
<1>4. \A q \in Seq(A) : \E f : f \in [0 .. Len(q) -> A] /\ Folds(f, op, none, q) /\ FlattenSeq(q) = f[Len(q)]
  BY FlattenFolds
<1> HIDE DEF A, op, none
<1>5. PICK f : f \in [0 .. Len(ss) -> A] /\ Folds(f, op, none, ss) /\ FlattenSeq(ss) = f[Len(ss)]
  BY <1>2, <1>4
<1>6. FlattenSeq(ss) \in A
  BY <1>2, <1>5, Len(ss) \in 0 .. Len(ss)
<1>7. ASSUME NEW x \in A PROVE FlattenSeq(Append(ss, x)) = FlattenSeq(ss) \o x
  <2> DEFINE longer == Append(ss, x)
  <2>1. longer = Append(ss, x) /\ longer \in Seq(A)
    BY <1>2
  <2> HIDE DEF longer
  <2>2. PICK g : Folds(g, op, none, longer) /\ FlattenSeq(longer) = g[Len(longer)]
    BY <1>4, <2>1
  <2>3. GoesOn(f, g, op, ss, longer, x)
    BY <1>2, <1>5, <2>1, <2>2, FoldsAppend
  <2>4. op[<<f[Len(ss)], x>>] = FlattenSeq(ss) \o x
    BY <1>3, <1>5, <1>6
  <2> QED
    BY <2>1, <2>2, <2>3, <2>4 DEF GoesOn
<1> QED
  BY <1>1, <1>6, <1>7 DEF A, none

------------------------------------------------------------------------------
(* Which children a document gives a folder                                *)

LEMMA EntryIs ==
  /\ \A e \in Entries : e.id \in NodeIds /\ e.parent \in Owners /\ e.kind \in Kinds
  /\ \A n \in NodeIds, p \in Owners, kind \in Kinds :
       /\ Entry(n, p, kind) \in Entries
       /\ Entry(n, p, kind).id = n /\ Entry(n, p, kind).parent = p /\ Entry(n, p, kind).kind = kind
BY DEF Entries, Entry

Links(p) == [q \in Seq(NodeIds) \X Entries |-> IF q[2].parent = p THEN Append(q[1], q[2].id) ELSE q[1]]

\* link_loaded, called for each entry in turn, goes along the list, ...
LEMMA LinkedFolds ==
  ASSUME NEW p, NEW doc \in Seq(Entries)
  PROVE  \E f : /\ f \in [0 .. Len(doc) -> Seq(NodeIds)] /\ Folds(f, Links(p), <<>>, doc)
                /\ Linked(doc, p) = f[Len(doc)]
<1> DEFINE A == Seq(NodeIds)
           none == <<>>
           op == Links(p)
           body(h) == [i \in 0 .. Len(doc) |-> IF i = 0 THEN none
                                               ELSE IF doc[i].parent = p THEN Append(h[i - 1], doc[i].id)
                                               ELSE h[i - 1]]
           chosen == CHOOSE h : h = body(h)
<1>1. none \in A /\ \A x \in A, n \in NodeIds : Append(x, n) \in A
  OBVIOUS
<1>2. \A x \in A, e \in Entries :
        op[<<x, e>>] = IF e.parent = p THEN Append(x, e.id) ELSE x
  BY DEF Links
<1>3. Linked(doc, p) = chosen[Len(doc)]
  BY DEF Linked
<1> HIDE DEF A, op, none
<1>4. \A x \in A, e \in Entries : op[<<x, e>>] \in A
  <2> TAKE x \in A, e \in Entries
  <2>1. e.id \in NodeIds
    BY EntryIs
  <2>2. Append(x, e.id) \in A
    BY <1>1, <2>1
  <2> QED
    BY <1>2, <2>2
<1>5. PICK f : f \in [0 .. Len(doc) -> A] /\ Folds(f, op, none, doc)
  BY <1>1, <1>4, Folding
<1>6. \A i \in 1 .. Len(doc) : doc[i] \in Entries
  OBVIOUS
<1>7. ASSUME NEW i \in 1 .. Len(doc)
      PROVE  f[i] = IF doc[i].parent = p THEN Append(f[i - 1], doc[i].id) ELSE f[i - 1]
  <2>1. i - 1 \in 0 .. Len(doc)
    OBVIOUS
  <2>2. f[i] = op[<<f[i - 1], doc[i]>>] /\ f[i - 1] \in A
    BY <1>5, <2>1 DEF Folds
  <2> QED
    BY <1>2, <1>6, <2>2
<1>8. f = body(f)
  <2>1. ASSUME NEW i \in 0 .. Len(doc)
        PROVE  f[i] = IF i = 0 THEN none
                      ELSE IF doc[i].parent = p THEN Append(f[i - 1], doc[i].id)
                      ELSE f[i - 1]
    <3>1. CASE i = 0
      <4>1. f[0] = none
        BY <1>5 DEF Folds
      <4> QED
        BY <3>1, <4>1, Zenon
    <3>2. CASE i # 0
      <4>1. i \in 1 .. Len(doc)
        BY <3>2
      <4>2. f[i] = IF doc[i].parent = p THEN Append(f[i - 1], doc[i].id) ELSE f[i - 1]
        BY <1>7, <4>1, Zenon
      <4> QED
        BY <3>2, <4>2, Zenon
    <3> QED
      BY <3>1, <3>2, Zenon
  <2> QED
    BY <1>5, <2>1
<1>9. chosen = body(chosen)
  BY <1>8
<1> HIDE DEF chosen
<1>10. \A i \in 0 .. Len(doc) : chosen[i] = IF i = 0 THEN none
                                            ELSE IF doc[i].parent = p THEN Append(chosen[i - 1], doc[i].id)
                                            ELSE chosen[i - 1]
  BY <1>9
<1> DEFINE T == {i \in Nat : i \in 0 .. Len(doc) => chosen[i] = f[i]}
<1>11. 0 \in T
  BY <1>5, <1>10 DEF Folds
<1>12. ASSUME NEW i \in Nat, i \in T, i + 1 \in 0 .. Len(doc) PROVE chosen[i + 1] = f[i + 1]
  <2>1. i + 1 # 0 /\ i + 1 \in 1 .. Len(doc) /\ (i + 1) - 1 = i /\ i \in 0 .. Len(doc)
    BY <1>12
  <2>2. chosen[i + 1] = IF doc[i + 1].parent = p THEN Append(chosen[i], doc[i + 1].id) ELSE chosen[i]
    BY <1>10, <2>1
  <2>3. f[i + 1] = IF doc[i + 1].parent = p THEN Append(f[i], doc[i + 1].id) ELSE f[i]
    BY <1>7, <2>1
  <2>4. chosen[i] = f[i]
    BY <1>12, <2>1
  <2> QED
    BY <2>2, <2>3, <2>4
<1>13. \A i \in Nat : i \in T => i + 1 \in T
  BY <1>12
<1> HIDE DEF T
<1>14. \A i \in Nat : i \in T
  BY <1>11, <1>13, Counting
<1>15. Linked(doc, p) = f[Len(doc)]
  <2>1. Len(doc) \in Nat /\ Len(doc) \in 0 .. Len(doc)
    OBVIOUS
  <2> QED
    BY <1>3, <1>14, <2>1 DEF T
<1> QED
  BY <1>5, <1>15 DEF A, op, none

\* ... so that one more entry is one more child, of the parent it names.
LEMMA LinkedAppend ==
  ASSUME NEW p, NEW doc \in Seq(Entries)
  PROVE  /\ Linked(<<>>, p) = <<>> /\ Linked(doc, p) \in Seq(NodeIds)
         /\ \A e \in Entries :
              Linked(Append(doc, e), p) = IF e.parent = p THEN Append(Linked(doc, p), e.id)
                                          ELSE Linked(doc, p)
<1> DEFINE A == Seq(NodeIds)
           none == <<>>
           op == Links(p)
<1>1. \A x \in A, e \in Entries : op[<<x, e>>] = IF e.parent = p THEN Append(x, e.id) ELSE x
  BY DEF Links
<1>2. \A q \in Seq(Entries) : \E f : f \in [0 .. Len(q) -> A] /\ Folds(f, op, none, q) /\ Linked(q, p) = f[Len(q)]
  BY LinkedFolds
<1>3. none \in Seq(Entries) /\ Len(none) = 0
  OBVIOUS
<1> HIDE DEF A, op
<1>4. Linked(none, p) = none
  <2> HIDE DEF none
  <2>1. PICK f : Folds(f, op, none, none) /\ Linked(none, p) = f[Len(none)]
    BY <1>2, <1>3
  <2> QED
    BY <1>3, <2>1 DEF Folds
<1> HIDE DEF none
<1>5. PICK f : f \in [0 .. Len(doc) -> A] /\ Folds(f, op, none, doc) /\ Linked(doc, p) = f[Len(doc)]
  BY <1>2
<1>6. Linked(doc, p) \in A
  BY <1>5, Len(doc) \in 0 .. Len(doc)
<1>7. ASSUME NEW e \in Entries
      PROVE  Linked(Append(doc, e), p) = IF e.parent = p THEN Append(Linked(doc, p), e.id) ELSE Linked(doc, p)
  <2> DEFINE longer == Append(doc, e)
  <2>1. longer = Append(doc, e) /\ longer \in Seq(Entries)
    OBVIOUS
  <2> HIDE DEF longer
  <2>2. PICK g : Folds(g, op, none, longer) /\ Linked(longer, p) = g[Len(longer)]
    BY <1>2, <2>1
  <2>3. GoesOn(f, g, op, doc, longer, e)
    BY <1>5, <2>1, <2>2, FoldsAppend
  <2>4. op[<<f[Len(doc)], e>>] = IF e.parent = p THEN Append(Linked(doc, p), e.id) ELSE Linked(doc, p)
    BY <1>1, <1>5, <1>6
  <2> QED
    BY <2>1, <2>2, <2>3, <2>4 DEF GoesOn
<1> QED
  BY <1>4, <1>6, <1>7 DEF A, none

LEMMA LinkedNone == \A p : Linked(<<>>, p) = <<>>
<1> TAKE p
<1>1. <<>> \in Seq(Entries)
  OBVIOUS
<1> QED
  BY <1>1, LinkedAppend

LEMMA OneMore ==
  ASSUME NEW S, NEW s \in Seq(S), NEW x \in S
  PROVE  Append(s, x) \in Seq(S) /\ ToSet(Append(s, x)) = ToSet(s) \cup {x}
<1> DEFINE t == Append(s, x)
<1>1. /\ t \in Seq(S) /\ DOMAIN t = 1 .. Len(s) + 1 /\ DOMAIN s = 1 .. Len(s) /\ Len(s) \in Nat
      /\ t[Len(s) + 1] = x /\ \A i \in 1 .. Len(s) : t[i] = s[i]
  OBVIOUS
<1> HIDE DEF t
<1>2. ToSet(t) \subseteq ToSet(s) \cup {x}
  BY <1>1 DEF ToSet
<1>3. x \in ToSet(t)
  <2>1. Len(s) + 1 \in DOMAIN t
    BY <1>1
  <2> QED
    BY <1>1, <2>1 DEF ToSet
<1>4. ToSet(s) \subseteq ToSet(t)
  BY <1>1 DEF ToSet
<1> QED
  BY <1>1, <1>2, <1>3, <1>4 DEF t

\* The children a document gives a folder are the entries that say so, and each
\* once where no identity comes twice.
LEMMA LinkedHolds ==
  ASSUME NEW p
  PROVE  \A doc \in Seq(Entries) :
           /\ Linked(doc, p) \in Seq(NodeIds)
           /\ ToSet(Linked(doc, p)) = {e.id : e \in {d \in ToSet(doc) : d.parent = p}}
<1> DEFINE T == {doc \in Seq(Entries) :
                   ToSet(Linked(doc, p)) = {e.id : e \in {d \in ToSet(doc) : d.parent = p}}}
<1>1. <<>> \in T
  <2>1. Linked(<<>>, p) = <<>> /\ <<>> \in Seq(Entries)
    BY LinkedNone
  <2> QED
    BY <2>1 DEF ToSet
<1>2. ASSUME NEW doc \in Seq(Entries), doc \in T, NEW e \in Entries PROVE Append(doc, e) \in T
  <2> DEFINE longer == Append(doc, e)
             old == Linked(doc, p)
  <2>1. longer \in Seq(Entries) /\ ToSet(longer) = ToSet(doc) \cup {e}
    BY OneMore
  <2>2. old \in Seq(NodeIds) /\ Linked(longer, p) = IF e.parent = p THEN Append(old, e.id) ELSE old
    BY LinkedAppend
  <2>3. e.id \in NodeIds
    BY EntryIs
  <2> HIDE DEF longer
  <2>4. ToSet(old) = {d.id : d \in {d \in ToSet(doc) : d.parent = p}}
    BY <1>2
  <2> HIDE DEF old
  <2>5. ToSet(Append(old, e.id)) = ToSet(old) \cup {e.id}
    BY <2>2, <2>3, OneMore
  <2>6. ToSet(Linked(longer, p)) = {d.id : d \in {d \in ToSet(longer) : d.parent = p}}
    <3>1. CASE e.parent = p
      <4>1. {d \in ToSet(longer) : d.parent = p} = {d \in ToSet(doc) : d.parent = p} \cup {e}
        BY <2>1, <3>1
      <4>2. ToSet(Linked(longer, p)) = ToSet(old) \cup {e.id}
        BY <2>2, <2>5, <3>1
      <4> QED
        BY <2>4, <4>1, <4>2
    <3>2. CASE e.parent # p
      <4>1. {d \in ToSet(longer) : d.parent = p} = {d \in ToSet(doc) : d.parent = p}
        BY <2>1, <3>2
      <4> QED
        BY <2>2, <2>4, <3>2, <4>1
    <3> QED
      BY <3>1, <3>2
  <2> QED
    BY <2>1, <2>6 DEF longer
<1>3. \A doc \in Seq(Entries) : doc \in T
  <2> HIDE DEF T
  <2>1. \A doc \in Seq(Entries) : doc \in T => \A e \in Entries : Append(doc, e) \in T
    BY <1>2
  <2> QED
    BY <1>1, <2>1, Lengthening
<1> QED
  BY <1>3, LinkedAppend

LEMMA LinkedOnce ==
  ASSUME NEW p
  PROVE  \A doc \in Seq(Entries) :
           (\A i, j \in DOMAIN doc : doc[i].id = doc[j].id => i = j) => OnceIn(Linked(doc, p))
<1> DEFINE Clear(doc) == \A i, j \in DOMAIN doc : doc[i].id = doc[j].id => i = j
           T == {doc \in Seq(Entries) : Clear(doc) => OnceIn(Linked(doc, p))}
<1>1. <<>> \in T
  <2>1. Linked(<<>>, p) = <<>> /\ <<>> \in Seq(Entries)
    BY LinkedNone
  <2> QED
    BY <2>1 DEF OnceIn
<1>2. ASSUME NEW doc \in Seq(Entries), doc \in T, NEW e \in Entries PROVE Append(doc, e) \in T
  <2> DEFINE longer == Append(doc, e)
             old == Linked(doc, p)
  <2>1. /\ longer \in Seq(Entries) /\ DOMAIN longer = 1 .. Len(doc) + 1
        /\ \A i \in DOMAIN doc : i \in DOMAIN longer /\ longer[i] = doc[i] /\ i # Len(doc) + 1
        /\ longer[Len(doc) + 1] = e /\ Len(doc) + 1 \in DOMAIN longer
    OBVIOUS
  <2>2. old \in Seq(NodeIds) /\ Linked(longer, p) = IF e.parent = p THEN Append(old, e.id) ELSE old
    BY LinkedAppend
  <2>3. ToSet(old) = {d.id : d \in {d \in ToSet(doc) : d.parent = p}}
    BY LinkedHolds
  <2> HIDE DEF longer, old
  <2> SUFFICES ASSUME Clear(longer) PROVE OnceIn(Linked(longer, p))
    BY <2>1 DEF longer
  <2>4. OnceIn(old)
    <3>1. Clear(doc)
      BY <2>1
    <3> QED
      BY <1>2, <3>1 DEF old
  <2>5. e.id \notin ToSet(old)
    <3> SUFFICES ASSUME NEW d \in ToSet(doc), d.id = e.id PROVE FALSE
      BY <2>3
    <3>1. PICK i \in DOMAIN doc : doc[i] = d
      BY DEF ToSet
    <3> QED
      BY <2>1, <3>1
  <2>6. OnceIn(Append(old, e.id))
    BY <2>2, <2>4, <2>5, EntryIs, AppendIs
  <2> QED
    BY <2>2, <2>4, <2>6
<1>3. \A doc \in Seq(Entries) : doc \in T
  <2> HIDE DEF T
  <2>1. \A doc \in Seq(Entries) : doc \in T => \A e \in Entries : Append(doc, e) \in T
    BY <1>2
  <2> QED
    BY <1>1, <2>1, Lengthening
<1> QED
  BY <1>3

------------------------------------------------------------------------------
(* Counting steps finds every cycle                                        *)

NoCircle(doc) ==
  \A S \in SUBSET Ids(doc) : S # {} => \E e \in ToSet(doc) : e.id \in S /\ e.parent \notin S

\* In a document into_tree has read as far as its parents, every identity has
\* one entry, and the climb stays inside.
LEMMA ParentOf ==
  ASSUME NEW doc \in Seq(Entries), NodesAreClear(doc), NEW e \in ToSet(doc)
  PROVE  e.id \in Ids(doc) /\ ParentIn(doc, e.id) = e.parent
<1>1. \A d \in ToSet(doc) : d.id = e.id => d = e
  BY DEF NodesAreClear, ToSet
<1>2. (CHOOSE d \in ToSet(doc) : d.id = e.id) = e
  BY <1>1
<1> QED
  BY <1>2 DEF ParentIn, Ids, ToSet

LEMMA UpTo == \A n \in Nat : IsFiniteSet(1 .. n) /\ Cardinality(1 .. n) = n
<1> TAKE n \in Nat
<1>1. 1 \in Int /\ n \in Int /\ (IF 1 > n THEN 0 ELSE n - 1 + 1) = n
  OBVIOUS
<1>2. IsFiniteSet(1 .. n) /\ Cardinality(1 .. n) = IF 1 > n THEN 0 ELSE n - 1 + 1
  BY <1>1, FS_Interval
<1> QED
  BY <1>1, <1>2

LEMMA IdsGoOnto ==
  ASSUME NEW doc \in Seq(Entries)
  PROVE  [i \in 1 .. Len(doc) |-> doc[i].id] \in Surjection(1 .. Len(doc), Ids(doc))
<1> DEFINE f == [i \in 1 .. Len(doc) |-> doc[i].id]
<1>1. DOMAIN doc = 1 .. Len(doc)
  OBVIOUS
<1>2. Ids(doc) = {f[i] : i \in 1 .. Len(doc)}
  BY <1>1 DEF Ids
<1>3. f = [i \in 1 .. Len(doc) |-> f[i]]
  OBVIOUS
<1> HIDE DEF f
<1>4. f \in [1 .. Len(doc) -> Ids(doc)]
  BY <1>2, <1>3
<1>5. \A n \in Ids(doc) : \E i \in 1 .. Len(doc) : f[i] = n
  BY <1>2
<1>6. f \in Surjection(1 .. Len(doc), Ids(doc))
  BY <1>4, <1>5 DEF Surjection
<1> QED
  BY <1>6 DEF f

LEMMA IdsAreEntries ==
  ASSUME NEW doc \in Seq(Entries)
  PROVE  /\ Ids(doc) \subseteq NodeIds
         /\ \A n \in Ids(doc) : \E e \in ToSet(doc) : e.id = n
         /\ ToSet(doc) \subseteq Entries
         /\ IsFiniteSet(Ids(doc)) /\ Cardinality(Ids(doc)) \in Nat /\ Cardinality(Ids(doc)) <= Len(doc)
<1>1. \A i \in DOMAIN doc : doc[i] \in Entries
  OBVIOUS
<1>2. ToSet(doc) \subseteq Entries
  BY <1>1 DEF ToSet
<1>3. \A n \in Ids(doc) : \E e \in ToSet(doc) : e.id = n
  BY DEF Ids, ToSet
<1>4. Ids(doc) \subseteq NodeIds
  BY <1>2, <1>3, EntryIs
<1>5. IsFiniteSet(1 .. Len(doc)) /\ Cardinality(1 .. Len(doc)) = Len(doc)
  BY UpTo, Len(doc) \in Nat
<1>6. IsFiniteSet(Ids(doc)) /\ Cardinality(Ids(doc)) <= Len(doc)
  <2> DEFINE f == [i \in 1 .. Len(doc) |-> doc[i].id]
  <2>1. f \in Surjection(1 .. Len(doc), Ids(doc))
    BY IdsGoOnto
  <2> QED
    BY <1>5, <2>1, FS_Surjection
<1> QED
  BY <1>2, <1>3, <1>4, <1>6, FS_CardinalityType

\* The climb meets entries' identities, and the top level for ever once it is there.
LEMMA ClimbIs ==
  ASSUME NEW doc \in Seq(Entries), NodesAreClear(doc), ParentsAreFolders(doc), NEW i \in DOMAIN doc
  PROVE  /\ Climb(doc, i) \in [Nat -> Ids(doc) \cup {Top}]
         /\ Climb(doc, i)[0] = doc[i].parent
         /\ \A k \in Nat : Climb(doc, i)[k + 1] = IF Climb(doc, i)[k] = Top THEN Top
                                                  ELSE ParentIn(doc, Climb(doc, i)[k])
<1> DEFINE A == Ids(doc) \cup {Top}
           step == [q \in A \X Nat |-> IF q[1] = Top THEN Top ELSE ParentIn(doc, q[1])]
           body(h) == [k \in Nat |-> IF k = 0 THEN doc[i].parent
                                     ELSE IF h[k - 1] = Top THEN Top ELSE ParentIn(doc, h[k - 1])]
           chosen == CHOOSE h : h = body(h)
<1>1. Climb(doc, i) = chosen
  BY DEF Climb
<1>2. \A e \in ToSet(doc) : e.parent \in A
  BY DEF ParentsAreFolders, FoldersIn, Ids, ToSet
<1>3. \A n \in Ids(doc) : ParentIn(doc, n) \in A
  <2> TAKE n \in Ids(doc)
  <2>1. PICK e \in ToSet(doc) : e.id = n
    BY IdsAreEntries
  <2>2. ParentIn(doc, n) = e.parent
    BY <2>1, ParentOf
  <2> QED
    BY <1>2, <2>2
<1>4. \A x \in A, k \in Nat : step[<<x, k>>] = IF x = Top THEN Top ELSE ParentIn(doc, x)
  OBVIOUS
<1>5. doc[i].parent \in A
  BY <1>2 DEF ToSet
<1>6. \A x \in A, k \in Nat : step[<<x, k>>] \in A
  <2> HIDE DEF step
  <2> QED
    BY <1>3, <1>4
<1> HIDE DEF step
<1>7. PICK f \in [Nat -> A] : Repeats(f, step, doc[i].parent)
  <2> HIDE DEF A
  <2> QED
    BY <1>5, <1>6, Repeating
<1>8. /\ f[0] = doc[i].parent
      /\ \A k \in Nat : f[k + 1] = IF f[k] = Top THEN Top ELSE ParentIn(doc, f[k])
  BY <1>4, <1>7 DEF Repeats
<1> DEFINE Same(g) == \A k \in Nat : g[k] = f[k]
<1>9. f = body(f)
  <2>1. ASSUME NEW k \in Nat
        PROVE  f[k] = IF k = 0 THEN doc[i].parent
                      ELSE IF f[k - 1] = Top THEN Top ELSE ParentIn(doc, f[k - 1])
    <3>1. CASE k = 0
      BY <1>8, <3>1
    <3>2. CASE k # 0
      <4>1. k - 1 \in Nat /\ (k - 1) + 1 = k
        BY <3>2
      <4> QED
        BY <1>8, <3>2, <4>1
    <3> QED
      BY <3>1, <3>2
  <2> QED
    BY <2>1
<1>10. chosen = body(chosen)
  BY <1>9
<1> HIDE DEF chosen
<1>11. \A k \in Nat : chosen[k] = IF k = 0 THEN doc[i].parent
                                  ELSE IF chosen[k - 1] = Top THEN Top ELSE ParentIn(doc, chosen[k - 1])
  BY <1>10
<1> DEFINE T == {k \in Nat : chosen[k] = f[k]}
<1>12. 0 \in T
  BY <1>8, <1>11
<1>13. ASSUME NEW k \in Nat, k \in T PROVE k + 1 \in T
  <2>1. k + 1 # 0 /\ k + 1 \in Nat /\ (k + 1) - 1 = k
    OBVIOUS
  <2>2. chosen[k + 1] = IF chosen[k] = Top THEN Top ELSE ParentIn(doc, chosen[k])
    BY <1>11, <2>1
  <2> QED
    BY <1>8, <1>13, <2>1, <2>2
<1> HIDE DEF T
<1>14. \A k \in Nat : k \in T
  BY <1>12, <1>13, Counting
<1>15. chosen = f
  <2>1. \A k \in Nat : chosen[k] = f[k]
    BY <1>14 DEF T
  <2>2. chosen = [k \in Nat |-> chosen[k]]
    BY <1>10
  <2> QED
    BY <2>1, <2>2
<1> QED
  BY <1>1, <1>7, <1>8, <1>15

\* The third pass finds what goes round in a circle, and nothing else.
LEMMA CirclesAreFound ==
  ASSUME NEW doc \in Seq(Entries), NodesAreClear(doc), ParentsAreFolders(doc)
  PROVE  ReachesTop(doc) <=> NoCircle(doc)
<1>0. Top \notin Ids(doc) /\ Len(doc) \in Nat
  BY TopAssumption, IdsAreEntries
\* Nothing that goes round in a circle climbs out of it.
<1>1. ASSUME ReachesTop(doc), NEW S \in SUBSET Ids(doc), S # {}
      PROVE  \E e \in ToSet(doc) : e.id \in S /\ e.parent \notin S
  <2> SUFFICES ASSUME \A e \in ToSet(doc) : e.id \in S => e.parent \in S PROVE FALSE
    OBVIOUS
  <2>1. PICK i \in DOMAIN doc : doc[i].id \in S
    BY <1>1 DEF Ids
  <2> DEFINE c == Climb(doc, i)
             T == {k \in Nat : c[k] \in S}
  <2>2. /\ c[0] = doc[i].parent
        /\ \A k \in Nat : c[k + 1] = IF c[k] = Top THEN Top ELSE ParentIn(doc, c[k])
    BY ClimbIs
  <2>3. c[Len(doc)] = Top
    BY <1>1 DEF ReachesTop
  <2> HIDE DEF c
  <2>4. 0 \in T
    BY <2>1, <2>2 DEF ToSet
  <2>5. ASSUME NEW k \in Nat, k \in T PROVE k + 1 \in T
    <3>1. c[k] \in S /\ c[k] # Top
      BY <1>0, <2>5
    <3>2. PICK e \in ToSet(doc) : e.id = c[k]
      BY <3>1, IdsAreEntries
    <3>3. ParentIn(doc, c[k]) = e.parent
      BY <3>2, ParentOf
    <3>4. c[k + 1] = e.parent
      BY <2>2, <3>1, <3>3
    <3> QED
      BY <3>1, <3>2, <3>4
  <2> HIDE DEF T
  <2>6. \A k \in Nat : k \in T
    BY <2>4, <2>5, Counting
  <2> QED
    BY <1>0, <2>3, <2>6 DEF T
\* A climb that does not end in as many steps as there are entries has been
\* somewhere twice; where it was in between goes round in a circle.
<1>2. ASSUME NoCircle(doc), NEW i \in DOMAIN doc
      PROVE  Climb(doc, i)[Len(doc)] = Top
  <2> DEFINE c == Climb(doc, i)
             n == Len(doc)
  <2>1. /\ c \in [Nat -> Ids(doc) \cup {Top}]
        /\ \A k \in Nat : c[k + 1] = IF c[k] = Top THEN Top ELSE ParentIn(doc, c[k])
    BY ClimbIs
  <2> HIDE DEF c
  <2> SUFFICES ASSUME c[n] # Top PROVE FALSE
    BY DEF c
  <2>2. \A k \in 0 .. n : c[k] \in Ids(doc)
    <3> DEFINE T == {j \in Nat : j <= n => c[n - j] # Top}
    <3>1. 0 \in T
      BY <1>0
    <3>2. ASSUME NEW j \in Nat, j \in T, j + 1 <= n PROVE c[n - (j + 1)] # Top
      <4>1. n - (j + 1) \in Nat /\ (n - (j + 1)) + 1 = n - j /\ j <= n
        BY <1>0, <3>2
      <4> QED
        BY <2>1, <3>2, <4>1
    <3>3. \A j \in Nat : j \in T => j + 1 \in T
      BY <3>2
    <3> HIDE DEF T
    <3>4. \A j \in Nat : j \in T
      BY <3>1, <3>3, Counting
    <3> SUFFICES ASSUME NEW k \in 0 .. n PROVE c[k] \in Ids(doc)
      OBVIOUS
    <3>5. n - k \in Nat /\ n - k <= n /\ n - (n - k) = k /\ k \in Nat
      BY <1>0
    <3>6. c[k] # Top
      BY <3>4, <3>5 DEF T
    <3> QED
      BY <2>1, <3>5, <3>6
  <2>3. PICK x, y \in 0 .. n : x # y /\ c[x] = c[y]
    <3> DEFINE f == [k \in 0 .. n |-> c[k]]
    <3>1. f \in [0 .. n -> Ids(doc)]
      BY <2>2
    <3>2. IsFiniteSet(0 .. n) /\ Cardinality(0 .. n) = n + 1
      <4>1. 0 \in Int /\ n \in Int /\ ~ (0 > n) /\ n - 0 + 1 = n + 1
        BY <1>0
      <4> HIDE DEF n
      <4> QED
        BY <4>1, FS_Interval
    <3>3. IsFiniteSet(Ids(doc)) /\ Cardinality(Ids(doc)) < n + 1
      BY <1>0, IdsAreEntries
    <3> HIDE DEF f
    <3>4. PICK x, y \in 0 .. n : x # y /\ f[x] = f[y]
      BY <3>1, <3>2, <3>3, FS_PigeonHole
    <3> QED
      BY <3>4 DEF f
  <2>4. PICK a \in 0 .. n, b \in 0 .. n : a < b /\ c[a] = c[b]
    <3>1. x < y \/ y < x
      BY <1>0, <2>3
    <3> QED
      BY <2>3, <3>1
  <2> DEFINE S == {c[k] : k \in a .. b - 1}
  <2>5. S \in SUBSET Ids(doc) /\ S # {}
    <3>1. a \in a .. b - 1 /\ \A k \in a .. b - 1 : k \in 0 .. n
      BY <1>0, <2>4
    <3> QED
      BY <2>2, <3>1
  <2>6. PICK e \in ToSet(doc) : e.id \in S /\ e.parent \notin S
    <3> HIDE DEF S
    <3> QED
      BY <1>2, <2>5 DEF NoCircle
  <2>7. PICK k \in a .. b - 1 : e.id = c[k]
    BY <2>6
  <2>8. e.parent = c[k + 1]
    <3>1. k \in Nat /\ k \in 0 .. n
      BY <1>0, <2>4
    <3>2. c[k] # Top
      BY <1>0, <2>2, <3>1
    <3>3. ParentIn(doc, c[k]) = e.parent
      BY <2>7, ParentOf
    <3> QED
      BY <2>1, <3>1, <3>2, <3>3
  <2>9. CASE k + 1 = b
    <3>1. a \in a .. b - 1
      BY <1>0, <2>4
    <3> QED
      BY <2>4, <2>6, <2>8, <2>9, <3>1
  <2>10. CASE k + 1 # b
    <3>1. k + 1 \in a .. b - 1
      BY <1>0, <2>4, <2>10
    <3> QED
      BY <2>6, <2>8, <3>1
  <2> QED
    BY <2>9, <2>10
<1> QED
  BY <1>1, <1>2 DEF ReachesTop, NoCircle

\* into_tree accepts what is a tree, and nothing else, of all lists of entries
\* (doc.rs, into_tree).
THEOREM OnlyForestsAreAccepted ==
  ASSUME NEW doc \in Seq(Entries)
  PROVE  Accepted(doc) <=> DescribesForest(doc)
<1>1. Cardinality(Ids(doc)) = Len(doc) <=> \A i, j \in DOMAIN doc : doc[i].id = doc[j].id => i = j
  <2> DEFINE f == [i \in 1 .. Len(doc) |-> doc[i].id]
  <2>1. f \in Surjection(1 .. Len(doc), Ids(doc))
    BY IdsGoOnto
  <2>2. IsFiniteSet(1 .. Len(doc)) /\ Cardinality(1 .. Len(doc)) = Len(doc)
    BY UpTo, Len(doc) \in Nat
  <2>3. f \in Injection(1 .. Len(doc), Ids(doc)) <=> \A i, j \in DOMAIN doc : doc[i].id = doc[j].id => i = j
    <3>1. /\ DOMAIN doc = 1 .. Len(doc) /\ f \in [1 .. Len(doc) -> Ids(doc)]
          /\ \A i \in 1 .. Len(doc) : f[i] = doc[i].id
      BY DEF Ids
    <3> HIDE DEF f
    <3>2. f \in Injection(1 .. Len(doc), Ids(doc)) <=> \A i, j \in 1 .. Len(doc) : f[i] = f[j] => i = j
      BY <3>1 DEF Injection, IsInjective
    <3> QED
      BY <3>1, <3>2
  <2> HIDE DEF f
  <2> QED
    BY <2>1, <2>2, <2>3, FS_Surjection
<1>2. (\A i \in DOMAIN doc : doc[i].kind \in {"folder", "session"})
      <=> \A e \in ToSet(doc) : e.kind \in {"folder", "session"}
  BY DEF ToSet
<1>3. ParentsAreFolders(doc)
      <=> \A e \in ToSet(doc) : e.parent = Top \/ \E f \in ToSet(doc) : f.id = e.parent /\ f.kind = "folder"
  BY DEF ParentsAreFolders, FoldersIn, ToSet
<1> QED
  BY <1>1, <1>2, <1>3, CirclesAreFound DEF Accepted, DescribesForest, NodesAreClear, NoCircle

------------------------------------------------------------------------------
(* Loading                                                                 *)

\* What is accepted is loaded as a tree.
LEMMA LoadedIsTree ==
  ASSUME NEW doc \in Seq(Entries), LoadTree(doc)
  PROVE  TreeIInv' /\ IsFiniteSet(nodes')
<1>1. /\ NodesAreClear(doc) /\ ParentsAreFolders(doc) /\ NoCircle(doc)
  BY CirclesAreFound DEF LoadTree, Accepted
<1>2. /\ nodes' = Ids(doc) /\ folders' = FoldersIn(doc)
      /\ parent' = [n \in NodeIds |-> IF n \in Ids(doc) THEN ParentIn(doc, n) ELSE Top]
      /\ children' = [p \in Owners |-> Linked(doc, p)]
  BY DEF LoadTree, IntoTree
<1>3. /\ Ids(doc) \subseteq NodeIds /\ ToSet(doc) \subseteq Entries
      /\ \A n \in Ids(doc) : \E e \in ToSet(doc) : e.id = n
  BY IdsAreEntries
<1>4. \A e \in ToSet(doc) : /\ e.id \in Ids(doc) /\ ParentIn(doc, e.id) = e.parent
                            /\ e.id \in NodeIds /\ e.parent \in Owners
  BY <1>1, <1>3, ParentOf, EntryIs
<1>5. \A e \in ToSet(doc) : parent'[e.id] = e.parent
  BY <1>2, <1>4
<1>6. TreeTypeOK'
  <2>1. FoldersIn(doc) \subseteq Ids(doc)
    BY <1>4 DEF FoldersIn
  <2>2. \A n \in Ids(doc) : ParentIn(doc, n) \in Owners
    BY <1>3, <1>4
  <2>3. parent' \in [NodeIds -> Owners]
    BY <1>2, <2>2 DEF Owners
  <2>4. children' \in [Owners -> Seq(NodeIds)]
    BY <1>2, LinkedHolds
  <2> QED
    BY <1>2, <1>3, <2>1, <2>3, <2>4 DEF TreeTypeOK
<1>7. ListsAgree'
  <2> SUFFICES ASSUME NEW p \in Owners, NEW c \in NodeIds
               PROVE  c \in ToSet(children'[p]) <=> c \in nodes' /\ parent'[c] = p
    BY DEF ListsAgree
  <2>1. ToSet(children'[p]) = {e.id : e \in {d \in ToSet(doc) : d.parent = p}}
    BY <1>2, LinkedHolds
  <2> QED
    BY <1>2, <1>3, <1>4, <1>5, <2>1
<1>8. ListedOnce'
  <2>1. \A p \in Owners : OnceIn(Linked(doc, p))
    BY <1>1, LinkedOnce DEF NodesAreClear
  <2> QED
    BY <1>2, <2>1 DEF ListedOnce, OnceIn
<1>9. HeldByFolders'
  <2>1. \A e \in ToSet(doc) : e.parent \in FoldersIn(doc) \cup {Top}
    BY <1>1 DEF ParentsAreFolders, ToSet
  <2> QED
    BY <1>2, <1>3, <1>5, <2>1 DEF HeldByFolders
<1>10. Acyclic'
  <2> SUFFICES ASSUME NEW S \in SUBSET nodes', S # {}
               PROVE  \E n \in S : parent'[n] \notin S
    BY DEF Acyclic
  <2>1. PICK e \in ToSet(doc) : e.id \in S /\ e.parent \notin S
    BY <1>1, <1>2 DEF NoCircle
  <2> QED
    BY <1>5, <2>1
<1> QED
  BY <1>2, <1>6, <1>7, <1>8, <1>9, <1>10, IdsAreEntries DEF TreeIInv

------------------------------------------------------------------------------
(* Saving                                                                  *)

\* What is below the children of an owner, the children included.
Spread(t, q) == FlattenSeq([i \in DOMAIN children[q] |-> t[children[q][i]]])

LEMMA SpreadIs ==
  ASSUME TreeTypeOK, NEW t \in [NodeIds -> Seq(NodeIds)], NEW q \in Owners
  PROVE  /\ [i \in DOMAIN children[q] |-> t[children[q][i]]] \in Seq(Seq(NodeIds))
         /\ Spread(t, q) \in Seq(NodeIds)
<1> DEFINE A == Seq(NodeIds)
           list == children[q]
           ss == [i \in DOMAIN list |-> t[list[i]]]
<1>1. list \in A
  BY DEF TreeTypeOK
<1>2. ss \in Seq(A)
  <2>1. \A i \in DOMAIN list : t[list[i]] \in A
    BY <1>1
  <2> HIDE DEF A
  <2>2. DOMAIN list = 1 .. Len(list) /\ Len(list) \in Nat
    BY <1>1 DEF A
  <2> HIDE DEF list
  <2> QED
    BY <2>1, <2>2
<1> HIDE DEF ss
<1>3. FlattenSeq(ss) \in A
  BY <1>2, FlattenAppend
<1> QED
  BY <1>2, <1>3 DEF Spread, ss

\* The recursion of walk defines a function: the node, then its children's.
LEMMA SubtreesAre ==
  ASSUME TreeTypeOK
  PROVE  /\ Subtrees \in [Nat -> [NodeIds -> Seq(NodeIds)]]
         /\ \A n \in NodeIds : Subtrees[0][n] = <<n>>
         /\ \A d \in Nat, n \in NodeIds : Subtrees[d + 1][n] = <<n>> \o Spread(Subtrees[d], n)
<1> DEFINE A == [NodeIds -> Seq(NodeIds)]
           base == [n \in NodeIds |-> <<n>>]
           deeper(t) == [n \in NodeIds |-> <<n>> \o Spread(t, n)]
           step == [q \in A \X Nat |-> deeper(q[1])]
           body(h) == [d \in Nat |-> [n \in NodeIds |-> IF d = 0 THEN <<n>> ELSE <<n>> \o Spread(h[d - 1], n)]]
           chosen == CHOOSE h : h = body(h)
<1>1. Subtrees = chosen
  BY DEF Subtrees, Spread
<1>2. base \in A
  OBVIOUS
<1>3. \A t \in A : deeper(t) \in A
  <2> TAKE t \in A
  <2>1. \A n \in NodeIds : <<n>> \o Spread(t, n) \in Seq(NodeIds)
    <3> TAKE n \in NodeIds
    <3>1. Spread(t, n) \in Seq(NodeIds)
      BY SpreadIs DEF Owners
    <3> HIDE DEF A
    <3> QED
      BY <3>1
  <2> QED
    BY <2>1
<1> HIDE DEF A
<1>4. \A t \in A, k \in Nat : step[<<t, k>>] = deeper(t)
  OBVIOUS
<1> HIDE DEF base, deeper, step
<1>5. \A t \in A, k \in Nat : step[<<t, k>>] \in A
  BY <1>3, <1>4
<1>6. PICK f \in [Nat -> A] : Repeats(f, step, base)
  BY <1>2, <1>5, Repeating
<1>7. f[0] = base /\ \A k \in Nat : f[k + 1] = deeper(f[k])
  BY <1>4, <1>6 DEF Repeats
<1>8. f = body(f)
  <2>1. ASSUME NEW d \in Nat
        PROVE  f[d] = [n \in NodeIds |-> IF d = 0 THEN <<n>> ELSE <<n>> \o Spread(f[d - 1], n)]
    <3>1. CASE d = 0
      BY <1>7, <3>1 DEF base
    <3>2. CASE d # 0
      <4>1. d - 1 \in Nat /\ (d - 1) + 1 = d
        BY ONLY d \in Nat, <3>2
      <4>2. f[d] = deeper(f[d - 1])
        BY <1>7, <4>1, Zenon
      <4>3. \A n \in NodeIds : <<n>> \o Spread(f[d - 1], n)
                              = IF d = 0 THEN <<n>> ELSE <<n>> \o Spread(f[d - 1], n)
        BY <3>2, Zenon
      <4> QED
        BY <4>2, <4>3, Zenon DEF deeper
    <3> QED
      BY <3>1, <3>2, Zenon
  <2> QED
    BY <1>6, <2>1
<1>9. chosen = body(chosen)
  BY <1>8
<1> HIDE DEF chosen
<1>10. \A d \in Nat :
         chosen[d] = [n \in NodeIds |-> IF d = 0 THEN <<n>> ELSE <<n>> \o Spread(chosen[d - 1], n)]
  BY <1>9
<1>11. chosen[0] = base
  <2>1. chosen[0] = [n \in NodeIds |-> IF 0 = 0 THEN <<n>> ELSE <<n>> \o Spread(chosen[0 - 1], n)]
    BY <1>10
  <2> QED
    BY <2>1 DEF base
<1>12. ASSUME NEW d \in Nat PROVE chosen[d + 1] = deeper(chosen[d])
  <2>1. d + 1 # 0 /\ d + 1 \in Nat /\ (d + 1) - 1 = d
    OBVIOUS
  <2>2. chosen[d + 1] = [n \in NodeIds |-> IF d + 1 = 0 THEN <<n>> ELSE <<n>> \o Spread(chosen[(d + 1) - 1], n)]
    BY <1>10, <2>1
  <2>3. chosen[d + 1] = [n \in NodeIds |-> <<n>> \o Spread(chosen[d], n)]
    BY <2>1, <2>2
  <2> QED
    BY <2>3 DEF deeper
<1> DEFINE T == {d \in Nat : chosen[d] \in A}
<1>13. 0 \in T
  BY <1>2, <1>11
<1>14. \A d \in Nat : d \in T => d + 1 \in T
  BY <1>3, <1>12
<1> HIDE DEF T
<1>15. \A d \in Nat : chosen[d] \in A
  <2>1. \A d \in Nat : d \in T
    BY <1>13, <1>14, Counting
  <2> QED
    BY <2>1 DEF T
<1>16. chosen \in [Nat -> A]
  <2>1. chosen = [d \in Nat |-> chosen[d]]
    BY <1>9
  <2> QED
    BY <1>15, <2>1
<1>17. \A n \in NodeIds : chosen[0][n] = <<n>>
  BY <1>11 DEF base
<1>18. \A d \in Nat, n \in NodeIds : chosen[d + 1][n] = <<n>> \o Spread(chosen[d], n)
  BY <1>12 DEF deeper
<1> QED
  BY <1>1, <1>16, <1>17, <1>18 DEF A

Marked(w) == [i \in DOMAIN w |-> Saved(w[i])]

LEMMA SavedIs ==
  ASSUME TreeTypeOK, NEW n \in NodeIds
  PROVE  /\ Saved(n) \in Entries /\ Saved(n).id = n /\ Saved(n).parent = parent[n]
         /\ Saved(n).kind = IF n \in folders THEN "folder" ELSE "session"
<1> DEFINE kind == IF n \in folders THEN "folder" ELSE "session"
<1>1. parent[n] \in Owners /\ kind \in Kinds
  BY DEF TreeTypeOK, Kinds
<1>2. Saved(n) = Entry(n, parent[n], kind)
  BY DEF Saved
<1> HIDE DEF kind
<1>3. Saved(n) \in Entries /\ Saved(n).id = n /\ Saved(n).parent = parent[n] /\ Saved(n).kind = kind
  BY <1>1, <1>2, EntryIs
<1> QED
  BY <1>3 DEF kind

LEMMA MarkedIs ==
  ASSUME TreeTypeOK, NEW w \in Seq(NodeIds)
  PROVE  /\ Marked(w) \in Seq(Entries) /\ DOMAIN Marked(w) = DOMAIN w
         /\ \A i \in DOMAIN w : Marked(w)[i] = Saved(w[i])
<1>1. \A i \in 1 .. Len(w) : Saved(w[i]) \in Entries
  BY SavedIs
<1>2. DOMAIN w = 1 .. Len(w) /\ Len(w) \in Nat
  OBVIOUS
<1> QED
  BY <1>1, <1>2 DEF Marked

LEMMA FromTreeIs ==
  ASSUME TreeTypeOK, IsFiniteSet(nodes)
  PROVE  Walk \in Seq(NodeIds) /\ FromTree = Marked(Walk) /\ FromTree \in Seq(Entries)
<1>1. Cardinality(nodes) \in Nat
  BY FS_CardinalityType
<1>2. Subtrees[Cardinality(nodes)] \in [NodeIds -> Seq(NodeIds)]
  BY <1>1, SubtreesAre
<1>3. Walk = Spread(Subtrees[Cardinality(nodes)], Top)
  BY DEF Walk, Spread
<1>4. Walk \in Seq(NodeIds)
  BY <1>2, <1>3, SpreadIs DEF Owners
<1>5. FromTree = Marked(Walk)
  BY DEF FromTree, Marked
<1> QED
  BY <1>4, <1>5, MarkedIs

\* One change away from what is saved is a list of entries still.
LEMMA EditedAreDocs ==
  ASSUME NEW doc \in Seq(Entries), doc = FromTree
  PROVE  EditedDocs \subseteq Seq(Entries)
<1>1. ASSUME NEW i \in DOMAIN doc PROVE RemoveAt(doc, i) \in Seq(Entries)
  BY SubSeqProperties, ConcatProperties DEF RemoveAt
<1>2. ASSUME NEW i \in DOMAIN doc, NEW e \in Entries PROVE ReplaceAt(doc, i, e) \in Seq(Entries)
  BY DEF ReplaceAt
<1>3. ASSUME NEW i \in 1 .. Len(doc) + 1, NEW e \in Entries PROVE InsertAt(doc, i, e) \in Seq(Entries)
  BY SubSeqProperties, ConcatProperties DEF InsertAt
<1>4. ASSUME NEW i \in DOMAIN doc, NEW j \in DOMAIN doc
      PROVE  [doc EXCEPT ![i] = doc[j], ![j] = doc[i]] \in Seq(Entries)
  OBVIOUS
<1>5. EditedDocs = {RemoveAt(doc, i) : i \in DOMAIN doc}
                     \cup {ReplaceAt(doc, i, e) : i \in DOMAIN doc, e \in Entries}
                     \cup {InsertAt(doc, i, e) : i \in 1 .. Len(doc) + 1, e \in Entries}
                     \cup {[doc EXCEPT ![i] = doc[j], ![j] = doc[i]] : i, j \in DOMAIN doc}
  BY DEF EditedDocs
<1> DEFINE D == Seq(Entries)
<1>6. {RemoveAt(doc, i) : i \in DOMAIN doc} \subseteq D
  <2> HIDE DEF D
  <2> QED
    BY <1>1 DEF D
<1>7. {ReplaceAt(doc, i, e) : i \in DOMAIN doc, e \in Entries} \subseteq D
  BY <1>2
<1>8. {InsertAt(doc, i, e) : i \in 1 .. Len(doc) + 1, e \in Entries} \subseteq D
  BY <1>3
<1>9. {[doc EXCEPT ![i] = doc[j], ![j] = doc[i]] : i, j \in DOMAIN doc} \subseteq D
  BY <1>4
<1> HIDE DEF D
<1>10. EditedDocs \subseteq D
  BY <1>5, <1>6, <1>7, <1>8, <1>9
<1> QED
  BY <1>10 DEF D

------------------------------------------------------------------------------
(* The tree and its file                                                   *)

\* The invariant: the tree's, and the map is finite and forgets what leaves it.
DocIInv == TreeIInv /\ IsFiniteSet(nodes) /\ \A n \in NodeIds \ nodes : parent[n] = Top

LEMMA InitDoc == TreeInit => DocIInv
BY InitInv, FS_EmptySet DEF DocIInv, TreeInit

\* What leaves the map has no parent any more.
LEMMA OperationsForget ==
  ASSUME DocIInv, TreeOperation
  PROVE  IsFiniteSet(nodes') /\ \A n \in NodeIds \ nodes' : parent'[n] = Top
<1>0. parent \in [NodeIds -> Owners] /\ nodes \subseteq NodeIds
  BY DEF DocIInv, TreeIInv, TreeTypeOK
<1>1. ASSUME NEW id \in NodeIds, NEW p \in Owners, AddNode(id, p)
      PROVE  IsFiniteSet(nodes') /\ \A n \in NodeIds \ nodes' : parent'[n] = Top
  <2>1. nodes' = nodes \cup {id} /\ \A n \in NodeIds : n # id => parent'[n] = parent[n]
    BY <1>0, <1>1 DEF AddNode
  <2> QED
    BY <2>1, FS_AddElement DEF DocIInv
<1>2. ASSUME NEW id \in NodeIds, RemoveNode(id)
      PROVE  IsFiniteSet(nodes') /\ \A n \in NodeIds \ nodes' : parent'[n] = Top
  <2>1. nodes' = nodes \ Subtree(id) /\ parent' = [n \in NodeIds |-> IF n \in Subtree(id) THEN Top ELSE parent[n]]
    BY <1>2 DEF RemoveNode
  <2>2. IsFiniteSet(nodes')
    BY <2>1, FS_Subset DEF DocIInv
  <2> QED
    BY <2>1, <2>2 DEF DocIInv
<1>3. ASSUME NEW id \in NodeIds, NEW p \in Owners, NEW index \in 0 .. Len(children[p]),
             MoveNode(id, p, index)
      PROVE  IsFiniteSet(nodes') /\ \A n \in NodeIds \ nodes' : parent'[n] = Top
  <2>1. id \in nodes /\ nodes' = nodes /\ \A n \in NodeIds : n # id => parent'[n] = parent[n]
    BY <1>0, <1>3 DEF MoveNode
  <2> QED
    BY <2>1 DEF DocIInv
<1> QED
  BY <1>1, <1>2, <1>3 DEF TreeOperation

LEMMA DocStep == DocIInv /\ [DocNext]_treeVars => DocIInv'
<1> SUFFICES ASSUME DocIInv, [DocNext]_treeVars PROVE DocIInv'
  OBVIOUS
<1>1. CASE UNCHANGED treeVars
  <2>1. nodes' = nodes /\ parent' = parent
    BY <1>1 DEF treeVars
  <2>2. TreeIInv'
    BY <1>1, InvStep DEF DocIInv
  <2> QED
    BY <2>1, <2>2 DEF DocIInv
<1>2. CASE TreeOperation
  <2>1. TreeIInv'
    BY <1>2, InvStep DEF DocIInv
  <2> QED
    BY <1>2, <2>1, OperationsForget DEF DocIInv
<1>3. ASSUME NEW doc \in EditedDocs, LoadTree(doc) PROVE DocIInv'
  <2>1. doc \in Seq(Entries)
    BY FromTreeIs, EditedAreDocs DEF DocIInv, TreeIInv
  <2>2. \A n \in NodeIds \ nodes' : parent'[n] = Top
    BY <1>3 DEF LoadTree, IntoTree
  <2> QED
    BY <1>3, <2>1, <2>2, LoadedIsTree DEF DocIInv
<1> QED
  BY <1>1, <1>2, <1>3 DEF DocNext

\* Files that people edited or merged are read in between, and the lists and
\* the parents still describe one forest (doc.rs, into_tree).
THEOREM ConsistentWithFiles == DocSpec => []DocIInv
BY InitDoc, DocStep, PTL DEF DocSpec

\* Nothing is kept where no walk meets it, whatever files were read.
THEOREM NothingIsLostInFiles == DocSpec => []NothingIsLost
<1>1. DocIInv => NothingIsLost
  BY NothingLost DEF DocIInv
<1> QED
  BY <1>1, ConsistentWithFiles, PTL

\* The tree is a forest whatever files are read, and with them in between adding,
\* removing and moving are still Forest's, on the tree that was read.
THEOREM DocImplementsForest == DocSpec => []F!IsForest /\ ImplementsForest
<1>1. TreeInit => F!Init
  BY DEF TreeInit, F!Init
<1>2. DocIInv => EachIsForests /\ MovesWhereForestMay
  BY OperationsAreForests DEF DocIInv
<1>3. DocIInv => F!IsForest
  BY InvIsForest DEF DocIInv
<1> QED
  BY <1>1, <1>2, <1>3, ConsistentWithFiles, PTL DEF DocSpec, ImplementsForest

\* Of the lists one change away from the saved one, those are accepted that
\* are trees, and no other.
THEOREM ExactlyForests == DocSpec => []AcceptsExactlyForests
<1>1. DocIInv => AcceptsExactlyForests
  <2> SUFFICES ASSUME DocIInv, NEW doc \in EditedDocs PROVE Accepted(doc) <=> DescribesForest(doc)
    BY DEF AcceptsExactlyForests
  <2>1. doc \in Seq(Entries)
    BY FromTreeIs, EditedAreDocs DEF DocIInv, TreeIInv
  <2> QED
    BY <2>1, OnlyForestsAreAccepted
<1> QED
  BY <1>1, ConsistentWithFiles, PTL

------------------------------------------------------------------------------
(* The children a walk gives a folder                                      *)

Listed(w, p) == Linked(Marked(w), p)

LEMMA AppendPutsLast ==
  ASSUME NEW X, NEW s \in Seq(X), NEW x \in X, NEW t,
         t = [i \in 1 .. Len(s) + 1 |-> IF i = Len(s) + 1 THEN x ELSE s[i]]
  PROVE  t = Append(s, x)
<1> DEFINE u == Append(s, x)
<1>1. /\ u \in Seq(X) /\ Len(u) = Len(s) + 1 /\ Len(s) \in Nat
      /\ u[Len(s) + 1] = x /\ \A i \in 1 .. Len(s) : u[i] = s[i]
  BY AppendProperties
<1> HIDE DEF u
<1>2. u = [i \in 1 .. Len(s) + 1 |-> u[i]]
  BY <1>1
<1>3. \A i \in 1 .. Len(s) + 1 : u[i] = IF i = Len(s) + 1 THEN x ELSE s[i]
  BY <1>1
<1>4. t = u
  BY <1>2, <1>3
<1> QED
  BY <1>4 DEF u

LEMMA ListedAppend ==
  ASSUME TreeTypeOK, NEW p
  PROVE  /\ Listed(<<>>, p) = <<>>
         /\ \A w \in Seq(NodeIds) : Listed(w, p) \in Seq(NodeIds)
         /\ \A w \in Seq(NodeIds), n \in NodeIds :
              Listed(Append(w, n), p) = IF parent[n] = p THEN Append(Listed(w, p), n) ELSE Listed(w, p)
<1>1. Listed(<<>>, p) = <<>>
  <2>1. Marked(<<>>) = <<>>
    BY DEF Marked
  <2> QED
    BY <2>1, LinkedNone DEF Listed
<1>2. ASSUME NEW w \in Seq(NodeIds) PROVE Listed(w, p) \in Seq(NodeIds)
  BY MarkedIs, LinkedHolds DEF Listed
<1>3. ASSUME NEW w \in Seq(NodeIds), NEW n \in NodeIds
      PROVE  Listed(Append(w, n), p) = IF parent[n] = p THEN Append(Listed(w, p), n) ELSE Listed(w, p)
  <2> DEFINE longer == Append(w, n)
             doc == Marked(w)
             e == Saved(n)
  <2>1. /\ longer \in Seq(NodeIds) /\ DOMAIN longer = 1 .. Len(w) + 1 /\ Len(w) \in Nat
        /\ DOMAIN w = 1 .. Len(w)
        /\ longer[Len(w) + 1] = n /\ \A i \in 1 .. Len(w) : longer[i] = w[i]
    OBVIOUS
  <2>2. /\ doc \in Seq(Entries) /\ DOMAIN doc = DOMAIN w /\ \A i \in DOMAIN w : doc[i] = Saved(w[i])
    BY MarkedIs
  <2>3. e \in Entries /\ e.id = n /\ e.parent = parent[n]
    BY SavedIs
  <2> HIDE DEF longer, doc, e
  <2>4. Marked(longer) = Append(doc, e)
    <3>1. Len(doc) = Len(w)
      BY <2>1, <2>2
    <3>2. \A i \in 1 .. Len(w) + 1 : Saved(longer[i]) = IF i = Len(w) + 1 THEN e ELSE doc[i]
      BY <2>1, <2>2 DEF e
    <3>3. Marked(longer) = [i \in 1 .. Len(w) + 1 |-> Saved(longer[i])]
      BY <2>1 DEF Marked
    <3>4. Marked(longer) = [i \in 1 .. Len(doc) + 1 |-> IF i = Len(doc) + 1 THEN e ELSE doc[i]]
      BY <3>1, <3>2, <3>3
    <3> QED
      BY <2>2, <2>3, <3>4, AppendPutsLast
  <2>5. Linked(Append(doc, e), p) = IF e.parent = p THEN Append(Linked(doc, p), e.id) ELSE Linked(doc, p)
    BY <2>2, <2>3, LinkedAppend
  <2>6. Listed(longer, p) = IF parent[n] = p THEN Append(Listed(w, p), n) ELSE Listed(w, p)
    BY <2>3, <2>4, <2>5 DEF Listed, doc
  <2> QED
    BY <2>6 DEF longer
<1> QED
  BY <1>1, <1>2, <1>3

LEMMA ListedOne ==
  ASSUME TreeTypeOK, NEW p, NEW n \in NodeIds
  PROVE  Listed(<<n>>, p) = IF parent[n] = p THEN <<n>> ELSE <<>>
<1> DEFINE none == <<>>
           one == <<n>>
<1>1. none \in Seq(NodeIds) /\ Append(none, n) = one
  OBVIOUS
<1>2. Listed(none, p) = none
  BY ListedAppend
<1> HIDE DEF none, one
<1>3. Listed(Append(none, n), p) = IF parent[n] = p THEN Append(Listed(none, p), n) ELSE Listed(none, p)
  BY <1>1, ListedAppend
<1>4. Listed(one, p) = IF parent[n] = p THEN one ELSE none
  BY <1>1, <1>2, <1>3
<1> QED
  BY <1>4 DEF none, one

\* What two lists give a folder comes one after the other.
LEMMA ListedConcat ==
  ASSUME TreeTypeOK, NEW p, NEW w \in Seq(NodeIds)
  PROVE  \A v \in Seq(NodeIds) : Listed(w \o v, p) = Listed(w, p) \o Listed(v, p)
<1> DEFINE A == Seq(NodeIds)
           none == <<>>
           T == {v \in A : Listed(w \o v, p) = Listed(w, p) \o Listed(v, p)}
<1>1. none \in A /\ \A x \in A : x \o none = x
  OBVIOUS
<1>2. \A x, v \in A, n \in NodeIds :
        /\ x \o v \in A /\ Append(v, n) \in A
        /\ x \o Append(v, n) = Append(x \o v, n)
  OBVIOUS
<1>3. /\ Listed(none, p) = none
      /\ \A x \in A : Listed(x, p) \in A
      /\ \A x \in A, n \in NodeIds :
           Listed(Append(x, n), p) = IF parent[n] = p THEN Append(Listed(x, p), n) ELSE Listed(x, p)
  BY ListedAppend
<1>4. w \in A
  OBVIOUS
<1> HIDE DEF A, none
<1>5. none \in T
  BY <1>1, <1>3, <1>4
<1>6. ASSUME NEW v \in A, v \in T, NEW n \in NodeIds PROVE Append(v, n) \in T
  <2>1. Listed(w \o Append(v, n), p) = Listed(Append(w \o v, n), p)
    BY <1>2, <1>4
  <2>2. w \o v \in A /\ Append(v, n) \in A
    BY <1>2, <1>4
  <2>3. Listed(w \o v, p) = Listed(w, p) \o Listed(v, p)
    BY <1>6
  <2>4. CASE parent[n] = p
    <3>1. Listed(w \o Append(v, n), p) = Append(Listed(w, p) \o Listed(v, p), n)
      <4>1. Listed(Append(w \o v, n), p) = Append(Listed(w \o v, p), n)
        BY <1>3, <2>2, <2>4, Zenon
      <4> QED
        BY <2>1, <2>3, <4>1, Zenon
    <3>2. Listed(Append(v, n), p) = Append(Listed(v, p), n)
      BY <1>3, <2>4
    <3>3. Listed(w, p) \in A /\ Listed(v, p) \in A
      BY <1>3, <1>4
    <3>4. Listed(w, p) \o Append(Listed(v, p), n) = Append(Listed(w, p) \o Listed(v, p), n)
      BY <1>2, <3>3
    <3> QED
      BY <2>2, <3>1, <3>2, <3>4, Zenon
  <2>5. CASE parent[n] # p
    <3>1. Listed(w \o Append(v, n), p) = Listed(w, p) \o Listed(v, p)
      <4>1. Listed(Append(w \o v, n), p) = Listed(w \o v, p)
        BY <1>3, <2>2, <2>5, Zenon
      <4> QED
        BY <2>1, <2>3, <4>1, Zenon
    <3>2. Listed(Append(v, n), p) = Listed(v, p)
      BY <1>3, <2>5
    <3> QED
      BY <2>2, <3>1, <3>2, Zenon
  <2> QED
    BY <2>4, <2>5, Zenon
<1> HIDE DEF T
<1>7. \A v \in A : v \in T
  <2>1. \A v \in A : v \in T => \A n \in NodeIds : Append(v, n) \in T
    BY <1>6
  <2> QED
    BY <1>5, <2>1, Lengthening DEF A, none
<1> QED
  BY <1>7 DEF T, A

LEMMA ListedFlatten ==
  ASSUME TreeTypeOK, NEW p
  PROVE  \A ss \in Seq(Seq(NodeIds)) :
           /\ [i \in DOMAIN ss |-> Listed(ss[i], p)] \in Seq(Seq(NodeIds))
           /\ Listed(FlattenSeq(ss), p) = FlattenSeq([i \in DOMAIN ss |-> Listed(ss[i], p)])
<1> DEFINE A == Seq(NodeIds)
           none == <<>>
           each(ss) == [i \in DOMAIN ss |-> Listed(ss[i], p)]
           T == {ss \in Seq(A) : /\ each(ss) \in Seq(A)
                                 /\ Listed(FlattenSeq(ss), p) = FlattenSeq(each(ss))}
<1>1. FlattenSeq(none) = none /\ each(none) = none /\ none \in Seq(A)
  <2>1. FlattenSeq(none) = none
    BY DEF FlattenSeq
  <2> QED
    BY <2>1
<1>2. \A ss \in Seq(A) : FlattenSeq(ss) \in A /\ \A x \in A : FlattenSeq(Append(ss, x)) = FlattenSeq(ss) \o x
  BY FlattenAppend
<1>3. Listed(none, p) = none /\ \A x \in A : Listed(x, p) \in A
  BY ListedAppend
<1>4. \A w, v \in A : Listed(w \o v, p) = Listed(w, p) \o Listed(v, p)
  BY ListedConcat
<1> HIDE DEF A
<1>5. none \in T
  <2> HIDE DEF none, each
  <2> QED
    BY <1>1, <1>3
<1> HIDE DEF none
<1>6. ASSUME NEW ss \in Seq(A), ss \in T, NEW x \in A PROVE Append(ss, x) \in T
  <2> DEFINE longer == Append(ss, x)
  <2>1. /\ longer \in Seq(A) /\ DOMAIN longer = 1 .. Len(ss) + 1 /\ Len(ss) \in Nat
        /\ DOMAIN ss = 1 .. Len(ss)
        /\ longer[Len(ss) + 1] = x /\ \A i \in 1 .. Len(ss) : longer[i] = ss[i]
    OBVIOUS
  <2>2. /\ each(ss) \in Seq(A) /\ DOMAIN each(ss) = DOMAIN ss /\ Len(each(ss)) = Len(ss)
        /\ \A i \in DOMAIN ss : each(ss)[i] = Listed(ss[i], p)
    BY <1>6, <2>1
  <2>3. FlattenSeq(longer) = FlattenSeq(ss) \o x
    BY <1>2
  <2> HIDE DEF longer
  <2>4. each(longer) = Append(each(ss), Listed(x, p))
    <3>1. each(longer) = [i \in 1 .. Len(ss) + 1 |-> Listed(longer[i], p)]
      BY <2>1
    <3> DEFINE v == Listed(x, p)
               a == each(ss)
    <3>2. v \in A
      BY <1>3
    <3>3. \A i \in 1 .. Len(ss) + 1 : Listed(longer[i], p) = IF i = Len(ss) + 1 THEN v ELSE a[i]
      BY <2>1, <2>2
    <3> HIDE DEF v, a, each
    <3>4. a \in Seq(A) /\ Len(a) = Len(ss)
      BY <2>2 DEF a
    <3>5. each(longer) = [i \in 1 .. Len(a) + 1 |-> IF i = Len(a) + 1 THEN v ELSE a[i]]
      BY <3>1, <3>3, <3>4
    <3>6. each(longer) = Append(a, v)
      BY <3>2, <3>4, <3>5, AppendPutsLast
    <3> QED
      BY <3>6 DEF a, v
  <2> HIDE DEF each
  <2>5. FlattenSeq(each(longer)) = FlattenSeq(each(ss)) \o Listed(x, p)
    BY <1>2, <1>3, <2>2, <2>4
  <2>6. Listed(FlattenSeq(longer), p) = Listed(FlattenSeq(ss), p) \o Listed(x, p)
    BY <1>2, <1>4, <2>3
  <2>7. Listed(FlattenSeq(ss), p) = FlattenSeq(each(ss))
    BY <1>6
  <2>8. each(longer) \in Seq(A)
    <3>1. Listed(x, p) \in A
      BY <1>3
    <3> QED
      BY <2>2, <2>4, <3>1
  <2> QED
    BY <2>1, <2>5, <2>6, <2>7, <2>8 DEF longer
<1> HIDE DEF T
<1>7. \A ss \in Seq(A) : ss \in T
  <2>1. \A ss \in Seq(A) : ss \in T => \A x \in A : Append(ss, x) \in T
    BY <1>6
  <2> QED
    BY <1>5, <2>1, Lengthening DEF none
<1> QED
  BY <1>7 DEF T, A

------------------------------------------------------------------------------
(* Singles, and all but one of them empty                                  *)

LEMMA FlattenSingles ==
  ASSUME NEW S
  PROVE  \A s \in Seq(S) : /\ [i \in DOMAIN s |-> <<s[i]>>] \in Seq(Seq(S))
                           /\ FlattenSeq([i \in DOMAIN s |-> <<s[i]>>]) = s
<1> DEFINE A == Seq(S)
           none == <<>>
           each(s) == [i \in DOMAIN s |-> <<s[i]>>]
           T == {s \in A : each(s) \in Seq(A) /\ FlattenSeq(each(s)) = s}
<1>1. FlattenSeq(none) = none /\ each(none) = none /\ none \in Seq(A) /\ none \in A
  <2>1. FlattenSeq(none) = none
    BY DEF FlattenSeq
  <2> QED
    BY <2>1
<1>2. \A ss \in Seq(A) : \A x \in A : FlattenSeq(Append(ss, x)) = FlattenSeq(ss) \o x
  BY FlattenAppend
<1>3. \A x \in S : <<x>> \in A
  OBVIOUS
<1>4. none \in T
  <2> HIDE DEF none, each, A
  <2> QED
    BY <1>1
<1>5. ASSUME NEW s \in A, s \in T, NEW x \in S PROVE Append(s, x) \in T
  <2> DEFINE longer == Append(s, x)
             a == each(s)
             v == <<x>>
  <2>1. /\ longer \in A /\ DOMAIN longer = 1 .. Len(s) + 1 /\ Len(s) \in Nat
        /\ DOMAIN s = 1 .. Len(s) /\ longer = s \o v
        /\ longer[Len(s) + 1] = x /\ \A i \in 1 .. Len(s) : longer[i] = s[i]
    OBVIOUS
  <2> HIDE DEF A
  <2>2. a \in Seq(A) /\ FlattenSeq(a) = s
    BY <1>5
  <2>3. DOMAIN a = DOMAIN s /\ Len(a) = Len(s)
    BY <2>1, <2>2
  <2>4. \A i \in 1 .. Len(s) + 1 : <<longer[i]>> = IF i = Len(s) + 1 THEN v ELSE a[i]
    BY <2>1
  <2>5. each(longer) = [i \in 1 .. Len(s) + 1 |-> <<longer[i]>>]
    BY <2>1
  <2>v. v \in A
    BY <1>3
  <2> HIDE DEF longer, a, v
  <2> HIDE DEF each
  <2>6. each(longer) = [i \in 1 .. Len(a) + 1 |-> IF i = Len(a) + 1 THEN v ELSE a[i]]
    BY <2>3, <2>4, <2>5
  <2>7. each(longer) = Append(a, v)
    BY <2>2, <2>6, <2>v, AppendPutsLast
  <2>8. FlattenSeq(each(longer)) = longer
    BY <1>2, <2>1, <2>2, <2>7, <2>v
  <2>9. each(longer) \in Seq(A)
    BY <2>2, <2>7, <2>v
  <2> QED
    BY <2>1, <2>8, <2>9 DEF longer
<1> HIDE DEF T
<1>6. \A s \in A : s \in T
  <2>1. \A s \in Seq(S) : s \in T => \A x \in S : Append(s, x) \in T
    BY <1>5
  <2>2. <<>> \in T
    BY <1>4
  <2> QED
    BY <2>1, <2>2, Lengthening
<1> QED
  BY <1>6 DEF T, A

LEMMA FlattenOne ==
  ASSUME NEW S
  PROVE  \A ss \in Seq(Seq(S)) :
           /\ (\A i \in DOMAIN ss : ss[i] = <<>>) => FlattenSeq(ss) = <<>>
           /\ \A j \in DOMAIN ss : (\A i \in DOMAIN ss : i # j => ss[i] = <<>>) => FlattenSeq(ss) = ss[j]
<1> DEFINE A == Seq(S)
           none == <<>>
           Empty(ss) == \A i \in DOMAIN ss : ss[i] = none
           But(ss, j) == \A i \in DOMAIN ss : i # j => ss[i] = none
           T == {ss \in Seq(A) : /\ Empty(ss) => FlattenSeq(ss) = none
                                 /\ \A j \in DOMAIN ss : But(ss, j) => FlattenSeq(ss) = ss[j]}
<1>1. FlattenSeq(none) = none /\ none \in Seq(A) /\ DOMAIN none = {}
  <2>1. FlattenSeq(none) = none
    BY DEF FlattenSeq
  <2> QED
    BY <2>1
<1>2. \A ss \in Seq(A) : \A x \in A : FlattenSeq(ss) \in A /\ FlattenSeq(Append(ss, x)) = FlattenSeq(ss) \o x
  BY FlattenAppend
<1>3. \A x \in A : x \o none = x /\ none \o x = x
  OBVIOUS
<1> HIDE DEF A, none
<1>4. none \in T
  BY <1>1
<1>5. ASSUME NEW ss \in Seq(A), ss \in T, NEW x \in A PROVE Append(ss, x) \in T
  <2> DEFINE longer == Append(ss, x)
             n == Len(ss) + 1
  <2>1. /\ longer \in Seq(A) /\ DOMAIN longer = 1 .. n /\ n \in DOMAIN longer
        /\ DOMAIN ss = 1 .. Len(ss) /\ longer[n] = x
        /\ \A i \in DOMAIN ss : longer[i] = ss[i] /\ i \in DOMAIN longer /\ i # n
        /\ \A i \in DOMAIN longer : i # n => i \in DOMAIN ss
    OBVIOUS
  <2>2. FlattenSeq(longer) = FlattenSeq(ss) \o x
    BY <1>2
  <2> HIDE DEF longer, n
  <2>3. Empty(longer) => FlattenSeq(longer) = none
    BY <1>3, <1>5, <2>1, <2>2
  <2>4. ASSUME NEW j \in DOMAIN longer, But(longer, j) PROVE FlattenSeq(longer) = longer[j]
    <3>1. CASE j = n
      <4>1. Empty(ss)
        BY <2>1, <2>4, <3>1
      <4>2. FlattenSeq(ss) = none
        BY <1>5, <4>1
      <4> QED
        BY <1>3, <2>1, <2>2, <3>1, <4>2
    <3>2. CASE j # n
      <4>1. j \in DOMAIN ss /\ But(ss, j) /\ x = none
        BY <2>1, <2>4, <3>2
      <4>2. FlattenSeq(ss) = ss[j] /\ FlattenSeq(ss) \in A
        BY <1>2, <1>5, <4>1
      <4> QED
        BY <1>3, <2>1, <2>2, <4>1, <4>2
    <3> QED
      BY <3>1, <3>2
  <2> QED
    BY <2>1, <2>3, <2>4 DEF longer
<1> HIDE DEF T
<1>6. \A ss \in Seq(A) : ss \in T
  <2>1. \A ss \in Seq(A) : ss \in T => \A x \in A : Append(ss, x) \in T
    BY <1>5
  <2> QED
    BY <1>4, <2>1, Lengthening DEF none
<1> QED
  BY <1>6 DEF T, A, none

------------------------------------------------------------------------------
(* What is below which child                                               *)

LEMMA BelowChildren ==
  ASSUME TreeIInv
  PROVE  /\ Top \notin nodes
         /\ \A c \in nodes : c \in F!Below(c) /\ F!Below(c) \subseteq nodes /\ parent[c] \notin F!Below(c)
         /\ \A n, c \in nodes : parent[c] = n => F!Below(c) \subseteq F!Below(n)
<1>1. Top \notin nodes
  BY TopAssumption DEF TreeIInv, TreeTypeOK
<1>2. ASSUME NEW c \in nodes PROVE c \in F!Below(c) /\ F!Below(c) \subseteq nodes /\ F!Closed(F!Below(c))
  BY BelowIsClosed DEF F!Below
<1>3. ASSUME NEW c \in nodes PROVE parent[c] \notin F!Below(c)
  <2> SUFFICES ASSUME parent[c] \in F!Below(c) PROVE FALSE
    OBVIOUS
  <2>1. \A x \in F!Below(c) : parent[x] \in F!Below(c)
    BY BelowIsHeld
  <2> QED
    BY <1>2, <2>1 DEF TreeIInv, Acyclic
<1>4. ASSUME NEW n \in nodes, NEW c \in nodes, parent[c] = n PROVE F!Below(c) \subseteq F!Below(n)
  <2>1. c \in F!Below(n)
    BY <1>2, <1>4 DEF F!Closed
  <2> QED
    BY <1>2, <2>1 DEF F!Below
<1> QED
  BY <1>1, <1>2, <1>3, <1>4

\* What is below a node is the node, or below one of its children.
LEMMA BelowIsChildren ==
  ASSUME TreeIInv, NEW n \in nodes, NEW x \in F!Below(n), x # n
  PROVE  \E c \in nodes : parent[c] = n /\ x \in F!Below(c)
<1> DEFINE W == {m \in nodes : m = n \/ \E c \in nodes : parent[c] = n /\ m \in F!Below(c)}
<1>1. F!Closed(W)
  <2> SUFFICES ASSUME NEW m \in nodes, parent[m] \in W PROVE m \in W
    BY DEF F!Closed
  <2>1. CASE parent[m] = n
    BY <2>1, BelowChildren
  <2>2. ASSUME NEW c \in nodes, parent[c] = n, parent[m] \in F!Below(c) PROVE m \in W
    <3>1. m \in F!Below(c)
      BY <2>2, BelowIsClosed DEF F!Closed
    <3> QED
      BY <2>2, <3>1
  <2> QED
    BY <2>1, <2>2
<1>2. W \in SUBSET nodes /\ n \in W
  OBVIOUS
<1>3. x \in W
  <2> HIDE DEF W
  <2> QED
    BY <1>1, <1>2 DEF F!Below
<1> QED
  BY <1>3

\* No node is below two siblings.
LEMMA BelowOne ==
  ASSUME TreeIInv, NEW c \in nodes, NEW d \in nodes, parent[c] = parent[d],
         NEW x \in F!Below(c), x \in F!Below(d)
  PROVE  c = d
<1> SUFFICES ASSUME c # d PROVE FALSE
  OBVIOUS
<1> DEFINE W == F!Below(c) \cap F!Below(d)
<1>1. W \in SUBSET nodes /\ W # {}
  BY BelowChildren
<1>2. PICK y \in W : parent[y] \notin W
  BY <1>1 DEF TreeIInv, Acyclic
<1>3. /\ y = c \/ parent[y] \in F!Below(c)
      /\ y = d \/ parent[y] \in F!Below(d)
  BY <1>2, BelowIsHeld
<1>4. CASE y = c
  <2>1. parent[d] \in F!Below(d)
    BY <1>3, <1>4
  <2> QED
    BY <2>1, BelowChildren
<1>5. CASE y = d
  <2>1. parent[c] \in F!Below(c)
    BY <1>3, <1>5
  <2> QED
    BY <2>1, BelowChildren
<1> QED
  BY <1>2, <1>3, <1>4, <1>5

\* Every node is below one at the top level.
LEMMA BelowTop ==
  ASSUME TreeIInv, NEW x \in nodes
  PROVE  \E c \in nodes : parent[c] = Top /\ x \in F!Below(c)
<1> DEFINE W == {m \in nodes : ~ \E c \in nodes : parent[c] = Top /\ m \in F!Below(c)}
<1> SUFFICES ASSUME W # {} PROVE FALSE
  OBVIOUS
<1>1. PICK y \in W : parent[y] \notin W
  BY DEF TreeIInv, Acyclic
<1>2. parent[y] # Top
  BY BelowChildren
<1>3. parent[y] \in nodes
  BY <1>2 DEF TreeIInv, TreeTypeOK, HeldByFolders
<1>4. PICK c \in nodes : parent[c] = Top /\ parent[y] \in F!Below(c)
  BY <1>1, <1>3
<1>5. y \in F!Below(c)
  BY <1>4, BelowIsClosed DEF F!Closed
<1> QED
  BY <1>4, <1>5

------------------------------------------------------------------------------
(* A walk lists the children as they are listed                            *)

\* What the subtree of c gives p: p's children, where p is in it.
Part(c, p) == IF p \in F!Below(c) THEN children[p] ELSE <<>>
Here(q, c, p) == IF q = p THEN <<c>> ELSE <<>>

\* A list made of the subtrees of all of q's children.
LEMMA SpreadLists ==
  ASSUME TreeIInv, NEW q \in nodes \cup {Top}, NEW p \in Owners,
         NEW t \in [NodeIds -> Seq(NodeIds)],
         \A c \in nodes : parent[c] = q => Listed(t[c], p) = Here(q, c, p) \o Part(c, p)
  PROVE  /\ p = q => Listed(Spread(t, q), p) = children[q]
         /\ p # q => Listed(Spread(t, q), p) = IF \E c \in nodes : parent[c] = q /\ p \in F!Below(c)
                                               THEN children[p] ELSE <<>>
<1> DEFINE A == Seq(NodeIds)
           none == <<>>
           list == children[q]
           ss == [i \in DOMAIN list |-> t[list[i]]]
           each == [i \in DOMAIN ss |-> Listed(ss[i], p)]
<1>0. TreeTypeOK /\ q \in Owners
  BY DEF TreeIInv, TreeTypeOK, Owners
<1>1. list \in A /\ children[p] \in A /\ none \in A
  BY <1>0 DEF TreeTypeOK
<1>2. \A c \in NodeIds : c \in ToSet(list) <=> c \in nodes /\ parent[c] = q
  BY <1>0 DEF TreeIInv, ListsAgree
<1>3. \A i \in DOMAIN list : list[i] \in nodes /\ parent[list[i]] = q
  <2> TAKE i \in DOMAIN list
  <2>1. list[i] \in ToSet(list) /\ list[i] \in NodeIds
    BY <1>1 DEF ToSet
  <2> QED
    BY <1>2, <2>1
<1>4. \A i, j \in DOMAIN list : list[i] = list[j] => i = j
  BY <1>0 DEF TreeIInv, ListedOnce
<1>5. ss \in Seq(A) /\ Spread(t, q) = FlattenSeq(ss)
  BY <1>0, SpreadIs DEF Spread
<1>6. each \in Seq(A) /\ Listed(Spread(t, q), p) = FlattenSeq(each)
  <2> HIDE DEF ss
  <2> QED
    BY <1>0, <1>5, ListedFlatten
<1>7. DOMAIN each = DOMAIN list /\ \A i \in DOMAIN list : each[i] = Here(q, list[i], p) \o Part(list[i], p)
  BY <1>3
<1> HIDE DEF ss, each, A, list
<1>8. \A x \in A : none \o x = x /\ x \o none = x
  BY DEF A
<1>9. \A n \in NodeIds : <<n>> \in A
  BY DEF A
<1>10. nodes \subseteq NodeIds
  BY <1>0 DEF TreeTypeOK
<1>11. CASE p = q
  <2>1. ASSUME NEW i \in DOMAIN list PROVE each[i] = <<list[i]>>
    <3>1. Here(q, list[i], p) = <<list[i]>>
      BY <1>11 DEF Here
    <3>2. p \notin F!Below(list[i])
      BY <1>3, <1>11, BelowChildren
    <3>3. Part(list[i], p) = none
      BY <3>2 DEF Part
    <3>4. <<list[i]>> \in A
      BY <1>3, <1>9, <1>10
    <3> HIDE DEF none
    <3> QED
      BY <1>7, <1>8, <3>1, <3>3, <3>4
  <2>2. each = [i \in DOMAIN list |-> <<list[i]>>]
    <3>1. each = [i \in DOMAIN each |-> each[i]]
      BY <1>6 DEF A
    <3> QED
      BY <1>7, <2>1, <3>1
  <2>3. FlattenSeq([i \in DOMAIN list |-> <<list[i]>>]) = list
    BY <1>1, FlattenSingles DEF A
  <2> QED
    BY <1>6, <1>11, <2>2, <2>3 DEF list
<1>12. CASE p # q
  <2>1. ASSUME NEW i \in DOMAIN list
        PROVE  each[i] = IF p \in F!Below(list[i]) THEN children[p] ELSE none
    <3>1. Here(q, list[i], p) = none
      BY <1>12 DEF Here
    <3>2. Part(list[i], p) \in A /\ Part(list[i], p) = IF p \in F!Below(list[i]) THEN children[p] ELSE none
      BY <1>1 DEF Part
    <3> HIDE DEF none
    <3> QED
      BY <1>7, <1>8, <3>1, <3>2
  <2>2. /\ (\A i \in DOMAIN each : each[i] = none) => FlattenSeq(each) = none
        /\ \A j \in DOMAIN each : (\A i \in DOMAIN each : i # j => each[i] = none) => FlattenSeq(each) = each[j]
    BY <1>6, FlattenOne DEF A
  <2> HIDE DEF none
  <2>3. CASE \E c \in nodes : parent[c] = q /\ p \in F!Below(c)
    <3>1. PICK c \in nodes : parent[c] = q /\ p \in F!Below(c)
      BY <2>3
    <3>2. PICK j \in DOMAIN list : list[j] = c
      <4>1. c \in ToSet(list)
        BY <1>2, <1>10, <3>1
      <4> QED
        BY <4>1 DEF ToSet
    <3>3. ASSUME NEW i \in DOMAIN list, i # j PROVE each[i] = none
      <4>1. list[i] # c
        BY <1>4, <3>2, <3>3
      <4>2. p \notin F!Below(list[i])
        BY <1>3, <3>1, <4>1, BelowOne
      <4> QED
        BY <2>1, <4>2
    <3>4. FlattenSeq(each) = each[j]
      BY <1>7, <2>2, <3>3
    <3>5. each[j] = children[p]
      BY <2>1, <3>1, <3>2
    <3> QED
      BY <1>6, <1>12, <2>3, <3>4, <3>5
  <2>4. CASE ~ \E c \in nodes : parent[c] = q /\ p \in F!Below(c)
    <3>1. \A i \in DOMAIN each : each[i] = none
      BY <1>3, <1>7, <2>1, <2>4
    <3> QED
      BY <1>6, <1>12, <2>2, <2>4, <3>1 DEF none
  <2> QED
    BY <2>3, <2>4
<1> QED
  BY <1>11, <1>12

\* As deep as there are nodes below it, a node's subtree has everything.
LEMMA SubtreeLists ==
  ASSUME DocIInv, NEW p \in Owners
  PROVE  \A d \in Nat : \A n \in nodes :
           Cardinality(F!Below(n)) <= d => Listed(Subtrees[d][n], p) = Here(parent[n], n, p) \o Part(n, p)
<1> DEFINE T == {d \in Nat : \A n \in nodes :
                   Cardinality(F!Below(n)) <= d
                     => Listed(Subtrees[d][n], p) = Here(parent[n], n, p) \o Part(n, p)}
<1>0. TreeIInv /\ TreeTypeOK /\ IsFiniteSet(nodes) /\ nodes \subseteq NodeIds
  BY DEF DocIInv, TreeIInv, TreeTypeOK
<1>1. ASSUME NEW n \in nodes
      PROVE  IsFiniteSet(F!Below(n)) /\ Cardinality(F!Below(n)) \in Nat /\ Cardinality(F!Below(n)) > 0
  <2>1. F!Below(n) \in SUBSET nodes /\ F!Below(n) # {}
    BY <1>0, BelowChildren
  <2>2. IsFiniteSet(F!Below(n))
    BY <1>0, <2>1, FS_Subset
  <2>3. Cardinality(F!Below(n)) # 0
    BY <2>1, <2>2, FS_EmptySet
  <2> QED
    BY <2>2, <2>3, FS_CardinalityType
<1>2. 0 \in T
  BY <1>1
<1>3. ASSUME NEW d \in Nat, d \in T PROVE d + 1 \in T
  <2> SUFFICES ASSUME NEW n \in nodes, Cardinality(F!Below(n)) <= d + 1
               PROVE  Listed(Subtrees[d + 1][n], p) = Here(parent[n], n, p) \o Part(n, p)
    OBVIOUS
  <2>1. ASSUME NEW c \in nodes, parent[c] = n
        PROVE  Listed(Subtrees[d][c], p) = Here(n, c, p) \o Part(c, p)
    <3>1. F!Below(c) \in SUBSET F!Below(n) /\ n \in F!Below(n) /\ n \notin F!Below(c)
      BY <1>0, <2>1, BelowChildren
    <3>2. Cardinality(F!Below(c)) <= Cardinality(F!Below(n)) /\ Cardinality(F!Below(c)) # Cardinality(F!Below(n))
      BY <1>1, <3>1, FS_Subset
    <3>3. Cardinality(F!Below(c)) <= d
      BY <1>1, <3>2
    <3> QED
      BY <1>3, <2>1, <3>3
  <2> HIDE DEF T
  <2>2. /\ Subtrees[d] \in [NodeIds -> Seq(NodeIds)]
        /\ Subtrees[d + 1][n] = <<n>> \o Spread(Subtrees[d], n)
    BY <1>0, SubtreesAre
  <2>3. Listed(Spread(Subtrees[d], n), p) = Part(n, p)
    <3>1. /\ p = n => Listed(Spread(Subtrees[d], n), p) = children[n]
          /\ p # n => Listed(Spread(Subtrees[d], n), p)
                        = IF \E c \in nodes : parent[c] = n /\ p \in F!Below(c) THEN children[p] ELSE <<>>
      BY <1>0, <2>1, <2>2, SpreadLists
    <3>2. CASE p = n
      <4>1. p \in F!Below(n)
        BY <1>0, <3>2, BelowChildren
      <4> QED
        BY <3>1, <3>2, <4>1 DEF Part
    <3>3. CASE p # n
      <4>1. p \in F!Below(n) <=> \E c \in nodes : parent[c] = n /\ p \in F!Below(c)
        BY <1>0, <3>3, BelowIsChildren, BelowChildren
      <4> QED
        BY <3>1, <3>3, <4>1 DEF Part
    <3> QED
      BY <3>2, <3>3
  <2>4. Listed(<<n>>, p) = Here(parent[n], n, p)
    BY <1>0, ListedOne DEF Here
  <2>5. <<n>> \in Seq(NodeIds) /\ Spread(Subtrees[d], n) \in Seq(NodeIds)
    <3>1. n \in NodeIds /\ n \in Owners
      BY <1>0 DEF Owners
    <3>2. Spread(Subtrees[d], n) \in Seq(NodeIds)
      BY <1>0, <2>2, <3>1, SpreadIs
    <3>3. <<n>> \in Seq(NodeIds)
      BY <3>1
    <3> QED
      BY <3>2, <3>3
  <2> DEFINE one == <<n>>
             rest == Spread(Subtrees[d], n)
  <2> HIDE DEF one, rest
  <2>6. Listed(one \o rest, p) = Listed(one, p) \o Listed(rest, p)
    BY <1>0, <2>5, ListedConcat DEF one, rest
  <2> QED
    BY <2>2, <2>3, <2>4, <2>6 DEF one, rest
<1> HIDE DEF T
<1>4. \A d \in Nat : d \in T
  BY <1>2, <1>3, Counting
<1> QED
  BY <1>4 DEF T

\* So the walk lists every owner's children, all of them and in their order.
LEMMA WalkLists ==
  ASSUME DocIInv, NEW p \in Owners
  PROVE  Listed(Walk, p) = children[p]
<1> DEFINE t == Subtrees[Cardinality(nodes)]
<1>0. TreeIInv /\ TreeTypeOK /\ IsFiniteSet(nodes) /\ Cardinality(nodes) \in Nat
  BY FS_CardinalityType DEF DocIInv, TreeIInv
<1>1. t \in [NodeIds -> Seq(NodeIds)] /\ Walk = Spread(t, Top)
  BY <1>0, SubtreesAre DEF Walk, Spread
<1>2. ASSUME NEW c \in nodes, parent[c] = Top PROVE Listed(t[c], p) = Here(Top, c, p) \o Part(c, p)
  <2>1. F!Below(c) \in SUBSET nodes
    BY <1>0, BelowChildren
  <2>2. Cardinality(F!Below(c)) <= Cardinality(nodes)
    BY <1>0, <2>1, FS_Subset
  <2> QED
    BY <1>0, <1>2, <2>2, SubtreeLists
<1> HIDE DEF t
<1>3. /\ p = Top => Listed(Spread(t, Top), p) = children[Top]
      /\ p # Top => Listed(Spread(t, Top), p)
                      = IF \E c \in nodes : parent[c] = Top /\ p \in F!Below(c) THEN children[p] ELSE <<>>
  BY <1>0, <1>1, <1>2, SpreadLists
<1>4. CASE p = Top
  BY <1>1, <1>3, <1>4
<1>5. CASE p \in nodes
  <2>1. p # Top /\ \E c \in nodes : parent[c] = Top /\ p \in F!Below(c)
    BY <1>0, <1>5, BelowTop, BelowChildren
  <2> QED
    BY <1>1, <1>3, <2>1
<1>6. CASE p # Top /\ p \notin nodes
  <2>1. ~ \E c \in nodes : parent[c] = Top /\ p \in F!Below(c)
    BY <1>0, <1>6, BelowChildren
  <2>2. children[p] = <<>>
    <3>1. children[p] \in Seq(NodeIds)
      BY <1>0 DEF TreeTypeOK
    <3>2. \A c \in NodeIds : c \notin ToSet(children[p])
      BY <1>6 DEF DocIInv, TreeIInv, TreeTypeOK, ListsAgree, HeldByFolders
    <3>3. ToSet(children[p]) = {}
      <4>1. ToSet(children[p]) \subseteq NodeIds
        BY <3>1 DEF ToSet
      <4> QED
        BY <3>2, <4>1
    <3> DEFINE list == children[p]
    <3>4. \A i \in 1 .. Len(list) : list[i] \in ToSet(list)
      BY <3>1 DEF ToSet
    <3>5. list \in Seq(NodeIds) /\ ToSet(list) = {}
      BY <3>1, <3>3
    <3> HIDE DEF list
    <3>6. Len(list) = 0
      <4>1. Len(list) \in Nat /\ (Len(list) > 0 => 1 \in 1 .. Len(list))
        BY <3>5
      <4> QED
        BY <3>4, <3>5, <4>1
    <3>7. list = <<>>
      BY <3>5, <3>6
    <3> QED
      BY <3>7 DEF list
  <2> QED
    BY <1>1, <1>3, <1>6, <2>1, <2>2
<1> QED
  BY <1>4, <1>5, <1>6

------------------------------------------------------------------------------
(* What is saved is what is loaded                                         *)

\* What a list gives to owners, it holds; and holds once, if it gives it once.
LEMMA ListedHolds ==
  ASSUME TreeTypeOK, NEW p
  PROVE  \A w \in Seq(NodeIds) : ToSet(Listed(w, p)) = {n \in ToSet(w) : parent[n] = p}
<1> SUFFICES ASSUME NEW w \in Seq(NodeIds) PROVE ToSet(Listed(w, p)) = {n \in ToSet(w) : parent[n] = p}
  OBVIOUS
<1>1. /\ Marked(w) \in Seq(Entries) /\ DOMAIN Marked(w) = DOMAIN w
      /\ \A i \in DOMAIN w : Marked(w)[i] = Saved(w[i])
  BY MarkedIs
<1>2. ToSet(Listed(w, p)) = {e.id : e \in {d \in ToSet(Marked(w)) : d.parent = p}}
  BY <1>1, LinkedHolds DEF Listed
<1>3. ToSet(Marked(w)) = {Saved(n) : n \in ToSet(w)}
  BY <1>1 DEF ToSet
<1>4. \A n \in ToSet(w) : Saved(n).id = n /\ Saved(n).parent = parent[n]
  <2>1. \A n \in ToSet(w) : n \in NodeIds
    BY DEF ToSet
  <2> QED
    BY <2>1, SavedIs
<1> QED
  BY <1>2, <1>3, <1>4

LEMMA ListedOnceIsOnce ==
  ASSUME TreeTypeOK
  PROVE  \A w \in Seq(NodeIds) : (\A p \in Owners : OnceIn(Listed(w, p))) => OnceIn(w)
<1> DEFINE Each(w) == \A p \in Owners : OnceIn(Listed(w, p))
           T == {w \in Seq(NodeIds) : Each(w) => OnceIn(w)}
<1>1. <<>> \in T
  BY DEF OnceIn
<1>2. ASSUME NEW w \in Seq(NodeIds), w \in T, NEW n \in NodeIds PROVE Append(w, n) \in T
  <2> DEFINE longer == Append(w, n)
             q == parent[n]
             old == Listed(w, q)
  <2>1. longer \in Seq(NodeIds)
    OBVIOUS
  <2>2. q \in Owners
    BY DEF TreeTypeOK
  <2>3. \A p : Listed(longer, p) = IF q = p THEN Append(Listed(w, p), n) ELSE Listed(w, p)
    BY ListedAppend
  <2>4. \A p : Listed(w, p) \in Seq(NodeIds)
    BY ListedAppend
  <2>5. ToSet(old) = {m \in ToSet(w) : parent[m] = q}
    BY ListedHolds
  <2> HIDE DEF longer, q, old
  <2> SUFFICES ASSUME Each(longer) PROVE OnceIn(longer)
    BY <2>1 DEF longer
  <2>6. OnceIn(Append(old, n))
    BY <2>2, <2>3 DEF old
  <2>7. OnceIn(old) /\ n \notin ToSet(old)
    <3> DEFINE u == Append(old, n)
    <3>1. old \in Seq(NodeIds)
      BY <2>4 DEF old
    <3>2. /\ DOMAIN u = 1 .. Len(old) + 1 /\ Len(old) \in Nat /\ DOMAIN old = 1 .. Len(old)
          /\ u[Len(old) + 1] = n /\ \A i \in 1 .. Len(old) : u[i] = old[i]
      BY <3>1, AppendProperties
    <3> HIDE DEF u
    <3>3. \A i, j \in DOMAIN u : u[i] = u[j] => i = j
      BY <2>6 DEF u, OnceIn
    <3>4. \A i \in DOMAIN old : i \in DOMAIN u /\ Len(old) + 1 \in DOMAIN u /\ i # Len(old) + 1
      BY <3>2
    <3> QED
      BY <3>2, <3>3, <3>4 DEF OnceIn, ToSet
  <2>8. Each(w)
    <3> SUFFICES ASSUME NEW p \in Owners PROVE OnceIn(Listed(w, p))
      OBVIOUS
    <3>1. CASE p = q
      BY <2>7, <3>1 DEF old
    <3>2. CASE p # q
      BY <2>3, <3>2
    <3> QED
      BY <3>1, <3>2
  <2>9. OnceIn(w)
    BY <1>2, <2>8
  <2>10. n \notin ToSet(w)
    BY <2>5, <2>7 DEF q
  <2> QED
    BY <2>9, <2>10, AppendIs DEF longer
<1> HIDE DEF T
<1>3. \A w \in Seq(NodeIds) : w \in T
  <2>1. \A w \in Seq(NodeIds) : w \in T => \A n \in NodeIds : Append(w, n) \in T
    BY <1>2
  <2> QED
    BY <1>1, <2>1, Lengthening
<1> QED
  BY <1>3 DEF T

\* The walk meets every node, and each once.
LEMMA WalkIs ==
  ASSUME DocIInv
  PROVE  Walk \in Seq(NodeIds) /\ OnceIn(Walk) /\ ToSet(Walk) = nodes
<1>0. TreeIInv /\ TreeTypeOK /\ IsFiniteSet(nodes)
  BY DEF DocIInv, TreeIInv
<1>1. Walk \in Seq(NodeIds)
  BY <1>0, FromTreeIs
<1>2. \A p \in Owners : OnceIn(Listed(Walk, p))
  BY <1>0, WalkLists DEF TreeIInv, ListedOnce, OnceIn
<1>3. OnceIn(Walk)
  BY <1>0, <1>1, <1>2, ListedOnceIsOnce
<1>4. ASSUME NEW n \in NodeIds PROVE n \in ToSet(Walk) <=> n \in nodes
  <2>1. parent[n] \in Owners
    BY <1>0 DEF TreeTypeOK
  <2>2. n \in ToSet(children[parent[n]]) <=> n \in nodes
    BY <1>0, <2>1 DEF TreeIInv, ListsAgree
  <2>3. ToSet(Listed(Walk, parent[n])) = {m \in ToSet(Walk) : parent[m] = parent[n]}
    BY <1>0, <1>1, ListedHolds
  <2>4. Listed(Walk, parent[n]) = children[parent[n]]
    BY <2>1, WalkLists
  <2> QED
    BY <2>2, <2>3, <2>4
<1>5. ToSet(Walk) \subseteq NodeIds /\ nodes \subseteq NodeIds
  BY <1>0, <1>1 DEF ToSet, TreeTypeOK
<1> QED
  BY <1>1, <1>3, <1>4, <1>5

LEMMA SavedIsLoaded ==
  ASSUME DocIInv
  PROVE  RoundTrip
<1> DEFINE doc == FromTree
<1>0. /\ TreeIInv /\ TreeTypeOK /\ IsFiniteSet(nodes) /\ nodes \subseteq NodeIds /\ folders \subseteq nodes
  BY DEF DocIInv, TreeIInv, TreeTypeOK
<1>1. Walk \in Seq(NodeIds) /\ OnceIn(Walk) /\ ToSet(Walk) = nodes
  BY WalkIs
<1>2. doc = Marked(Walk) /\ doc \in Seq(Entries)
  BY <1>0, FromTreeIs
<1>3. DOMAIN doc = DOMAIN Walk /\ \A i \in DOMAIN Walk : doc[i] = Saved(Walk[i])
  BY <1>0, <1>1, <1>2, MarkedIs
<1>4. \A i \in DOMAIN Walk : Walk[i] \in nodes
  BY <1>1 DEF ToSet
<1>5. \A n \in nodes : /\ Saved(n) \in Entries /\ Saved(n).id = n /\ Saved(n).parent = parent[n]
                       /\ Saved(n).kind = IF n \in folders THEN "folder" ELSE "session"
  BY <1>0, SavedIs
<1> HIDE DEF doc
<1>6. ToSet(doc) = {Saved(n) : n \in nodes}
  BY <1>1, <1>3 DEF ToSet
<1>7. Ids(doc) = nodes
  <2>1. Ids(doc) = {Saved(Walk[i]).id : i \in DOMAIN Walk}
    BY <1>3 DEF Ids
  <2>2. Ids(doc) = {Walk[i] : i \in DOMAIN Walk}
    BY <1>4, <1>5, <2>1
  <2> QED
    BY <1>1, <2>2 DEF ToSet
<1>8. FoldersIn(doc) = folders
  BY <1>0, <1>5, <1>6 DEF FoldersIn
<1>9. NodesAreClear(doc)
  <2>1. \A i, j \in DOMAIN doc : doc[i].id = doc[j].id => i = j
    BY <1>1, <1>3, <1>4, <1>5 DEF OnceIn
  <2>2. \A i \in DOMAIN doc : doc[i].kind \in {"folder", "session"}
    BY <1>3, <1>4, <1>5
  <2> QED
    BY <2>1, <2>2 DEF NodesAreClear
<1>10. ParentsAreFolders(doc)
  BY <1>0, <1>3, <1>4, <1>5, <1>8 DEF ParentsAreFolders, TreeIInv, HeldByFolders
<1>11. NoCircle(doc)
  <2> SUFFICES ASSUME NEW S \in SUBSET nodes, S # {}
               PROVE  \E e \in ToSet(doc) : e.id \in S /\ e.parent \notin S
    BY <1>7 DEF NoCircle
  <2>1. PICK n \in S : parent[n] \notin S
    BY <1>0 DEF TreeIInv, Acyclic
  <2>2. Saved(n) \in ToSet(doc)
    BY <1>6
  <2> QED
    BY <1>5, <2>1, <2>2
<1>12. Accepted(doc)
  BY <1>2, <1>9, <1>10, <1>11, CirclesAreFound DEF Accepted
<1>13. \A n \in nodes : ParentIn(doc, n) = parent[n]
  <2> TAKE n \in nodes
  <2>1. Saved(n) \in ToSet(doc)
    BY <1>6
  <2>2. ParentIn(doc, Saved(n).id) = Saved(n).parent
    BY <1>2, <1>9, <2>1, ParentOf
  <2> QED
    BY <1>5, <2>2
<1>14. \A n \in NodeIds \ nodes : parent[n] = Top
  BY DEF DocIInv
<1>15. [n \in NodeIds |-> IF n \in Ids(doc) THEN ParentIn(doc, n) ELSE Top] = parent
  BY <1>0, <1>7, <1>13, <1>14 DEF TreeTypeOK
<1>16. [p \in Owners |-> Linked(doc, p)] = children
  <2>1. \A p \in Owners : Linked(doc, p) = children[p]
    BY <1>2, WalkLists DEF Listed
  <2> QED
    BY <1>0, <2>1 DEF TreeTypeOK
<1>17. IntoTree(doc) = [nodes |-> nodes, folders |-> folders, parent |-> parent, children |-> children]
  BY <1>7, <1>8, <1>15, <1>16 DEF IntoTree
<1> QED
  BY <1>12, <1>17 DEF RoundTrip, doc

\* What is saved is what is loaded: from_tree writes something into_tree accepts,
\* and it comes back with the same nodes, kinds, parents and order of siblings,
\* whatever was added, removed, moved and loaded before, however deep the tree.
THEOREM SavedAndLoaded == DocSpec => []RoundTrip
BY SavedIsLoaded, ConsistentWithFiles, PTL

------------------------------------------------------------------------------
(* The store (DocumentStore), for any number of running instances: until   *)
(* two saves overlap, the document is a whole text and no two calls hold   *)
(* one file that they write; the invariant holds of every state, and what  *)
(* it says of each call does not speak of the others.                      *)

\* Documents are told apart from what is not one, and by what they say.
LEMMA Distinct ==
  ASSUME NEW v, NEW t
  PROVE  /\ Document(v, t) # Missing
         /\ Document(v, t) # Malformed
         /\ Missing # Malformed
  BY SMT DEF Document, Missing, Malformed

\* A text written in all its parts reads as itself.
LEMMA WrittenIsRead ==
  ASSUME NEW d, d # Missing
  PROVE  Readable(Written(d)) /\ ReadAs(Written(d)) = d
  BY SMT DEF Readable, ReadAs, Written, Parts

\* A call is made of its parts.
LEMMA CallIsCall ==
  ASSUME NEW at \in Steps, NEW file \in MaybeFiles, NEW n \in 0 .. 2, NEW d \in AllDocuments
  PROVE  /\ Call(at, file, n, d) \in Calls
         /\ Call(at, file, n, d).at = at /\ Call(at, file, n, d).file = file
         /\ Call(at, file, n, d).parts = n /\ Call(at, file, n, d).saving = d
  BY SMT DEF Calls, Call

\* Between two calls nothing is known, and nothing written.
LEMMA BetweenIsCall ==
  ASSUME NEW at \in Steps \ (Saving \cup {"copied"})
  PROVE  /\ Between(at) \in Calls /\ Between(at).at = at
         /\ KnowsItsFile(Between(at))' /\ WritesItsOwn(Between(at))'
  <1>1. Between(at) \in Calls /\ Between(at).at = at
    BY CallIsCall DEF Between, MaybeFiles, AllDocuments
  <1>2. Between(at).at \notin Saving /\ Between(at).at # "copied"
    BY <1>1
  <1> QED
    BY <1>1, <1>2 DEF KnowsItsFile, WritesItsOwn, Saving

-------------------------------------------------------------------------------
(* What every step keeps, however many instances there are                     *)

\* What every step keeps of the disk.
DiskIsSound ==
  /\ names \in namings
  /\ namings \subseteq [Names -> MaybeFiles]
  /\ content \in [Files -> [Parts -> AllDocuments]]
  /\ unsynced \subseteq Files
  /\ TextsAreOurs
  /\ BackUpIsApart

\* What every step keeps of the rest, calls apart.
RestIsSound ==
  /\ loaded \in [Instances -> {"none", "ok", "failed"}]
  /\ original \in Originals
  /\ {blind, overlapped, disturbed} \subseteq BOOLEAN
  /\ saves \in Nat /\ crashes \in Nat /\ cuts \in Nat

LEMMA IInvIs ==
  IInv <=> /\ DiskIsSound /\ RestIsSound
           /\ call \in [Instances -> Calls] /\ CallsKnowTheirFiles
  BY DEF IInv, TypeOK, DiskIsSound, RestIsSound

\* The names, one by one.
LEMMA NamesAre ==
  ASSUME DiskIsSound
  PROVE  /\ names \in [Names -> MaybeFiles]
         /\ \A naming \in namings, n \in {"document", "temporary", "backup"} :
              naming[n] \in Files \cup {Nobody}
  BY DEF DiskIsSound, Names, MaybeFiles

\* What every step begins with.
LEMMA InitIInv == Init => IInv
  <1> SUFFICES ASSUME Init PROVE IInv
    OBVIOUS
  <1>1. PICK f \in Files :
          /\ names = [NoNames EXCEPT !["document"] = IF original = Missing THEN Nobody ELSE f]
          /\ content = [g \in Files |-> IF g = f THEN Written(original) ELSE Blank]
    BY DEF Init
  <1>2. original \in Originals /\ original \in AllDocuments /\ Missing \in AllDocuments
    BY DEF Init, AllDocuments
  <1>3. names \in [Names -> MaybeFiles]
    BY <1>1 DEF NoNames, MaybeFiles
  <1>4. content \in [Files -> [Parts -> AllDocuments]] /\ TextsAreOurs
    BY <1>1, <1>2 DEF Written, Blank, TextsAreOurs
  <1>5. BackUpIsApart
    BY <1>1 DEF Init, BackUpIsApart, NoNames, Names
  <1>6. DiskIsSound
    BY <1>3, <1>4, <1>5 DEF Init, DiskIsSound
  <1>7. RestIsSound
    BY <1>2 DEF Init, RestIsSound
  <1>8. Between("off") \in Calls /\ Between("off").at = "off"
    BY BetweenIsCall DEF Steps, Saving, Working, Copying
  <1>9. call \in [Instances -> Calls] /\ CallsKnowTheirFiles
    BY <1>8 DEF Init, CallsKnowTheirFiles, KnowsItsFile, Saving
  <1> QED
    BY <1>6, <1>7, <1>9 DEF IInv, TypeOK, DiskIsSound, RestIsSound

\* One call moves, and the others still know their files: the backup's name is
\* never taken from its file, and the disk remembers every naming.
LEMMA OthersKnow ==
  ASSUME IInv, NEW i \in Instances, NEW c \in Calls, Goes(i, c), KnowsItsFile(c)',
         namings \subseteq namings',
         names'["backup"] = names["backup"] \/ names["backup"] = Nobody
  PROVE  /\ call' \in [Instances -> Calls] /\ CallsKnowTheirFiles'
         /\ {overlapped', disturbed'} \subseteq BOOLEAN
  <1>1. call \in [Instances -> Calls] /\ call' = [call EXCEPT ![i] = c]
    BY DEF Goes, IInv, TypeOK
  <1>2. ASSUME NEW j \in Instances, NEW d, d = call'[j] PROVE KnowsItsFile(d)'
    <2>1. CASE j = i
      BY <2>1, <1>1, <1>2
    <2>2. CASE j # i
      <3>1. d = call[j] /\ KnowsItsFile(d)
        BY <2>2, <1>1, <1>2 DEF IInv, CallsKnowTheirFiles
      <3>2. d.at = "copied" => d.file = names'["backup"]
        BY <3>1, FilesAssumption DEF KnowsItsFile
      <3>3. (\E naming \in namings : d.file \in {naming["temporary"], naming["document"]})
              => \E naming \in namings' : d.file \in {naming["temporary"], naming["document"]}
        OBVIOUS
      <3>4. Savable' = Savable
        BY DEF Savable
      <3> QED
        BY <3>1, <3>2, <3>3, <3>4 DEF KnowsItsFile
    <2> QED
      BY <2>1, <2>2
  <1>3. {overlapped', disturbed'} \subseteq BOOLEAN
    BY DEF Goes
  <1> QED
    BY <1>1, <1>2, <1>3 DEF CallsKnowTheirFiles

\* Most steps leave the counters and what is remembered alone.
LEMMA Rest ==
  ASSUME IInv, UNCHANGED <<history, counters>>, {overlapped', disturbed'} \subseteq BOOLEAN,
         loaded' \in [Instances -> {"none", "ok", "failed"}]
  PROVE  RestIsSound'
  BY DEF IInv, TypeOK, RestIsSound, history, counters

\* A name is given to an unused file, or taken away, or goes from the temporary
\* file to the document: the backup stays apart.
LEMMA NamingKeepsApart ==
  ASSUME DiskIsSound, NEW new \in [Names -> MaybeFiles], Rename(new),
         \/ /\ new["backup"] = names["backup"]
            /\ {new["temporary"], new["document"]}
                 \subseteq {names["temporary"], names["document"], Nobody} \cup Unused
         \/ /\ new["backup"] \in Unused
            /\ {new["temporary"], new["document"]} \subseteq {names["temporary"], names["document"]}
  PROVE  /\ names' \in namings' /\ namings' \subseteq [Names -> MaybeFiles]
         /\ namings \subseteq namings'
         /\ BackUpIsApart'
  <1>1. names' = new /\ namings' = namings \cup {new} /\ names \in namings
    BY DEF Rename, DiskIsSound
  <1>2. \A naming \in namings : naming["backup"] # Nobody =>
          naming["backup"] \notin {new["temporary"], new["document"]}
    BY <1>1 DEF DiskIsSound, BackUpIsApart, Unused, Names
  <1>3. new["backup"] # Nobody => \A naming \in namings :
          new["backup"] \notin {naming["temporary"], naming["document"]}
    BY <1>1 DEF DiskIsSound, BackUpIsApart, Unused, Names
  <1>4. new["backup"] # Nobody => new["backup"] \notin {new["temporary"], new["document"]}
    BY <1>1, <1>2, <1>3 DEF DiskIsSound, BackUpIsApart, Unused, Names
  <1> QED
    BY <1>1, <1>2, <1>3, <1>4 DEF BackUpIsApart, DiskIsSound

\* Emptying the backup or the temporary file, or making it.
LEMMA CreateKeeps ==
  ASSUME DiskIsSound, NEW n \in {"temporary", "backup"}, NEW file \in Files, Create(n, file),
         original' = original
  PROVE  /\ DiskIsSound' /\ names'[n] = file
         /\ namings \subseteq namings' /\ namings' = namings \cup {names'}
         /\ names'["document"] = names["document"]
         /\ (names[n] = Nobody /\ file \in Unused) \/ names'[n] = names[n]
         /\ \A m \in {"temporary", "backup"} \ {n} : names'[m] = names[m]
         /\ content' = [content EXCEPT ![file] = Blank] /\ unsynced' = unsynced \cup {file}
  <1>1. content' = [content EXCEPT ![file] = Blank] /\ unsynced' = unsynced \cup {file}
    BY DEF Create
  <1>2. content' \in [Files -> [Parts -> AllDocuments]] /\ unsynced' \subseteq Files
    BY <1>1 DEF DiskIsSound, Blank, AllDocuments
  <1>3. TextsAreOurs'
    <2>1. Savable' = Savable
      BY DEF Savable
    <2> QED
      BY <2>1, <1>1 DEF DiskIsSound, TextsAreOurs, Blank
  <1>4. names \in [Names -> MaybeFiles] /\ names \in namings
    BY DEF DiskIsSound
  <1>5. CASE names[n] = Nobody
    <2> DEFINE new == [names EXCEPT ![n] = file]
    <2>1. file \in Unused /\ Rename(new)
      BY <1>5 DEF Create
    <2>2. /\ new \in [Names -> MaybeFiles] /\ new[n] = file /\ new["document"] = names["document"]
          /\ \A m \in {"temporary", "backup"} \ {n} : new[m] = names[m]
      BY <1>4 DEF Names, MaybeFiles
    <2>3. /\ names' \in namings' /\ namings' \subseteq [Names -> MaybeFiles]
          /\ namings \subseteq namings' /\ BackUpIsApart'
      BY <2>1, <2>2, NamingKeepsApart
    <2> QED
      BY <1>1, <1>2, <1>3, <1>5, <2>1, <2>2, <2>3 DEF DiskIsSound, Rename
  <1>6. CASE names[n] # Nobody
    BY <1>1, <1>2, <1>3, <1>6 DEF Create, DiskIsSound, BackUpIsApart
  <1> QED
    BY <1>5, <1>6

-------------------------------------------------------------------------------
(* Each step keeps it                                                          *)

\* Starting, loading, being killed and beginning a save touch nothing on the disk.
LEMMA QuietKeeps ==
  ASSUME IInv, NEW i \in Instances,
         Start(i) \/ Load(i) \/ LoadFails(i) \/ Crash(i) \/ (\E text \in Texts : BeginSave(i, text))
  PROVE  IInv'
  <1>1. UNCHANGED disk /\ original' = original
    BY DEF Start, Load, LoadFails, Crash, BeginSave, history
  <1>2. DiskIsSound'
    <2>1. Savable' = Savable
      BY DEF Savable
    <2> QED
      BY <1>1, <2>1 DEF disk, IInv, TypeOK, DiskIsSound, TextsAreOurs, BackUpIsApart
  <1>3. PICK c \in Calls : Goes(i, c) /\ KnowsItsFile(c)'
    <2>1. CASE \E text \in Texts : BeginSave(i, text)
      <3>1. PICK text \in Texts : BeginSave(i, text)
        BY <2>1
      <3>2. Document(VERSION, text) \in Savable
        BY DEF Savable
      <3> DEFINE c == Call("creating", Nobody, 0, Document(VERSION, text))
      <3>3. c \in Calls /\ c.at = "creating" /\ c.parts = 0 /\ c.saving \in Savable
        BY <3>2, CallIsCall DEF Steps, Working, Saving, MaybeFiles, AllDocuments
      <3>4. KnowsItsFile(c)'
        BY <3>3 DEF KnowsItsFile, Savable
      <3> QED
        BY <3>1, <3>3, <3>4 DEF BeginSave
    <2>2. CASE Start(i) \/ Load(i) \/ LoadFails(i) \/ Crash(i)
      <3>1. {"off", "starting", "copying", "idle"} \subseteq Steps \ (Saving \cup {"copied"})
        BY DEF Steps, Copying, Working, Saving
      <3>2. PICK at \in {"off", "starting", "copying", "idle"} : Goes(i, Between(at))
        BY <2>2 DEF Start, Load, LoadFails, Crash
      <3> QED
        BY <3>1, <3>2, BetweenIsCall
    <2> QED
      BY <2>1, <2>2
  <1>4. /\ call' \in [Instances -> Calls] /\ CallsKnowTheirFiles'
        /\ {overlapped', disturbed'} \subseteq BOOLEAN
    BY <1>1, <1>3, OthersKnow DEF disk
  <1>5. RestIsSound'
    <2>1. /\ UNCHANGED <<original, cuts>> /\ saves' \in Nat /\ crashes' \in Nat
          /\ blind' \in BOOLEAN
      <3>1. CASE \E text \in Texts : BeginSave(i, text)
        BY <3>1 DEF BeginSave, IInv, TypeOK
      <3>2. CASE Crash(i)
        BY <3>2 DEF Crash, history, IInv, TypeOK
      <3>3. CASE Start(i) \/ Load(i) \/ LoadFails(i)
        BY <3>3 DEF Start, Load, LoadFails, history, counters, IInv, TypeOK
      <3> QED
        BY <3>1, <3>2, <3>3
    <2>2. loaded' \in [Instances -> {"none", "ok", "failed"}]
      <3>1. CASE Start(i) \/ \E text \in Texts : BeginSave(i, text)
        BY <3>1 DEF Start, BeginSave, IInv, TypeOK
      <3>2. CASE Load(i) \/ LoadFails(i) \/ Crash(i)
        BY <3>2 DEF Load, LoadFails, Crash, Loaded, IInv, TypeOK
      <3> QED
        BY <3>1, <3>2
    <2> QED
      BY <1>4, <2>1, <2>2 DEF RestIsSound, IInv, TypeOK
  <1> QED
    BY <1>2, <1>4, <1>5 DEF IInv, TypeOK, DiskIsSound, RestIsSound

\* The backup, or the temporary file, is emptied or made.
LEMMA BeginBackUpKeeps ==
  ASSUME IInv, NEW i \in Instances, BeginBackUp(i)
  PROVE  IInv'
  <1>1. PICK file \in Files :
          Create("backup", file) /\ Goes(i, Call("copied", file, 0, Missing))
    BY DEF BeginBackUp
  <1>2. /\ DiskIsSound' /\ names'["backup"] = file /\ namings \subseteq namings'
        /\ names["backup"] = Nobody \/ names'["backup"] = names["backup"]
    BY <1>1, CreateKeeps, IInvIs DEF BeginBackUp, history
  <1> DEFINE c == Call("copied", file, 0, Missing)
  <1>3. c \in Calls /\ c.at = "copied" /\ c.file = file
    BY CallIsCall DEF Steps, Copying, MaybeFiles, AllDocuments
  <1>4. KnowsItsFile(c)'
    BY <1>2, <1>3 DEF KnowsItsFile, Saving
  <1>5. /\ call' \in [Instances -> Calls] /\ CallsKnowTheirFiles'
        /\ {overlapped', disturbed'} \subseteq BOOLEAN
    BY <1>1, <1>2, <1>3, <1>4, OthersKnow
  <1>6. RestIsSound'
    BY <1>5, Rest DEF BeginBackUp, IInv, TypeOK
  <1> QED
    BY <1>2, <1>5, <1>6 DEF IInv, TypeOK, DiskIsSound, RestIsSound

LEMMA CreateTemporaryKeeps ==
  ASSUME IInv, NEW i \in Instances, CreateTemporary(i)
  PROVE  IInv'
  <1>1. PICK file \in Files : /\ Create("temporary", file)
                              /\ Goes(i, Call("writing", file, 0, call[i].saving))
    BY DEF CreateTemporary
  <1>2. /\ DiskIsSound' /\ names'["temporary"] = file /\ namings \subseteq namings'
        /\ names'["backup"] = names["backup"]
    BY <1>1, CreateKeeps, IInvIs DEF CreateTemporary, history
  <1>3. call[i].saving \in Savable /\ call[i].saving \in AllDocuments
    BY DEF CreateTemporary, At, IInv, CallsKnowTheirFiles, KnowsItsFile, Saving, AllDocuments
  <1>c. PICK c : c = Call("writing", file, 0, call[i].saving)
    OBVIOUS
  <1>4. c \in Calls /\ c.at = "writing" /\ c.file = file /\ c.parts = 0 /\ c.saving \in Savable
    BY <1>c, <1>3, CallIsCall DEF Steps, Working, Saving, MaybeFiles
  <1>5. KnowsItsFile(c)'
    BY <1>2, <1>4 DEF KnowsItsFile, Savable, DiskIsSound
  <1>6. /\ call' \in [Instances -> Calls] /\ CallsKnowTheirFiles'
        /\ {overlapped', disturbed'} \subseteq BOOLEAN
    BY <1>1, <1>2, <1>c, <1>4, <1>5, OthersKnow
  <1>7. RestIsSound'
    BY <1>6, Rest DEF CreateTemporary, IInv, TypeOK
  <1> QED
    BY <1>2, <1>6, <1>7 DEF IInv, TypeOK, DiskIsSound, RestIsSound

\* Files are written and synced under the names they have.
LEMMA WritingKeeps ==
  ASSUME IInv, UNCHANGED <<names, namings, original>>,
         content' \in [Files -> [Parts -> {Missing, original} \cup Savable]],
         unsynced' \subseteq Files
  PROVE  DiskIsSound'
  <1>1. Savable' = Savable
    BY DEF Savable
  <1>2. {Missing, original} \cup Savable \subseteq AllDocuments
    BY DEF IInv, TypeOK, AllDocuments
  <1>3. content' \in [Files -> [Parts -> AllDocuments]]
    BY <1>2
  <1>4. TextsAreOurs'
    BY <1>1 DEF TextsAreOurs
  <1> QED
    BY <1>3, <1>4 DEF IInv, TypeOK, DiskIsSound, BackUpIsApart

LEMMA TextsAre ==
  ASSUME IInv
  PROVE  content \in [Files -> [Parts -> {Missing, original} \cup Savable]]
  BY DEF IInv, TypeOK, TextsAreOurs

LEMMA FinishBackUpKeeps ==
  ASSUME IInv, NEW i \in Instances, FinishBackUp(i)
  PROVE  IInv'
  <1>1. PICK file : file = call[i].file
    OBVIOUS
  <1>2. file \in Files
    BY <1>1 DEF FinishBackUp, At, IInv, CallsKnowTheirFiles, KnowsItsFile
  <1>3. names["document"] \in Files
    BY NamesAre, IInvIs DEF FinishBackUp, DiskIsSound
  <1>4. /\ content' = [content EXCEPT ![file] = content[names["document"]]]
        /\ unsynced' = unsynced \cup {file} /\ UNCHANGED <<names, namings, original>>
    BY <1>1 DEF FinishBackUp, history
  <1>5. content' \in [Files -> [Parts -> {Missing, original} \cup Savable]]
    BY <1>2, <1>3, <1>4, TextsAre
  <1>6. DiskIsSound'
    BY <1>2, <1>4, <1>5, WritingKeeps DEF IInv, TypeOK
  <1>7. Goes(i, Between("idle"))
    BY DEF FinishBackUp
  <1>8. "idle" \in Steps \ (Saving \cup {"copied"})
    BY DEF Steps, Working, Saving
  <1>9. /\ call' \in [Instances -> Calls] /\ CallsKnowTheirFiles'
        /\ {overlapped', disturbed'} \subseteq BOOLEAN
    BY <1>4, <1>7, <1>8, BetweenIsCall, OthersKnow
  <1>10. RestIsSound'
    BY <1>9, Rest DEF FinishBackUp, Loaded, IInv, TypeOK
  <1> QED
    BY <1>6, <1>9, <1>10 DEF IInv, TypeOK, DiskIsSound, RestIsSound

LEMMA WritePartKeeps ==
  ASSUME IInv, NEW i \in Instances, WritePart(i)
  PROVE  IInv'
  <1>1. PICK file, n, d : file = call[i].file /\ n = call[i].parts /\ d = call[i].saving
    OBVIOUS
  <1>2. call[i].at = "writing" /\ call[i] \in Calls /\ KnowsItsFile(call[i])
    BY DEF WritePart, At, IInv, TypeOK, CallsKnowTheirFiles
  <1>3. /\ file \in Files /\ n \in {0, 1} /\ d \in Savable /\ d \in AllDocuments
        /\ \E naming \in namings : file \in {naming["temporary"], naming["document"]}
    BY <1>1, <1>2 DEF KnowsItsFile, Calls, Saving, AllDocuments
  <1>4. /\ content' = [content EXCEPT ![file][n + 1] = d]
        /\ unsynced' = unsynced \cup {file} /\ UNCHANGED <<names, namings, original>>
    BY <1>1 DEF WritePart, Write, history
  <1>5. content' \in [Files -> [Parts -> {Missing, original} \cup Savable]]
    BY <1>3, <1>4, TextsAre DEF Parts
  <1>6. DiskIsSound'
    BY <1>3, <1>4, <1>5, WritingKeeps DEF IInv, TypeOK
  <1>7. PICK at \in {"syncing", "writing"} :
          /\ at = IF n + 1 = 2 THEN "syncing" ELSE "writing"
          /\ Goes(i, Call(at, file, n + 1, d))
    BY <1>1 DEF WritePart
  <1>c. PICK c : c = Call(at, file, n + 1, d)
    OBVIOUS
  <1>8. c \in Calls /\ c.at = at /\ c.file = file /\ c.parts = n + 1 /\ c.saving = d
    <2>1. at \in Steps /\ file \in MaybeFiles /\ n + 1 \in 0 .. 2
      BY <1>3 DEF Steps, Working, Saving, MaybeFiles
    <2> QED
      BY <2>1, <1>c, <1>3, CallIsCall
  <1>9. KnowsItsFile(c)'
    <2>1. n + 1 \in {1, 2} /\ (at = "writing" => n + 1 < 2) /\ (at = "syncing" => n + 1 = 2)
      BY <1>3, <1>7
    <2> QED
      BY <2>1, <1>3, <1>4, <1>8 DEF KnowsItsFile, Saving, Savable
  <1>10. /\ call' \in [Instances -> Calls] /\ CallsKnowTheirFiles'
         /\ {overlapped', disturbed'} \subseteq BOOLEAN
    BY <1>4, <1>7, <1>c, <1>8, <1>9, OthersKnow
  <1>11. RestIsSound'
    BY <1>10, Rest DEF WritePart, IInv, TypeOK
  <1> QED
    BY <1>6, <1>10, <1>11 DEF IInv, TypeOK, DiskIsSound, RestIsSound

LEMMA SyncKeeps ==
  ASSUME IInv, NEW i \in Instances, Sync(i)
  PROVE  IInv'
  <1>1. PICK file, n, d : file = call[i].file /\ n = call[i].parts /\ d = call[i].saving
    OBVIOUS
  <1>2. call[i].at = "syncing" /\ call[i] \in Calls /\ KnowsItsFile(call[i])
    BY DEF Sync, At, IInv, TypeOK, CallsKnowTheirFiles
  <1>3. /\ file \in Files /\ n = 2 /\ n \in 0 .. 2 /\ d \in Savable /\ d \in AllDocuments
        /\ \E naming \in namings : file \in {naming["temporary"], naming["document"]}
    BY <1>1, <1>2 DEF KnowsItsFile, Calls, Saving, AllDocuments
  <1>4. unsynced' = unsynced \ {file} /\ UNCHANGED <<names, namings, content, original>>
    BY <1>1 DEF Sync, history
  <1>5. DiskIsSound'
    <2>1. unsynced' \subseteq Files
      BY <1>4 DEF IInv, TypeOK
    <2>2. content' \in [Files -> [Parts -> {Missing, original} \cup Savable]]
      BY <1>4, TextsAre
    <2> QED
      BY <1>4, <2>1, <2>2, WritingKeeps
  <1>c. PICK c : c = Call("renaming", file, n, d)
    OBVIOUS
  <1>6. c \in Calls /\ c.at = "renaming" /\ c.file = file /\ c.parts = n /\ c.saving = d
    <2>1. "renaming" \in Steps /\ file \in MaybeFiles
      BY <1>3 DEF Steps, Working, Saving, MaybeFiles
    <2> QED
      BY <2>1, <1>c, <1>3, CallIsCall
  <1>7. KnowsItsFile(c)'
    BY <1>3, <1>4, <1>6 DEF KnowsItsFile, Saving, Savable
  <1>8. Goes(i, c)
    BY <1>c, <1>1 DEF Sync
  <1>9. /\ call' \in [Instances -> Calls] /\ CallsKnowTheirFiles'
        /\ {overlapped', disturbed'} \subseteq BOOLEAN
    BY <1>4, <1>6, <1>7, <1>8, OthersKnow
  <1>10. RestIsSound'
    BY <1>9, Rest DEF Sync, IInv, TypeOK
  <1> QED
    BY <1>5, <1>9, <1>10 DEF IInv, TypeOK, DiskIsSound, RestIsSound

\* The temporary file becomes the document, or is removed.
LEMMA RenamingKeeps ==
  ASSUME IInv, NEW i \in Instances, RenameOver(i) \/ SaveFails(i)
  PROVE  /\ IInv' /\ namings \subseteq namings' /\ names'["backup"] = names["backup"]
  <1>1. PICK new \in [Names -> MaybeFiles] :
          /\ Rename(new) /\ new["backup"] = names["backup"]
          /\ {new["temporary"], new["document"]}
               \subseteq {names["temporary"], names["document"], Nobody}
    <2>1. names \in [Names -> MaybeFiles]
      BY NamesAre, IInvIs
    <2> DEFINE removed == [names EXCEPT !["temporary"] = Nobody]
               moved == [names EXCEPT !["document"] = names["temporary"], !["temporary"] = Nobody]
    <2>2. {removed, moved} \subseteq [Names -> MaybeFiles]
      BY <2>1 DEF Names, MaybeFiles
    <2>3. \A new \in {names, removed, moved} :
            /\ new["backup"] = names["backup"]
            /\ {new["temporary"], new["document"]}
                 \subseteq {names["temporary"], names["document"], Nobody}
      BY <2>1 DEF Names
    <2>4. \E new \in {names, removed, moved} : Rename(new)
      BY DEF RenameOver, SaveFails
    <2> QED
      BY <2>1, <2>2, <2>3, <2>4
  <1>2. /\ names' \in namings' /\ namings' \subseteq [Names -> MaybeFiles]
        /\ namings \subseteq namings' /\ BackUpIsApart'
    BY <1>1, NamingKeepsApart, IInvIs
  <1>3. names'["backup"] = names["backup"]
    BY <1>1 DEF Rename
  <1>4. UNCHANGED <<content, unsynced, loaded, history, counters>> /\ Goes(i, Between("idle"))
    BY DEF RenameOver, SaveFails
  <1>5. DiskIsSound'
    <2>1. Savable' = Savable
      BY DEF Savable
    <2> QED
      BY <2>1, <1>2, <1>4 DEF DiskIsSound, IInv, TypeOK, TextsAreOurs, history
  <1>6. "idle" \in Steps \ (Saving \cup {"copied"})
    BY DEF Steps, Working, Saving
  <1>7. /\ call' \in [Instances -> Calls] /\ CallsKnowTheirFiles'
        /\ {overlapped', disturbed'} \subseteq BOOLEAN
    BY <1>2, <1>3, <1>4, <1>6, BetweenIsCall, OthersKnow
  <1>8. RestIsSound'
    BY <1>4, <1>7, Rest DEF IInv, TypeOK
  <1> QED
    BY <1>2, <1>3, <1>5, <1>7, <1>8 DEF IInv, TypeOK, DiskIsSound, RestIsSound

\* Whatever is lost when the power fails, what is found is from this program.
LEMMA PowerCutKeeps ==
  ASSUME IInv, PowerCut
  PROVE  IInv'
  <1> DEFINE kept == {f \in Files : \E n \in Names : names'[n] = f}
  <1>1. PICK lost \in SUBSET ((unsynced \cap kept) \X Parts) :
          content' = [f \in Files |-> [p \in Parts |->
                        IF f \notin kept \/ <<f, p>> \in lost THEN Missing ELSE content[f][p]]]
    BY DEF PowerCut
  <1>2. /\ names' \in namings /\ namings' = {names'} /\ unsynced' = {}
        /\ call' = [i \in Instances |-> Between("off")]
        /\ loaded' = [i \in Instances |-> "none"]
        /\ cuts' = cuts + 1 /\ UNCHANGED <<original, blind, overlapped, disturbed, saves, crashes>>
    BY DEF PowerCut, history, meetings
  <1>3. content' \in [Files -> [Parts -> {Missing, original} \cup Savable]]
    BY <1>1, TextsAre
  <1>4. DiskIsSound'
    <2>1. Savable' = Savable
      BY DEF Savable
    <2>2. {Missing, original} \cup Savable \subseteq AllDocuments
      BY DEF IInv, TypeOK, AllDocuments
    <2>3. content' \in [Files -> [Parts -> AllDocuments]] /\ TextsAreOurs'
      BY <2>1, <2>2, <1>2, <1>3 DEF TextsAreOurs
    <2>4. BackUpIsApart'
      BY <1>2 DEF IInv, BackUpIsApart
    <2> QED
      BY <2>3, <2>4, <1>2 DEF IInv, TypeOK, DiskIsSound
  <1>5. "off" \in Steps \ (Saving \cup {"copied"})
    BY DEF Steps, Working, Saving
  <1>6. call' \in [Instances -> Calls] /\ CallsKnowTheirFiles'
    BY <1>2, <1>5, BetweenIsCall DEF CallsKnowTheirFiles
  <1>7. RestIsSound'
    BY <1>2 DEF IInv, TypeOK, RestIsSound
  <1> QED
    BY <1>4, <1>6, <1>7 DEF IInv, TypeOK, DiskIsSound, RestIsSound

LEMMA NextIInv ==
  ASSUME IInv, [Next]_vars
  PROVE  IInv'
  <1>1. CASE UNCHANGED vars
    <2>1. Savable' = Savable
      BY DEF Savable
    <2> QED
      BY <1>1, <2>1 DEF vars, IInv, TypeOK, TextsAreOurs, BackUpIsApart,
                        CallsKnowTheirFiles, KnowsItsFile
  <1>2. CASE PowerCut
    BY <1>2, PowerCutKeeps
  <1>3. ASSUME NEW i \in Instances, Loads(i) \/ Saves(i) \/ Crash(i)
        PROVE  IInv'
    BY <1>3, QuietKeeps, BeginBackUpKeeps, FinishBackUpKeeps, CreateTemporaryKeeps,
       WritePartKeeps, SyncKeeps, RenamingKeeps DEF Loads, Saves
  <1> QED
    BY <1>1, <1>2, <1>3 DEF Next

\* Whatever meets whom: the texts on the disk are the original or ones this build
\* saved, and the backup's file is nobody's document or temporary file.
THEOREM Invariance == Spec => []IInv
  <1>1. Init => IInv
    BY InitIInv
  <1>2. IInv /\ [Next]_vars => IInv'
    BY NextIInv
  <1> QED
    BY <1>1, <1>2, PTL DEF Spec

-------------------------------------------------------------------------------
(* The document is whole until saves overlap                                   *)

LEMMA InitSound == Init => Sound
  <1> SUFFICES ASSUME Init PROVE Sound
    OBVIOUS
  <1>1. PICK f \in Files :
          /\ names = [NoNames EXCEPT !["document"] = IF original = Missing THEN Nobody ELSE f]
          /\ content = [g \in Files |-> IF g = f THEN Written(original) ELSE Blank]
    BY DEF Init
  <1>2. DocumentsAreWhole
    <2>1. CASE original = Missing
      BY <2>1, <1>1 DEF Init, DocumentsAreWhole, NoNames, Names, Nobody
    <2>2. CASE original # Missing
      <3>1. names["document"] = f
        BY <2>2, <1>1 DEF NoNames, Names
      <3>2. Readable(content[f])
        BY <2>2, <1>1, WrittenIsRead
      <3> QED
        BY <3>1, <3>2 DEF Init, DocumentsAreWhole
    <2> QED
      BY <2>1, <2>2
  <1>3. FilesAreApart
    BY <1>1 DEF Init, FilesAreApart, Apart, NoNames, Names, Nobody
  <1>4. \A i \in Instances : call[i].at = "off"
    BY DEF Init, Between, Call
  <1>5. OneSaves /\ CallsWriteTheirOwn
    BY <1>4 DEF OneSaves, CallsWriteTheirOwn, WritesItsOwn, Saving
  <1> QED
    BY <1>2, <1>3, <1>5 DEF Sound

\* One call moves; a save that another instance is in finds its temporary file as
\* it left it, because the one that moves is not saving.
LEMMA OthersWrite ==
  ASSUME IInv, Sound, NEW i \in Instances, NEW c \in Calls, Goes(i, c), ~overlapped',
         WritesItsOwn(c)',
         \/ call[i].at \in Saving
         \/ /\ names'["temporary"] = names["temporary"]
            /\ names["temporary"] \in Files =>
                 /\ content'[names["temporary"]] = content[names["temporary"]]
                 /\ names["temporary"] \in unsynced' => names["temporary"] \in unsynced
  PROVE  OneSaves' /\ CallsWriteTheirOwn'
  <1>1. call \in [Instances -> Calls] /\ call' = [call EXCEPT ![i] = c]
    BY DEF Goes, IInv, TypeOK
  <1>2. \A j \in Instances \ {i} : ~(c.at \in Saving /\ call[j].at \in Saving)
    BY DEF Goes
  <1>3. OneSaves'
    BY <1>1, <1>2 DEF Sound, OneSaves
  <1>4. ASSUME NEW j \in Instances, NEW d, d = call'[j] PROVE WritesItsOwn(d)'
    <2>1. CASE j = i
      BY <2>1, <1>1, <1>4
    <2>2. CASE j # i
      <3>1. d = call[j] /\ WritesItsOwn(d) /\ KnowsItsFile(d)
        BY <2>2, <1>1, <1>4 DEF Sound, CallsWriteTheirOwn, IInv, CallsKnowTheirFiles
      <3>2. CASE d.at \in Saving
        <4>1. call[i].at \notin Saving
          BY <3>1, <3>2, <2>2 DEF Sound, OneSaves
        <4> QED
          BY <4>1, <3>1, <3>2 DEF WritesItsOwn, KnowsItsFile
      <3>3. CASE d.at \notin Saving
        BY <3>3 DEF WritesItsOwn
      <3> QED
        BY <3>2, <3>3
    <2> QED
      BY <2>1, <2>2
  <1> QED
    BY <1>3, <1>4 DEF CallsWriteTheirOwn

\* A file that is nobody's document is made, emptied, written or synced.
LEMMA WritingSpoilsNothing ==
  ASSUME IInv, Sound, NEW file \in Files,
         namings' = namings \cup {names'}, names'["document"] = names["document"],
         names'["temporary"] \in {names["temporary"], file},
         \A f \in Files \ {file} : content'[f] = content[f],
         unsynced' \subseteq unsynced \cup {file},
         \A naming \in namings : naming["document"] # file
  PROVE  DocumentsAreWhole' /\ FilesAreApart'
  <1>1. names \in namings
    BY DEF IInv, TypeOK
  <1>2. \A naming \in namings : naming["document"] # Nobody => naming["document"] \in Files \ {file}
    BY DEF IInv, TypeOK, Names, MaybeFiles
  <1>3. DocumentsAreWhole'
    BY <1>1, <1>2 DEF Sound, DocumentsAreWhole, Readable
  <1>4. FilesAreApart'
    BY <1>1 DEF Sound, FilesAreApart, Apart
  <1> QED
    BY <1>3, <1>4

LEMMA QuietIsSound ==
  ASSUME IInv, Sound, ~overlapped', NEW i \in Instances,
         Start(i) \/ Load(i) \/ LoadFails(i) \/ Crash(i) \/ (\E text \in Texts : BeginSave(i, text))
  PROVE  Sound'
  <1>1. UNCHANGED <<names, namings, content, unsynced>>
    BY DEF Start, Load, LoadFails, Crash, BeginSave, disk
  <1>2. PICK c \in Calls : Goes(i, c) /\ WritesItsOwn(c)'
    <2>1. CASE \E text \in Texts : BeginSave(i, text)
      <3>1. PICK text \in Texts : BeginSave(i, text)
        BY <2>1
      <3>2. Document(VERSION, text) \in Savable
        BY DEF Savable
      <3> DEFINE c == Call("creating", Nobody, 0, Document(VERSION, text))
      <3>3. c \in Calls /\ c.at = "creating"
        BY <3>2, CallIsCall DEF Steps, Working, Saving, MaybeFiles, AllDocuments
      <3>4. WritesItsOwn(c)'
        BY <3>3 DEF WritesItsOwn
      <3> QED
        BY <3>1, <3>3, <3>4 DEF BeginSave
    <2>2. CASE Start(i) \/ Load(i) \/ LoadFails(i) \/ Crash(i)
      <3>1. {"off", "starting", "copying", "idle"} \subseteq Steps \ (Saving \cup {"copied"})
        BY DEF Steps, Copying, Working, Saving
      <3>2. PICK at \in {"off", "starting", "copying", "idle"} : Goes(i, Between(at))
        BY <2>2 DEF Start, Load, LoadFails, Crash
      <3> QED
        BY <3>1, <3>2, BetweenIsCall
    <2> QED
      BY <2>1, <2>2
  <1>3. OneSaves' /\ CallsWriteTheirOwn'
    BY <1>1, <1>2, OthersWrite
  <1> QED
    BY <1>1, <1>3 DEF Sound, DocumentsAreWhole, FilesAreApart, Apart

\* The backup is nobody's document and nobody's temporary file.
LEMMA BackUpIsSound ==
  ASSUME IInv, Sound, ~overlapped', NEW i \in Instances, BeginBackUp(i) \/ FinishBackUp(i)
  PROVE  Sound'
  <1>1. PICK file \in Files, c \in Calls :
          /\ Goes(i, c) /\ WritesItsOwn(c)'
          /\ namings' = namings \cup {names'} /\ names'["document"] = names["document"]
          /\ names'["temporary"] = names["temporary"]
          /\ \A f \in Files \ {file} : content'[f] = content[f]
          /\ unsynced' = unsynced \cup {file}
          /\ \A naming \in namings : file \notin {naming["temporary"], naming["document"]}
    <2>1. CASE BeginBackUp(i)
      <3>1. PICK file \in Files :
              Create("backup", file) /\ Goes(i, Call("copied", file, 0, Missing))
        BY <2>1 DEF BeginBackUp
      <3>2. /\ namings' = namings \cup {names'} /\ names'["document"] = names["document"]
            /\ names'["temporary"] = names["temporary"] /\ names'["backup"] = file
            /\ content' = [content EXCEPT ![file] = Blank] /\ unsynced' = unsynced \cup {file}
            /\ (names["backup"] = Nobody /\ file \in Unused) \/ names'["backup"] = names["backup"]
        BY <2>1, <3>1, CreateKeeps, IInvIs DEF BeginBackUp, history
      <3>3. \A naming \in namings : file \notin {naming["temporary"], naming["document"]}
        BY <3>2, FilesAssumption DEF Unused, Names, IInv, TypeOK, BackUpIsApart
      <3>4. \A f \in Files \ {file} : content'[f] = content[f]
        BY <3>2 DEF IInv, TypeOK
      <3> DEFINE c == Call("copied", file, 0, Missing)
      <3>5. c \in Calls /\ c.at = "copied"
        BY CallIsCall DEF Steps, Copying, MaybeFiles, AllDocuments
      <3>6. WritesItsOwn(c)'
        BY <3>5 DEF WritesItsOwn, Saving
      <3> QED
        BY <3>1, <3>2, <3>3, <3>4, <3>5, <3>6
    <2>2. CASE FinishBackUp(i)
      <3>1. PICK file : file = call[i].file
        OBVIOUS
      <3>2. file \in Files /\ file = names["backup"] /\ names \in namings
        BY <2>2, <3>1 DEF FinishBackUp, At, IInv, TypeOK, CallsKnowTheirFiles, KnowsItsFile
      <3>3. \A naming \in namings : file \notin {naming["temporary"], naming["document"]}
        BY <3>2, FilesAssumption DEF IInv, BackUpIsApart
      <3>4. /\ content' = [content EXCEPT ![file] = content[names["document"]]]
            /\ unsynced' = unsynced \cup {file} /\ UNCHANGED <<names, namings>>
            /\ Goes(i, Between("idle"))
        BY <2>2, <3>1 DEF FinishBackUp
      <3>5. \A f \in Files \ {file} : content'[f] = content[f]
        BY <3>4 DEF IInv, TypeOK
      <3>6. Between("idle") \in Calls /\ WritesItsOwn(Between("idle"))'
        BY BetweenIsCall DEF Steps, Working, Saving
      <3>7. namings' = namings \cup {names'}
        BY <3>2, <3>4
      <3> QED
        BY <3>2, <3>3, <3>4, <3>5, <3>6, <3>7
    <2> QED
      BY <2>1, <2>2
  <1>2. DocumentsAreWhole' /\ FilesAreApart'
    BY <1>1, WritingSpoilsNothing
  <1>3. names["temporary"] # file
    BY <1>1 DEF IInv, TypeOK
  <1>4. OneSaves' /\ CallsWriteTheirOwn'
    BY <1>1, <1>3, OthersWrite
  <1> QED
    BY <1>2, <1>4 DEF Sound

LEMMA CreateTemporaryIsSound ==
  ASSUME IInv, Sound, ~overlapped', NEW i \in Instances, CreateTemporary(i)
  PROVE  Sound'
  <1>1. PICK file \in Files : /\ Create("temporary", file)
                              /\ Goes(i, Call("writing", file, 0, call[i].saving))
    BY DEF CreateTemporary
  <1>2. /\ namings' = namings \cup {names'} /\ names'["document"] = names["document"]
        /\ names'["temporary"] = file
        /\ content' = [content EXCEPT ![file] = Blank] /\ unsynced' = unsynced \cup {file}
        /\ (names["temporary"] = Nobody /\ file \in Unused)
             \/ names'["temporary"] = names["temporary"]
    BY <1>1, CreateKeeps, IInvIs DEF CreateTemporary, history
  <1>3. \A naming \in namings : naming["document"] # file
    BY <1>2, FilesAssumption DEF Unused, Names, Sound, FilesAreApart, Apart
  <1>4. \A f \in Files \ {file} : content'[f] = content[f]
    BY <1>2 DEF IInv, TypeOK
  <1>5. DocumentsAreWhole' /\ FilesAreApart'
    BY <1>2, <1>3, <1>4, WritingSpoilsNothing
  <1>6. call[i].saving \in AllDocuments /\ call[i].at \in Saving
    BY DEF CreateTemporary, At, IInv, CallsKnowTheirFiles, KnowsItsFile, Saving, AllDocuments
  <1>c. PICK c : c = Call("writing", file, 0, call[i].saving)
    OBVIOUS
  <1>7. c \in Calls /\ c.at = "writing" /\ c.file = file /\ c.parts = 0
    BY <1>c, <1>6, CallIsCall DEF Steps, Working, Saving, MaybeFiles
  <1>8. WritesItsOwn(c)'
    BY <1>2, <1>7 DEF WritesItsOwn
  <1>9. OneSaves' /\ CallsWriteTheirOwn'
    BY <1>1, <1>c, <1>6, <1>7, <1>8, OthersWrite
  <1> QED
    BY <1>5, <1>9 DEF Sound

LEMMA WritePartIsSound ==
  ASSUME IInv, Sound, ~overlapped', NEW i \in Instances, WritePart(i)
  PROVE  Sound'
  <1>1. PICK file, n, d : file = call[i].file /\ n = call[i].parts /\ d = call[i].saving
    OBVIOUS
  <1>2. /\ call[i].at = "writing" /\ call[i] \in Calls
        /\ KnowsItsFile(call[i]) /\ WritesItsOwn(call[i])
    BY DEF WritePart, At, IInv, TypeOK, CallsKnowTheirFiles, Sound, CallsWriteTheirOwn
  <1>3. /\ file \in Files /\ file = names["temporary"]
        /\ n \in {0, 1} /\ d \in Savable /\ d \in AllDocuments
        /\ \A part \in 1 .. n : content[file][part] = d
    BY <1>1, <1>2 DEF KnowsItsFile, WritesItsOwn, Calls, Saving, AllDocuments
  <1>4. /\ content' = [content EXCEPT ![file][n + 1] = d]
        /\ unsynced' = unsynced \cup {file} /\ UNCHANGED <<names, namings>>
    BY <1>1 DEF WritePart, Write
  <1>5. /\ \A f \in Files \ {file} : content'[f] = content[f]
        /\ \A part \in 1 .. n + 1 : content'[file][part] = d
    <2>1. content \in [Files -> [Parts -> AllDocuments]]
      BY DEF IInv, TypeOK
    <2> QED
      BY <2>1, <1>3, <1>4 DEF Parts
  <1>6. DocumentsAreWhole' /\ FilesAreApart'
    <2>1. \A naming \in namings : naming["document"] # file
      BY <1>3, FilesAssumption DEF Sound, FilesAreApart, Apart
    <2>2. namings' = namings \cup {names'}
      BY <1>4 DEF IInv, TypeOK
    <2> QED
      BY <2>1, <2>2, <1>3, <1>4, <1>5, WritingSpoilsNothing
  <1>7. PICK at \in {"syncing", "writing"} : Goes(i, Call(at, file, n + 1, d))
    BY <1>1 DEF WritePart
  <1>c. PICK c : c = Call(at, file, n + 1, d)
    OBVIOUS
  <1>8. c \in Calls /\ c.at = at /\ c.file = file /\ c.parts = n + 1 /\ c.saving = d
    <2>1. at \in Steps /\ file \in MaybeFiles /\ n + 1 \in 0 .. 2
      BY <1>3 DEF Steps, Working, Saving, MaybeFiles
    <2> QED
      BY <2>1, <1>c, <1>3, CallIsCall
  <1>9. WritesItsOwn(c)'
    BY <1>3, <1>4, <1>5, <1>8 DEF WritesItsOwn
  <1>10. OneSaves' /\ CallsWriteTheirOwn'
    BY <1>2, <1>7, <1>c, <1>8, <1>9, OthersWrite DEF Saving
  <1> QED
    BY <1>6, <1>10 DEF Sound

LEMMA SyncIsSound ==
  ASSUME IInv, Sound, ~overlapped', NEW i \in Instances, Sync(i)
  PROVE  Sound'
  <1>1. PICK file, n, d : file = call[i].file /\ n = call[i].parts /\ d = call[i].saving
    OBVIOUS
  <1>2. /\ call[i].at = "syncing" /\ call[i] \in Calls
        /\ KnowsItsFile(call[i]) /\ WritesItsOwn(call[i])
    BY DEF Sync, At, IInv, TypeOK, CallsKnowTheirFiles, Sound, CallsWriteTheirOwn
  <1>3. /\ file \in Files /\ file = names["temporary"]
        /\ n = 2 /\ n \in 0 .. 2 /\ d \in Savable /\ d \in AllDocuments
        /\ \A part \in 1 .. n : content[file][part] = d
    BY <1>1, <1>2 DEF KnowsItsFile, WritesItsOwn, Calls, Saving, AllDocuments
  <1>4. unsynced' = unsynced \ {file} /\ UNCHANGED <<names, namings, content>>
    BY <1>1 DEF Sync
  <1>5. DocumentsAreWhole' /\ FilesAreApart'
    BY <1>4 DEF Sound, DocumentsAreWhole, FilesAreApart, Apart
  <1>c. PICK c : c = Call("renaming", file, n, d)
    OBVIOUS
  <1>6. c \in Calls /\ c.at = "renaming" /\ c.file = file /\ c.parts = n /\ c.saving = d
    <2>1. "renaming" \in Steps /\ file \in MaybeFiles
      BY <1>3 DEF Steps, Working, Saving, MaybeFiles
    <2> QED
      BY <2>1, <1>c, <1>3, CallIsCall
  <1>7. WritesItsOwn(c)'
    BY <1>3, <1>4, <1>6 DEF WritesItsOwn
  <1>8. Goes(i, c)
    BY <1>c, <1>1 DEF Sync
  <1>9. OneSaves' /\ CallsWriteTheirOwn'
    BY <1>2, <1>6, <1>7, <1>8, OthersWrite DEF Saving
  <1> QED
    BY <1>5, <1>9 DEF Sound

\* The file that was the temporary one is whole and synced when it becomes the
\* document, and nothing writes it any more.
LEMMA RenameOverIsSound ==
  ASSUME IInv, Sound, ~overlapped', NEW i \in Instances, RenameOver(i)
  PROVE  Sound'
  <1> DEFINE new == [names EXCEPT !["document"] = names["temporary"], !["temporary"] = Nobody]
  <1>1. /\ call[i].at = "renaming" /\ call[i] \in Calls
        /\ KnowsItsFile(call[i]) /\ WritesItsOwn(call[i])
        /\ names' = new /\ namings' = namings \cup {new} /\ UNCHANGED <<content, unsynced>>
        /\ names["temporary"] # Nobody /\ Goes(i, Between("idle"))
    BY DEF RenameOver, At, Rename, IInv, TypeOK, CallsKnowTheirFiles, Sound, CallsWriteTheirOwn
  <1>2. names \in namings /\ names \in [Names -> MaybeFiles]
    BY DEF IInv, TypeOK
  <1>3. new["document"] = names["temporary"] /\ new["temporary"] = Nobody
    BY <1>2 DEF Names, MaybeFiles
  <1>4. /\ Readable(content[names["temporary"]])
        /\ names["temporary"] \notin unsynced
    <2>1. /\ names["temporary"] \notin unsynced /\ call[i].saving \in Savable
          /\ call[i].parts = 2
          /\ \A part \in 1 .. call[i].parts : content[names["temporary"]][part] = call[i].saving
      BY <1>1 DEF WritesItsOwn, KnowsItsFile, Saving
    <2>2. call[i].saving # Missing
      BY <2>1, Distinct DEF Savable
    <2> QED
      BY <2>1, <2>2 DEF Readable
  <1>5. DocumentsAreWhole'
    BY <1>1, <1>3, <1>4 DEF Sound, DocumentsAreWhole
  <1>6. FilesAreApart'
    BY <1>1, <1>3 DEF Sound, FilesAreApart, Apart
  <1>7. Between("idle") \in Calls /\ WritesItsOwn(Between("idle"))'
    BY BetweenIsCall DEF Steps, Working, Saving
  <1>8. OneSaves' /\ CallsWriteTheirOwn'
    BY <1>1, <1>7, OthersWrite DEF Saving
  <1> QED
    BY <1>5, <1>6, <1>8 DEF Sound

LEMMA SaveFailsIsSound ==
  ASSUME IInv, Sound, ~overlapped', NEW i \in Instances, SaveFails(i)
  PROVE  Sound'
  <1>1. /\ call[i].at \in Saving /\ Goes(i, Between("idle")) /\ UNCHANGED <<content, unsynced>>
    BY DEF SaveFails
  <1>2. names \in [Names -> MaybeFiles] /\ names \in namings
    BY DEF IInv, TypeOK
  <1>3. /\ namings' = namings \cup {names'} /\ names'["document"] = names["document"]
        /\ names'["temporary"] \in {names["temporary"], Nobody}
    BY <1>2 DEF SaveFails, Rename, Names, MaybeFiles
  <1>4. DocumentsAreWhole' /\ FilesAreApart'
    BY <1>1, <1>2, <1>3 DEF Sound, DocumentsAreWhole, FilesAreApart, Apart
  <1>5. Between("idle") \in Calls /\ WritesItsOwn(Between("idle"))'
    BY BetweenIsCall DEF Steps, Working, Saving
  <1>6. OneSaves' /\ CallsWriteTheirOwn'
    BY <1>1, <1>5, OthersWrite
  <1> QED
    BY <1>4, <1>6 DEF Sound

\* Whatever naming the disk comes back with: its document was synced.
LEMMA PowerCutIsSound ==
  ASSUME IInv, Sound, PowerCut
  PROVE  Sound' /\ \A naming \in namings :
                     names' = naming /\ naming["document"] # Nobody =>
                       content'[naming["document"]] = content[naming["document"]]
  <1> DEFINE kept == {f \in Files : \E n \in Names : names'[n] = f}
  <1>1. PICK lost \in SUBSET ((unsynced \cap kept) \X Parts) :
          content' = [f \in Files |-> [p \in Parts |->
                        IF f \notin kept \/ <<f, p>> \in lost THEN Missing ELSE content[f][p]]]
    BY DEF PowerCut
  <1>2. /\ names' \in namings /\ namings' = {names'} /\ unsynced' = {}
        /\ call' = [i \in Instances |-> Between("off")]
    BY DEF PowerCut
  <1>3. names'["document"] # Nobody =>
          names'["document"] \in kept \ unsynced
    BY <1>2 DEF IInv, TypeOK, Sound, DocumentsAreWhole, Names, MaybeFiles
  <1>4. \A f \in kept \ unsynced : content'[f] = content[f]
    <2> TAKE f \in kept \ unsynced
    <2>1. f \in Files /\ \A p \in Parts : <<f, p>> \notin lost
      OBVIOUS
    <2>2. content'[f] = [p \in Parts |-> content[f][p]]
      BY <2>1, <1>1
    <2> QED
      BY <2>1, <2>2 DEF IInv, TypeOK
  <1>5. DocumentsAreWhole'
    BY <1>2, <1>3, <1>4 DEF Sound, DocumentsAreWhole
  <1>6. FilesAreApart'
    BY <1>2 DEF Sound, FilesAreApart, Apart
  <1>7. \A i \in Instances : call'[i].at = "off"
    BY <1>2 DEF Between, Call
  <1>8. OneSaves' /\ CallsWriteTheirOwn'
    BY <1>7 DEF OneSaves, CallsWriteTheirOwn, WritesItsOwn, Saving
  <1> QED
    BY <1>3, <1>4, <1>5, <1>6, <1>8 DEF Sound

LEMMA OverlapsAreRemembered ==
  ASSUME [Next]_vars, ~overlapped'
  PROVE  ~overlapped
  BY DEF Next, Loads, Saves, Start, Load, BeginBackUp, FinishBackUp, LoadFails, BeginSave,
         CreateTemporary, WritePart, Sync, RenameOver, SaveFails, Crash, PowerCut,
         Goes, meetings, vars

LEMMA NextIsSound ==
  ASSUME IInv, SoundUntilOverlap, [Next]_vars
  PROVE  SoundUntilOverlap'
  <1> SUFFICES ASSUME ~overlapped' PROVE Sound'
    BY DEF SoundUntilOverlap
  <1>2. Sound
    BY OverlapsAreRemembered DEF SoundUntilOverlap
  <1>3. CASE UNCHANGED vars
    BY <1>2, <1>3 DEF vars, Sound, OneSaves, DocumentsAreWhole, FilesAreApart, Apart,
                      CallsWriteTheirOwn, WritesItsOwn
  <1>4. CASE PowerCut
    BY <1>2, <1>4, PowerCutIsSound
  <1>5. ASSUME NEW i \in Instances, Loads(i) \/ Saves(i) \/ Crash(i)
        PROVE  Sound'
    BY <1>2, <1>5, QuietIsSound, BackUpIsSound, CreateTemporaryIsSound, WritePartIsSound,
       SyncIsSound, RenameOverIsSound, SaveFailsIsSound DEF Loads, Saves
  <1> QED
    BY <1>3, <1>4, <1>5 DEF Next

\* Until two saves overlap, whatever naming the disk may come back with has a whole
\* document, and every save finds in the temporary file what it wrote.
THEOREM SoundnessLasts == Spec => []SoundUntilOverlap
  <1>1. Init => SoundUntilOverlap
    BY InitSound DEF SoundUntilOverlap
  <1>2. IInv /\ SoundUntilOverlap /\ [Next]_vars => SoundUntilOverlap'
    BY NextIsSound
  <1> QED
    BY <1>1, <1>2, Invariance, PTL DEF Spec

\* However saves are cut short, by a failing call, a kill or the power, and whatever
\* other instances load and back up meanwhile, the file of the document is a whole
\* text as long as no two saves overlap (store.rs, "Written atomically").
THEOREM DocumentIsWhole == Spec => []NeverTruncated
  <1>1. IInv /\ SoundUntilOverlap => NeverTruncated
    BY DEF IInv, TypeOK, SoundUntilOverlap, Sound, DocumentsAreWhole, NeverTruncated, Whole
  <1> QED
    BY <1>1, Invariance, SoundnessLasts, PTL

-------------------------------------------------------------------------------
(* The durable document                                                        *)

\* What readers find, now and after a power failure, changes only with the files
\* that are or were the document.
LEMMA SameDocuments ==
  ASSUME IInv, names'["document"] = names["document"],
         namings' = namings \cup {names'},
         \A naming \in namings : naming["document"] # Nobody =>
           content'[naming["document"]] = content[naming["document"]]
  PROVE  Stored' = Stored /\ EarlierStored' = EarlierStored
  <1>1. names \in namings
    BY DEF IInv, TypeOK
  <1>2. \A naming \in namings : StoredAs(naming)' = StoredAs(naming)
    BY DEF StoredAs, ReadAs, Readable
  <1>3. StoredAs(names)' = StoredAs(names)
    BY <1>1, <1>2 DEF StoredAs, ReadAs, Readable
  <1>4. EarlierStored' = EarlierStored
    BY <1>1, <1>2, <1>3 DEF EarlierStored
  <1>5. Stored' = Stored
    BY <1>3 DEF Stored
  <1> QED
    BY <1>4, <1>5

\* A file that is nobody's document is made, emptied or written.
LEMMA OtherFilesDoNotMatter ==
  ASSUME IInv, NEW file \in Files,
         namings' = namings \cup {names'}, names'["document"] = names["document"],
         \A f \in Files \ {file} : content'[f] = content[f],
         \A naming \in namings : naming["document"] # file
  PROVE  Stored' = Stored /\ EarlierStored' = EarlierStored
  <1>1. \A naming \in namings : naming["document"] # Nobody => naming["document"] \in Files \ {file}
    BY DEF IInv, TypeOK, Names, MaybeFiles
  <1> QED
    BY <1>1, SameDocuments

\* Loading, with a backup or without one, and being killed leave the document as
\* it is, whoever else is there.
LEMMA LoadingStoresNothing ==
  ASSUME IInv, NEW i \in Instances, Loads(i) \/ Crash(i) \/ \E text \in Texts : BeginSave(i, text)
  PROVE  Stored' = Stored /\ EarlierStored' = EarlierStored
  <1>0. names \in namings
    BY DEF IInv, TypeOK
  <1>1. CASE \/ Start(i) \/ Load(i) \/ LoadFails(i) \/ Crash(i)
             \/ \E text \in Texts : BeginSave(i, text)
    <2>1. names' = names /\ namings' = namings /\ content' = content
      BY <1>1 DEF Start, Load, LoadFails, Crash, BeginSave, disk
    <2> QED
      BY <2>1, <1>0, SameDocuments
  <1>2. CASE BeginBackUp(i)
    <2>1. PICK file \in Files : Create("backup", file)
      BY <1>2 DEF BeginBackUp
    <2>2. /\ namings' = namings \cup {names'} /\ names'["document"] = names["document"]
          /\ names'["backup"] = file /\ content' = [content EXCEPT ![file] = Blank]
          /\ (names["backup"] = Nobody /\ file \in Unused) \/ names'["backup"] = names["backup"]
      BY <1>2, <2>1, CreateKeeps, IInvIs DEF BeginBackUp, history
    <2>3. \A naming \in namings : naming["document"] # file
      BY <2>2, FilesAssumption DEF Unused, Names, IInv, TypeOK, BackUpIsApart
    <2>4. \A f \in Files \ {file} : content'[f] = content[f]
      BY <2>2 DEF IInv, TypeOK
    <2> QED
      BY <2>2, <2>3, <2>4, OtherFilesDoNotMatter
  <1>3. CASE FinishBackUp(i)
    <2>1. PICK file : file = call[i].file
      OBVIOUS
    <2>2. file \in Files /\ file = names["backup"]
      BY <1>3, <2>1 DEF FinishBackUp, At, IInv, CallsKnowTheirFiles, KnowsItsFile
    <2>3. \A naming \in namings : naming["document"] # file
      BY <1>0, <2>2, FilesAssumption DEF IInv, BackUpIsApart
    <2>4. /\ content' = [content EXCEPT ![file] = content[names["document"]]]
          /\ UNCHANGED <<names, namings>>
      BY <1>3, <2>1 DEF FinishBackUp
    <2>5. \A f \in Files \ {file} : content'[f] = content[f]
      BY <2>4 DEF IInv, TypeOK
    <2>6. namings' = namings \cup {names'}
      BY <2>4, <1>0
    <2> QED
      BY <2>2, <2>3, <2>4, <2>5, <2>6, OtherFilesDoNotMatter
  <1> QED
    BY <1>1, <1>2, <1>3 DEF Loads

\* Of a save, with no other overlapping it, all but the rename leave it as it is.
LEMMA WritingStoresNothing ==
  ASSUME IInv, Sound, NEW i \in Instances,
         CreateTemporary(i) \/ WritePart(i) \/ Sync(i) \/ SaveFails(i)
  PROVE  Stored' = Stored /\ EarlierStored' = EarlierStored
  <1>0. names \in namings /\ names \in [Names -> MaybeFiles]
    BY DEF IInv, TypeOK
  <1>1. CASE CreateTemporary(i)
    <2>1. PICK file \in Files : Create("temporary", file)
      BY <1>1 DEF CreateTemporary
    <2>2. /\ namings' = namings \cup {names'} /\ names'["document"] = names["document"]
          /\ names'["temporary"] = file /\ content' = [content EXCEPT ![file] = Blank]
          /\ (names["temporary"] = Nobody /\ file \in Unused)
               \/ names'["temporary"] = names["temporary"]
      BY <1>1, <2>1, CreateKeeps, IInvIs DEF CreateTemporary, history
    <2>3. \A naming \in namings : naming["document"] # file
      BY <2>2, FilesAssumption DEF Unused, Names, Sound, FilesAreApart, Apart
    <2>4. \A f \in Files \ {file} : content'[f] = content[f]
      BY <2>2 DEF IInv, TypeOK
    <2> QED
      BY <2>2, <2>3, <2>4, OtherFilesDoNotMatter
  <1>2. CASE WritePart(i)
    <2>1. PICK file : file = call[i].file
      OBVIOUS
    <2>2. file \in Files /\ file = names["temporary"]
      BY <1>2, <2>1 DEF WritePart, At, IInv, CallsKnowTheirFiles, KnowsItsFile,
                        Sound, CallsWriteTheirOwn, WritesItsOwn, Saving
    <2>3. \A naming \in namings : naming["document"] # file
      BY <2>2, FilesAssumption DEF Sound, FilesAreApart, Apart
    <2>4. /\ \A f \in Files \ {file} : content'[f] = content[f]
          /\ UNCHANGED <<names, namings>>
      BY <1>2, <2>1 DEF WritePart, Write, IInv, TypeOK
    <2>5. namings' = namings \cup {names'}
      BY <2>4, <1>0
    <2> QED
      BY <2>2, <2>3, <2>4, <2>5, OtherFilesDoNotMatter
  <1>3. CASE Sync(i)
    BY <1>3, <1>0, SameDocuments DEF Sync
  <1>4. CASE SaveFails(i)
    <2>1. /\ namings' = namings \cup {names'} /\ names'["document"] = names["document"]
          /\ content' = content
      BY <1>4, <1>0 DEF SaveFails, Rename, Names, MaybeFiles
    <2> QED
      BY <2>1, SameDocuments
  <1> QED
    BY <1>1, <1>2, <1>3, <1>4

\* At first the original is what readers find.
LEMMA OriginalIsStored == Init => Stored = original
  <1> SUFFICES ASSUME Init PROVE Stored = original
    OBVIOUS
  <1>1. PICK f \in Files :
          /\ names = [NoNames EXCEPT !["document"] = IF original = Missing THEN Nobody ELSE f]
          /\ content = [g \in Files |-> IF g = f THEN Written(original) ELSE Blank]
    BY DEF Init
  <1>2. names["document"] = IF original = Missing THEN Nobody ELSE f
    BY <1>1 DEF NoNames, Names
  <1>3. f # Nobody /\ content[f] = Written(original)
    BY <1>1, FilesAssumption
  <1> QED
    BY <1>2, <1>3, WrittenIsRead DEF Stored, StoredAs

\* Before the first step, one document is stored and nobody is saving another.
LEMMA InitPromise == Init => Promise!Init
  <1> SUFFICES ASSUME Init PROVE Promise!Init
    OBVIOUS
  <1>1. Stored = original /\ original \in Originals
    BY OriginalIsStored DEF Init
  <1>2. EarlierStored = {Stored}
    BY DEF Init, EarlierStored, Stored
  <1>3. Asked = {}
    BY DEF Init, Asked, Between, Call, Saving
  <1> QED
    BY <1>1, <1>2, <1>3 DEF Promise!Init

\* Only the rename replaces the document, and by what was being saved.
LEMMA RenameSaves ==
  ASSUME IInv, Sound, NEW i \in Instances, RenameOver(i)
  PROVE  Promise!Save
  <1>0. PICK new, d : /\ d = call[i].saving
                      /\ new = [names EXCEPT !["document"] = names["temporary"],
                                            !["temporary"] = Nobody]
    OBVIOUS
  <1>1. /\ call[i].at = "renaming" /\ names["temporary"] # Nobody
        /\ names' = new /\ namings' = namings \cup {new} /\ content' = content
        /\ call' = [call EXCEPT ![i] = Between("idle")]
    BY <1>0 DEF RenameOver, At, Rename, Goes
  <1>2. /\ d \in Savable /\ call[i].parts = 2
        /\ \A part \in 1 .. call[i].parts : content[names["temporary"]][part] = d
    BY <1>0, <1>1 DEF IInv, CallsKnowTheirFiles, KnowsItsFile,
                      Sound, CallsWriteTheirOwn, WritesItsOwn, Saving
  <1>3. new["document"] = names["temporary"]
    BY <1>0 DEF IInv, TypeOK, Names
  <1>4. d # Missing
    BY <1>2, Distinct DEF Savable
  <1>5. StoredAs(new)' = d
    BY <1>1, <1>2, <1>3, <1>4 DEF StoredAs, ReadAs, Readable
  <1>6. \A naming \in namings : StoredAs(naming)' = StoredAs(naming)
    BY <1>1 DEF StoredAs, ReadAs, Readable
  <1>7. Stored' = d
    BY <1>1, <1>5 DEF Stored
  <1>8. EarlierStored' = EarlierStored \cup {d}
    BY <1>1, <1>5, <1>6 DEF EarlierStored
  <1>9. d \in Asked
    BY <1>0, <1>1 DEF Asked, Saving
  <1>10. Asked' \in SUBSET Asked
    BY <1>1 DEF Asked, Between, Call, Saving, IInv, TypeOK
  <1> QED
    BY <1>7, <1>8, <1>9, <1>10 DEF Promise!Save

\* After a power failure readers find what was stored by some earlier naming.
LEMMA PowerCutComesBack ==
  ASSUME IInv, Sound, PowerCut
  PROVE  Promise!ComeBack
  <1>1. names' \in namings /\ namings' = {names'} /\ call' = [i \in Instances |-> Between("off")]
    BY DEF PowerCut
  <1>2. names'["document"] # Nobody => content'[names'["document"]] = content[names'["document"]]
    BY <1>1, PowerCutIsSound
  <1>3. PICK naming \in namings : naming = names'
    BY <1>1
  <1>4. StoredAs(naming)' = StoredAs(naming)
    BY <1>2, <1>3 DEF StoredAs, ReadAs, Readable
  <1>5. Stored' \in EarlierStored
    BY <1>3, <1>4 DEF Stored, StoredAs, EarlierStored
  <1>6. EarlierStored' = {Stored'}
    BY <1>1 DEF Stored, EarlierStored
  <1>7. Asked' = {}
    BY <1>1 DEF Asked, Between, Call, Saving
  <1> QED
    BY <1>5, <1>6, <1>7 DEF Promise!ComeBack

\* As long as no two saves overlap, what readers find is the durable document, for
\* any number of instances: replaced in one step, by what one of them was saving, or
\* not at all; and a power failure brings nothing back that was not once stored.
THEOREM Refinement == Spec => ImplementsDurable
  <1>1. Init => Promise!Init
    BY InitPromise
  <1>2. ASSUME IInv, IInv', SoundUntilOverlap, SoundUntilOverlap', [Next]_vars, ~overlapped'
        PROVE  [Promise!Next]_(Promise!vars)
    <2>0. Sound
      BY <1>2, OverlapsAreRemembered DEF SoundUntilOverlap
    <2>1. CASE UNCHANGED vars
      <3>1. UNCHANGED <<names, namings, content, call>>
        BY <2>1 DEF vars
      <3> QED
        BY <3>1 DEF Promise!vars, Stored, StoredAs, ReadAs, Readable, EarlierStored, Asked
    <2>2. CASE PowerCut
      BY <2>0, <2>2, <1>2, PowerCutComesBack DEF Promise!Next
    <2>3. ASSUME NEW i \in Instances, Loads(i) \/ Saves(i) \/ Crash(i)
          PROVE  Promise!Next
      <3>1. CASE RenameOver(i)
        BY <2>0, <3>1, <1>2, RenameSaves DEF Promise!Next
      <3>2. CASE ~RenameOver(i)
        <4>1. Stored' = Stored /\ EarlierStored' = EarlierStored
          BY <2>0, <3>2, <2>3, <1>2, LoadingStoresNothing, WritingStoresNothing DEF Saves
        <4>2. Asked' \in SUBSET Savable
          BY <1>2 DEF Asked, IInv, CallsKnowTheirFiles, KnowsItsFile
        <4> QED
          BY <4>1, <4>2 DEF Promise!Next, Promise!Ask
      <3> QED
        BY <3>1, <3>2
    <2> QED
      BY <1>2, <2>1, <2>2, <2>3 DEF Next
  <1>3. IInv /\ IInv' /\ SoundUntilOverlap /\ SoundUntilOverlap' /\ [Next]_vars
          => [overlapped' \/ Promise!Next]_(Promise!vars)
    BY <1>2
  <1> QED
    BY <1>1, <1>3, Invariance, SoundnessLasts, PTL DEF Spec, ImplementsDurable

-------------------------------------------------------------------------------
(* The backup                                                                  *)

\* What a build can save is not older than the build.
LEMMA SavableIsCurrent ==
  ASSUME NEW d \in Savable
  PROVE  ~IsOlder(d) /\ IsCurrent(d)
  <1>1. PICK text \in Texts : d = Document(VERSION, text)
    BY DEF Savable
  <1>2. d.version = VERSION
    BY <1>1 DEF Document
  <1> QED
    BY <1>1, <1>2, Distinct, VersionAssumption DEF IsOlder, IsCurrent

\* An older document can only be the original, however the saves that made what is
\* found got mixed up.
LEMMA OnlyTheOriginalIsOlder ==
  ASSUME IInv, IsOlder(Stored)
  PROVE  Stored = original
  <1>1. names["document"] # Nobody
    BY DEF Stored, StoredAs, IsOlder
  <1>2. Stored = ReadAs(content[names["document"]]) /\ Stored # Malformed
    BY <1>1 DEF Stored, StoredAs, IsOlder
  <1>3. Stored = content[names["document"]][1] /\ Stored # Missing
    BY <1>2 DEF ReadAs, IsOlder
  <1>4. names["document"] \in Files
    BY <1>1 DEF IInv, TypeOK, Names, MaybeFiles
  <1>5. Stored \in {Missing, original} \cup Savable
    BY <1>3, <1>4 DEF IInv, TextsAreOurs, Parts
  <1> QED
    BY <1>3, <1>5, SavableIsCurrent

\* A backup is as it was when its name and the file of that name are.
LEMMA BackUpStays ==
  ASSUME names'["backup"] = names["backup"], original' = original,
         names["backup"] # Nobody => content'[names["backup"]] = content[names["backup"]]
  PROVE  BackedUp' <=> BackedUp
  BY DEF BackedUp, ReadAs, Readable

\* Only the making of a backup touches the backup.
LEMMA BackUpIsLeftAlone ==
  ASSUME IInv, NEW i \in Instances,
         \/ Start(i) \/ Load(i) \/ LoadFails(i) \/ Crash(i)
         \/ Saves(i)
  PROVE  BackedUp' <=> BackedUp
  <1>1. /\ names \in [Names -> MaybeFiles] /\ names \in namings
        /\ content \in [Files -> [Parts -> AllDocuments]]
    BY DEF IInv, TypeOK
  <1>2. names["backup"] # Nobody =>
          /\ names["backup"] \in Files
          /\ \A naming \in namings : names["backup"] \notin {naming["temporary"], naming["document"]}
    BY <1>1 DEF IInv, BackUpIsApart, Names, MaybeFiles
  <1>3. CASE \/ Start(i) \/ Load(i) \/ LoadFails(i) \/ Crash(i)
             \/ \E text \in Texts : BeginSave(i, text)
    <2>1. UNCHANGED <<names, content, original>>
      BY <1>3 DEF Start, Load, LoadFails, Crash, BeginSave, disk, history
    <2> QED
      BY <2>1, BackUpStays
  <1>4. CASE CreateTemporary(i)
    <2>1. PICK file \in Files : Create("temporary", file)
      BY <1>4 DEF CreateTemporary
    <2>2. /\ names'["temporary"] = file /\ names'["backup"] = names["backup"]
          /\ (names["temporary"] = Nobody /\ file \in Unused)
               \/ names'["temporary"] = names["temporary"]
          /\ content' = [content EXCEPT ![file] = Blank] /\ original' = original
      BY <1>4, <2>1, CreateKeeps, IInvIs DEF CreateTemporary, history
    <2>3. names["backup"] # Nobody => names["backup"] # file
      BY <2>2, <1>1, <1>2 DEF Unused, Names
    <2>4. names["backup"] # Nobody => content'[names["backup"]] = content[names["backup"]]
      BY <2>2, <2>3, <1>1, <1>2
    <2> QED
      BY <2>2, <2>4, BackUpStays
  <1>5. CASE WritePart(i)
    <2>1. \E naming \in namings : call[i].file \in {naming["temporary"], naming["document"]}
      BY <1>5 DEF WritePart, At, IInv, CallsKnowTheirFiles, KnowsItsFile, Saving
    <2>2. \A f \in Files \ {call[i].file} : content'[f] = content[f]
      BY <1>5, <1>1 DEF WritePart, Write
    <2>3. names' = names /\ original' = original
      BY <1>5 DEF WritePart, history
    <2> QED
      BY <2>1, <2>2, <2>3, <1>2, BackUpStays
  <1>6. CASE Sync(i)
    BY <1>6, BackUpStays DEF Sync, history
  <1>7. CASE RenameOver(i) \/ SaveFails(i)
    <2>1. names'["backup"] = names["backup"]
      BY <1>7, RenamingKeeps
    <2>2. content' = content /\ original' = original
      BY <1>7 DEF RenameOver, SaveFails, history
    <2> QED
      BY <2>1, <2>2, BackUpStays
  <1> QED
    BY <1>3, <1>4, <1>5, <1>6, <1>7 DEF Saves

\* Somebody is loading, or working; and one who is loading has loaded nothing.
LEMMA WhoWorks ==
  ASSUME IInv, BackUpInv, NEW j \in Instances
  PROVE  /\ call[j].at \in Copying => call[j].at \notin Working /\ loaded[j] = "none"
         /\ call[j].at \in Saving => call[j].at \in Working
         /\ loaded[j] # "none" <=> call[j].at \in Working
  BY DEF BackUpInv, BacksUpFirst, Copying, Working, Saving

\* One call moves.  Another instance that makes a backup still finds the original
\* there, and one that loaded it still has it in the backup.
LEMMA OthersBackUp ==
  ASSUME IInv, BackUpInv, NEW i \in Instances, NEW c \in Calls, Goes(i, c),
         loaded' \in [Instances -> {"none", "ok", "failed"}],
         \A j \in Instances \ {i} : loaded'[j] = loaded[j],
         Upgrading' => Upgrading, original' = original,
         BacksUpFirst(i)', OriginalIsKept',
         Upgrading /\ Stored' # Stored => call[i].at \in Working,
         Upgrading /\ BackedUp /\ ~BackedUp' => call[i].at \in Copying
  PROVE  BackUpInv'
  <1>1. call' = [call EXCEPT ![i] = c] /\ call \in [Instances -> Calls]
    BY DEF Goes, IInv, TypeOK
  <1>2. \A j \in Instances \ {i} : call'[j] = call[j]
    BY <1>1
  <1>3. Upgrading' => \A j \in Instances \ {i} :
          /\ ~(c.at \in Copying /\ call[j].at \in Working)
          /\ ~(c.at \in Working /\ call[j].at \in Copying)
    BY DEF Goes, Upgrading
  <1>4. NobodyWorks'
    <2> SUFFICES ASSUME Upgrading', NEW j \in Instances, NEW k \in Instances,
                        call'[j].at \in Copying, call'[k].at \in Working
                 PROVE  FALSE
      BY DEF NobodyWorks
    <2>1. CASE j = k
      BY <2>1 DEF Copying, Working, Saving
    <2>2. CASE j # k /\ j # i /\ k # i
      BY <2>2, <1>2 DEF BackUpInv, NobodyWorks
    <2>3. CASE j # k /\ (j = i \/ k = i)
      BY <2>3, <1>1, <1>2, <1>3
    <2> QED
      BY <2>1, <2>2, <2>3
  <1>5. ASSUME NEW j \in Instances \ {i}
        PROVE  BacksUpFirst(j)'
    <2>1. call'[j] = call[j] /\ loaded'[j] = loaded[j] /\ BacksUpFirst(j)
      BY <1>2 DEF BackUpInv
    <2>2. ASSUME Upgrading', call[j].at \in Copying PROVE Stored' = original'
      <3>1. call[i].at \notin Working /\ Stored = original
        BY <2>1, <2>2 DEF BackUpInv, NobodyWorks, BacksUpFirst
      <3> QED
        BY <3>1, <2>2
    <2>3. ASSUME Upgrading', loaded[j] = "ok" PROVE BackedUp'
      <3>1. call[j].at \in Working /\ BackedUp
        BY <2>1, <2>3 DEF BacksUpFirst
      <3>2. call[i].at \notin Copying
        BY <2>3, <3>1 DEF BackUpInv, NobodyWorks
      <3> QED
        BY <3>1, <3>2, <2>3
    <2> QED
      BY <2>1, <2>2, <2>3 DEF BacksUpFirst
  <1> QED
    BY <1>4, <1>5 DEF BackUpInv

\* At first the original is what is stored.
LEMMA InitBackUp == Init => BackUpInv
  <1> SUFFICES ASSUME Init PROVE BackUpInv
    OBVIOUS
  <1>1. Stored = original
    BY OriginalIsStored
  <1>2. \A i \in Instances : call[i].at = "off" /\ loaded[i] = "none"
    BY DEF Init, Between, Call
  <1> QED
    BY <1>1, <1>2 DEF BackUpInv, OriginalIsKept, NobodyWorks, BacksUpFirst, Copying, Working, Saving

\* Loading: what is older is copied aside, and what replaced it was saved after.
LEMMA LoadBackUp ==
  ASSUME IInv, BackUpInv, NEW i \in Instances,
         Start(i) \/ Load(i) \/ LoadFails(i) \/ Crash(i)
  PROVE  BackUpInv'
  <1>1. (BackedUp' <=> BackedUp) /\ Stored' = Stored
    BY BackUpIsLeftAlone, LoadingStoresNothing DEF Loads
  <1>2. original' = original /\ blind' = blind /\ cuts' = cuts
    BY DEF Start, Load, LoadFails, Crash, history, counters
  <1>3. PICK at \in {"off", "starting", "copying", "idle"} : Goes(i, Between(at))
    BY DEF Start, Load, LoadFails, Crash
  <1>4. at \in Steps \ (Saving \cup {"copied"})
    BY DEF Steps, Copying, Working, Saving
  <1>5. Between(at) \in Calls /\ Between(at).at = at /\ call'[i].at = at
    BY <1>3, <1>4, BetweenIsCall DEF Goes, IInv, TypeOK
  <1>6. Upgrading' => Upgrading
    BY <1>2, <1>3 DEF Upgrading, IsOlder, Goes
  <1>7. OriginalIsKept'
    BY <1>1, <1>2, <1>6 DEF BackUpInv, OriginalIsKept
  <1>8. /\ loaded' \in [Instances -> {"none", "ok", "failed"}]
        /\ \A j \in Instances \ {i} : loaded'[j] = loaded[j]
    <2>1. CASE Start(i)
      BY <2>1 DEF Start, IInv, TypeOK
    <2>2. CASE Load(i) \/ LoadFails(i) \/ Crash(i)
      BY <2>2 DEF Load, LoadFails, Crash, Loaded, IInv, TypeOK
    <2> QED
      BY <2>1, <2>2
  <1>9. BacksUpFirst(i) /\ OriginalIsKept /\ i \in DOMAIN loaded /\ i \in DOMAIN call
    BY DEF BackUpInv, IInv, TypeOK
  <1>10. BacksUpFirst(i)'
    <2> USE DEF Copying, Working, Saving
    <2>1. CASE Start(i)
      <3>1. call'[i].at = "starting" /\ loaded' = loaded /\ call[i].at = "off"
        BY <2>1, <1>9 DEF Start, Goes, At, Between, Call
      <3> QED
        BY <3>1, <1>9 DEF BacksUpFirst
    <2>2. CASE Load(i) /\ IsOlder(Stored)
      <3>1. call'[i].at = "copying" /\ loaded' = loaded /\ call[i].at = "starting"
        BY <2>2, <1>9 DEF Load, Goes, At, Between, Call
      <3>2. Stored = original
        BY <2>2, OnlyTheOriginalIsOlder
      <3> QED
        BY <3>1, <3>2, <1>1, <1>2, <1>9 DEF BacksUpFirst
    <2>3. CASE Load(i) /\ ~IsOlder(Stored)
      <3>1. call'[i].at = "idle" /\ loaded'[i] \in {"ok", "failed"}
        BY <2>3, <1>9 DEF Load, Goes, Loaded, Between, Call
      <3>2. Upgrading => BackedUp
        BY <2>3, <1>9 DEF OriginalIsKept, Upgrading
      <3> QED
        BY <3>1, <3>2, <1>1, <1>6 DEF BacksUpFirst
    <2>4. CASE LoadFails(i)
      <3>1. call'[i].at = "idle" /\ loaded'[i] = "failed"
        BY <2>4, <1>9 DEF LoadFails, Goes, Loaded, Between, Call
      <3> QED
        BY <3>1 DEF BacksUpFirst
    <2>5. CASE Crash(i)
      <3>1. call'[i].at = "off" /\ loaded'[i] = "none"
        BY <2>5, <1>9 DEF Crash, Goes, Loaded, Between, Call
      <3> QED
        BY <3>1 DEF BacksUpFirst
    <2> QED
      BY <2>1, <2>2, <2>3, <2>4, <2>5
  <1> QED
    BY <1>1, <1>2, <1>3, <1>5, <1>6, <1>7, <1>8, <1>10, OthersBackUp

\* While the backup is made, what it is made of is still stored.
LEMMA MakeBackUp ==
  ASSUME IInv, BackUpInv, NEW i \in Instances, BeginBackUp(i) \/ FinishBackUp(i)
  PROVE  BackUpInv'
  <1>1. Stored' = Stored
    BY LoadingStoresNothing DEF Loads
  <1>2. original' = original /\ blind' = blind /\ cuts' = cuts
    BY DEF BeginBackUp, FinishBackUp, history, counters
  <1>3. Upgrading' => Upgrading
    BY <1>2 DEF Upgrading, IsOlder, BeginBackUp, FinishBackUp, Goes
  <1>4. call[i].at \in Copying /\ BacksUpFirst(i)
    BY DEF BeginBackUp, FinishBackUp, At, BackUpInv, Copying
  <1>5. (Upgrading => Stored = original) /\ loaded[i] = "none"
    BY <1>4 DEF BacksUpFirst, Copying, Working, Saving
  <1>6. OriginalIsKept'
    BY <1>1, <1>2, <1>3, <1>5 DEF OriginalIsKept
  <1>7. i \in DOMAIN call /\ i \in DOMAIN loaded
    BY DEF IInv, TypeOK
  <1>8. CASE BeginBackUp(i)
    <2>1. PICK file \in Files : Goes(i, Call("copied", file, 0, Missing))
      BY <1>8 DEF BeginBackUp
    <2>2. /\ Call("copied", file, 0, Missing) \in Calls
          /\ Call("copied", file, 0, Missing).at = "copied"
      BY CallIsCall DEF Steps, Copying, MaybeFiles, AllDocuments
    <2>3. call'[i].at = "copied" /\ loaded' = loaded
      BY <1>7, <1>8, <2>1, <2>2 DEF BeginBackUp, Goes
    <2>4. BacksUpFirst(i)'
      BY <2>3, <1>1, <1>2, <1>3, <1>5 DEF BacksUpFirst, Copying, Working, Saving
    <2>5. loaded' \in [Instances -> {"none", "ok", "failed"}]
      BY <2>3 DEF IInv, TypeOK
    <2> QED
      BY <2>1, <2>2, <2>3, <2>4, <2>5, <1>1, <1>2, <1>3, <1>4, <1>6, OthersBackUp
  <1>9. CASE FinishBackUp(i)
    <2>1. call'[i].at = "idle" /\ loaded'[i] \in {"ok", "failed"} /\ Goes(i, Between("idle"))
      BY <1>9, <1>7 DEF FinishBackUp, Goes, Loaded, Between, Call
    <2>2. /\ call[i].file \in Files /\ call[i].file = names["backup"]
      BY <1>9 DEF FinishBackUp, At, IInv, CallsKnowTheirFiles, KnowsItsFile
    <2>3. /\ names' = names /\ names["document"] # Nobody
          /\ content' = [content EXCEPT ![call[i].file] = content[names["document"]]]
      BY <1>9 DEF FinishBackUp
    <2>4. content'[names["backup"]] = content[names["document"]] /\ names["backup"] # Nobody
      BY <2>2, <2>3, FilesAssumption DEF IInv, TypeOK
    <2>5. Stored = ReadAs(content[names["document"]])
      BY <2>3 DEF Stored, StoredAs
    <2>6. Upgrading => BackedUp'
      BY <2>3, <2>4, <2>5, <1>2, <1>5 DEF BackedUp, ReadAs, Readable
    <2>7. BacksUpFirst(i)'
      BY <2>1, <2>6, <1>3 DEF BacksUpFirst, Copying, Working, Saving
    <2>8. /\ loaded' \in [Instances -> {"none", "ok", "failed"}]
          /\ \A j \in Instances \ {i} : loaded'[j] = loaded[j]
      BY <1>9 DEF FinishBackUp, Loaded, IInv, TypeOK
    <2>9. Between("idle") \in Calls
      BY BetweenIsCall DEF Steps, Working, Saving
    <2> QED
      BY <2>1, <2>7, <2>8, <2>9, <1>1, <1>2, <1>3, <1>4, <1>6, OthersBackUp
  <1> QED
    BY <1>8, <1>9

\* Saving: only an instance that backed the original up replaces it, unless blind,
\* and whatever it replaces it by.
LEMMA SaveBackUp ==
  ASSUME IInv, BackUpInv, NEW i \in Instances, Saves(i)
  PROVE  BackUpInv'
  <1>1. BackedUp' <=> BackedUp
    BY BackUpIsLeftAlone
  <1>2. original' = original /\ cuts' = cuts /\ loaded' = loaded /\ (blind => blind')
    <2>1. CASE \E text \in Texts : BeginSave(i, text)
      BY <2>1 DEF BeginSave
    <2>2. CASE CreateTemporary(i) \/ WritePart(i)
      BY <2>2 DEF CreateTemporary, WritePart, history, counters
    <2>3. CASE Sync(i) \/ RenameOver(i) \/ SaveFails(i)
      BY <2>3 DEF Sync, RenameOver, SaveFails, history, counters
    <2> QED
      BY <2>1, <2>2, <2>3 DEF Saves
  <1>3. PICK c : Goes(i, c) /\ c.at \in Saving \cup {"idle"}
    <2>1. \A at, file, n, d : Call(at, file, n, d).at = at
      BY DEF Call
    <2>2. CASE \E text \in Texts : BeginSave(i, text)
      BY <2>1, <2>2 DEF BeginSave, Saving
    <2>3. CASE CreateTemporary(i) \/ Sync(i)
      BY <2>1, <2>3 DEF CreateTemporary, Sync, Saving
    <2>4. CASE WritePart(i)
      BY <2>1, <2>4 DEF WritePart, Saving
    <2>5. CASE RenameOver(i) \/ SaveFails(i)
      BY <2>1, <2>5 DEF RenameOver, SaveFails, Between
    <2> QED
      BY <2>2, <2>3, <2>4, <2>5 DEF Saves
  <1>4. /\ call' \in [Instances -> Calls] /\ call' = [call EXCEPT ![i] = c]
        /\ c \in Calls /\ call'[i] = c
    <2>1. IInv'
      BY QuietKeeps, CreateTemporaryKeeps, WritePartKeeps, SyncKeeps, RenamingKeeps DEF Saves
    <2> QED
      BY <2>1, <1>3 DEF IInv, TypeOK, Goes
  <1>5. Upgrading' => Upgrading
    BY <1>2, <1>3 DEF Upgrading, IsOlder, Goes
  <1>6. BacksUpFirst(i) /\ OriginalIsKept /\ loaded[i] \in {"none", "ok", "failed"}
    BY DEF IInv, TypeOK, BackUpInv
  <1>7. call[i].at \in Saving \cup {"idle"}
    BY DEF Saves, BeginSave, CreateTemporary, WritePart, Sync, RenameOver, SaveFails, At, Saving
  <1>8. loaded[i] # "none"
    BY <1>6, <1>7 DEF BacksUpFirst, Working
  <1>9. Upgrading' /\ c.at \in Saving => loaded[i] = "ok"
    <2>1. CASE \E text \in Texts : BeginSave(i, text)
      BY <2>1, <1>6, <1>8 DEF BeginSave, Upgrading
    <2>2. CASE ~\E text \in Texts : BeginSave(i, text)
      <3>1. call[i].at \in Saving
        BY <2>2 DEF Saves, CreateTemporary, WritePart, Sync, RenameOver, SaveFails, At, Saving
      <3> QED
        BY <3>1, <1>5, <1>6 DEF BacksUpFirst
    <2> QED
      BY <2>1, <2>2
  <1>10. BacksUpFirst(i)'
    BY <1>1, <1>2, <1>3, <1>4, <1>5, <1>6, <1>8, <1>9 DEF BacksUpFirst, Copying, Working, Saving
  <1>11. OriginalIsKept'
    <2>1. CASE \E text \in Texts : BeginSave(i, text)
      <3>1. Stored' = Stored
        BY <2>1, LoadingStoresNothing
      <3> QED
        BY <3>1, <1>1, <1>2, <1>5, <1>6 DEF OriginalIsKept
    <2>2. CASE ~\E text \in Texts : BeginSave(i, text)
      <3>1. call[i].at \in Saving
        BY <2>2 DEF Saves, CreateTemporary, WritePart, Sync, RenameOver, SaveFails, At, Saving
      <3>2. Upgrading => BackedUp
        BY <3>1, <1>6 DEF BacksUpFirst
      <3> QED
        BY <3>2, <1>1, <1>5 DEF OriginalIsKept
    <2> QED
      BY <2>1, <2>2
  <1>12. /\ loaded' \in [Instances -> {"none", "ok", "failed"}]
         /\ \A j \in Instances \ {i} : loaded'[j] = loaded[j]
         /\ call[i].at \in Working
    BY <1>2, <1>7 DEF IInv, TypeOK, Working
  <1> QED
    BY <1>1, <1>2, <1>3, <1>4, <1>5, <1>10, <1>11, <1>12, OthersBackUp

\* The power fails: nothing is promised of the backup any more.
LEMMA CutBackUp ==
  ASSUME IInv, PowerCut
  PROVE  BackUpInv'
  <1>1. cuts' = cuts + 1 /\ cuts \in Nat
    BY DEF PowerCut, IInv, TypeOK
  <1>2. ~Upgrading'
    BY <1>1 DEF Upgrading
  <1>3. \A i \in Instances : call'[i].at = "off" /\ loaded'[i] = "none"
    BY DEF PowerCut, Between, Call
  <1> QED
    BY <1>2, <1>3 DEF BackUpInv, OriginalIsKept, NobodyWorks, BacksUpFirst, Working, Saving

LEMMA NextBackUp ==
  ASSUME IInv, BackUpInv, [Next]_vars
  PROVE  BackUpInv'
  <1>1. CASE UNCHANGED vars
    BY <1>1 DEF vars, BackUpInv, OriginalIsKept, NobodyWorks, BacksUpFirst, Upgrading, IsOlder,
                BackedUp, Stored, StoredAs, ReadAs, Readable
  <1>2. CASE PowerCut
    BY <1>2, CutBackUp
  <1>3. ASSUME NEW i \in Instances, Loads(i) \/ Saves(i) \/ Crash(i)
        PROVE  BackUpInv'
    BY <1>3, LoadBackUp, MakeBackUp, SaveBackUp DEF Loads
  <1> QED
    BY <1>1, <1>2, <1>3 DEF Next

\* A document from an older build is never lost to an upgrade, however many
\* instances save at once and however they are cut short: it is still stored or
\* its copy is in the backup, as long as the power holds, no instance saves that
\* could not load, and none backs it up while another works with it already
\* (store.rs, back_up before migrate).
THEOREM OriginalSurvives == Spec => []OriginalIsKept
  <1>1. Init => BackUpInv
    BY InitBackUp
  <1>2. IInv /\ BackUpInv /\ [Next]_vars => BackUpInv'
    BY NextBackUp
  <1>3. BackUpInv => OriginalIsKept
    BY DEF BackUpInv
  <1> QED
    BY <1>1, <1>2, <1>3, Invariance, PTL DEF Spec
==============================================================================
