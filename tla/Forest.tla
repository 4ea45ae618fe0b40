------------------------------- MODULE Forest -------------------------------
(***************************************************************************)
(* What crates/core-model promises of a session tree: a forest of folders  *)
(* and sessions, each node with one parent, no folder inside itself, and   *)
(* nothing that cannot be reached from the top level.  Only the parents    *)
(* are kept here: the order of siblings, and the child lists that hold it, *)
(* are SessionTree's.                                                      *)
(***************************************************************************)
CONSTANTS NodeIds,   \* the identities nodes are given
          Top        \* stands for no parent: the top level

\* What makes the top level no node; whoever instantiates this module has it.
TopIsNoNode == Top \notin NodeIds

VARIABLES nodes,     \* the nodes in the tree
          folders,   \* those that may have children
          parent     \* the folder each node is in

vars == <<nodes, folders, parent>>

Init ==
  /\ nodes = {}
  /\ folders = {}
  /\ parent = [n \in NodeIds |-> Top]

\* Holds everything that is in it.
Closed(S) == \A n \in nodes : parent[n] \in S => n \in S

\* A node and everything in it, however deep.
Below(id) == {n \in nodes : \A S \in SUBSET nodes : id \in S /\ Closed(S) => n \in S}

Insert(id, p) ==
  /\ id \notin nodes
  /\ p \in folders \cup {Top}
  /\ nodes' = nodes \cup {id}
  /\ folders' \in {folders, folders \cup {id}}
  /\ parent' = [parent EXCEPT ![id] = p]

Remove(id) ==
  /\ id \in nodes
  /\ nodes' = nodes \ Below(id)
  /\ folders' = folders \ Below(id)
  /\ parent' = [n \in NodeIds |-> IF n \in Below(id) THEN Top ELSE parent[n]]

\* Anywhere but into itself or what is below it.
MayMove(id, p) == p \in (folders \ Below(id)) \cup {Top}

Move(id, p) ==
  /\ id \in nodes
  /\ MayMove(id, p)
  /\ parent' = [parent EXCEPT ![id] = p]
  /\ UNCHANGED <<nodes, folders>>

-----------------------------------------------------------------------------

TypeOK ==
  /\ nodes \subseteq NodeIds
  /\ folders \subseteq nodes
  /\ parent \in [NodeIds -> NodeIds \cup {Top}]

InFolders == \A n \in nodes : parent[n] \in folders \cup {Top}

\* However nodes are picked, one of them has its parent among the others not
\* picked: nothing goes round in a circle.
Acyclic == \A S \in SUBSET nodes : S # {} => \E n \in S : parent[n] \notin S

IsForest == TypeOK /\ InFolders /\ Acyclic

Next ==
  \/ \E id \in NodeIds, p \in NodeIds \cup {Top} : Insert(id, p) \/ Move(id, p)
  \/ \E id \in NodeIds : Remove(id)

Spec == Init /\ [][Next]_vars
=============================================================================
