----------------------------- MODULE SessionTree -----------------------------
(***************************************************************************)
(* The session tree of crates/core-model as it is stored: a map of nodes,  *)
(* each with a pointer to its parent and an ordered list of its children,  *)
(* and the list of the top level.  The two halves say the same thing twice *)
(* and different operations trust different halves: move_node looks for a  *)
(* cycle along the parents, remove finds its victims along the children.   *)
(*                                                                         *)
(* Names, settings, icons and comments hang off a node and decide nothing  *)
(* here.  The list of the top level is children[Top].                      *)
(***************************************************************************)
EXTENDS Naturals, Sequences, SequencesExt

CONSTANTS NodeIds,   \* the identities nodes are given
          Top        \* stands for no parent

ASSUME TopAssumption == Top \notin NodeIds

VARIABLES nodes,     \* the keys of the map
          folders,   \* those that are folders; a node never changes its kind
          parent,    \* Top for the top level, and for what is not in the map
          children   \* the ordered lists; <<>> for what is not in the map

treeVars == <<nodes, folders, parent, children>>

Owners == NodeIds \cup {Top}

TreeInit ==
  /\ nodes = {}
  /\ folders = {}
  /\ parent = [n \in NodeIds |-> Top]
  /\ children = [p \in Owners |-> <<>>]

------------------------------------------------------------------------------
(* What the operations ask of the tree                                     *)

\* No parent, or a folder: NotAFolder and UnknownNode otherwise.
MayHold(p) == p \in folders \cup {Top}

\* The nodes met climbing from id to the top level, without id.
Ancestors(id) ==
  {a \in nodes : \A S \in SUBSET nodes :
     /\ parent[id] \in S \cup {Top}
     /\ \A n \in S : parent[n] \in S \cup {Top}
     => a \in S}

\* Mutant: only the node and its own children are found.
SubtreeOneLevel(id) == {id} \cup ToSet(children[id])

\* The nodes met going down the child lists from id, id included.
Subtree(id) ==
  {n \in nodes : \A S \in SUBSET nodes :
     /\ id \in S
     /\ \A m \in S : ToSet(children[m]) \cap nodes \subseteq S
     => n \in S}

\* retain(|child| child != id), on a list that holds id at most once.
Without(list, id) ==
  IF \E i \in DOMAIN list : list[i] = id
  THEN RemoveAt(list, CHOOSE i \in DOMAIN list : list[i] = id)
  ELSE list

\* The list with id at a position counted from 0; at its end when there is no
\* such position, or none was asked for.
WithAt(list, index, id) ==
  InsertAt(list, IF index < Len(list) THEN index + 1 ELSE Len(list) + 1, id)

------------------------------------------------------------------------------
(* The operations                                                          *)

\* add_folder and add_session, with an identity nothing else has.
AddNode(id, p) ==
  /\ id \notin nodes
  /\ MayHold(p)
  /\ nodes' = nodes \cup {id}
  /\ folders' \in {folders, folders \cup {id}}
  /\ parent' = [parent EXCEPT ![id] = p]
  /\ children' = [children EXCEPT ![p] = Append(@, id)]

\* remove: the node is unlinked from its parent, then everything found below it
\* leaves the map.
RemoveNode(id) ==
  LET doomed == Subtree(id) IN
  /\ id \in nodes
  /\ nodes' = nodes \ doomed
  /\ folders' = folders \ doomed
  /\ parent' = [n \in NodeIds |-> IF n \in doomed THEN Top ELSE parent[n]]
  /\ children' = [p \in Owners |-> IF p \in doomed THEN <<>>
                                   ELSE IF p = parent[id] THEN Without(children[p], id)
                                   ELSE children[p]]

\* Mutant: only a move into itself is refused, not one into what it holds.
MoveAnywhere(id, p, index) ==
  /\ id \in nodes
  /\ MayHold(p) /\ p # id
  /\ parent' = [parent EXCEPT ![id] = p]
  /\ children' = LET detached == [children EXCEPT ![parent[id]] = Without(@, id)]
                 IN  [detached EXCEPT ![p] = WithAt(@, index, id)]
  /\ UNCHANGED <<nodes, folders>>

\* A move into itself or into anything it holds is refused (WouldCreateCycle).
MayMove(id, p) == MayHold(p) /\ (p # Top => p # id /\ id \notin Ancestors(p))

\* move_node.  The position is one among the siblings left once the node has been
\* taken out.
MoveNode(id, p, index) ==
  /\ id \in nodes
  /\ MayMove(id, p)
  /\ parent' = [parent EXCEPT ![id] = p]
  /\ children' = LET detached == [children EXCEPT ![parent[id]] = Without(@, id)]
                 IN  [detached EXCEPT ![p] = WithAt(@, index, id)]
  /\ UNCHANGED <<nodes, folders>>

TreeOperation ==
  \E id \in NodeIds :
    \/ \E p \in Owners : AddNode(id, p)
    \/ RemoveNode(id)
    \/ \E p \in Owners : \E index \in 0 .. Len(children[p]) : MoveNode(id, p, index)

TreeSpec == TreeInit /\ [][TreeOperation]_treeVars

------------------------------------------------------------------------------
(* Properties                                                              *)

TreeTypeOK ==
  /\ nodes \subseteq NodeIds
  /\ folders \subseteq nodes
  /\ parent \in [NodeIds -> Owners]
  /\ children \in [Owners -> Seq(NodeIds)]

\* A node is in the list of its parent, and in no other list: the half of the
\* structure remove walks and the half move_node climbs agree.
ListsAgree ==
  \A p \in Owners, c \in NodeIds :
    c \in ToSet(children[p]) <=> c \in nodes /\ parent[c] = p

\* No list holds a node twice.
ListedOnce ==
  \A p \in Owners : \A i, j \in DOMAIN children[p] :
    children[p][i] = children[p][j] => i = j

\* What holds nodes is the top level or a folder in the map.
HeldByFolders == \A n \in nodes : parent[n] \in folders \cup {Top}

\* No folder is inside itself.
Acyclic == \A S \in SUBSET nodes : S # {} => \E n \in S : parent[n] \notin S

\* The invariant the proof needs: the lists and the parents describe one
\* forest, whatever is added, removed and moved.
TreeIInv == TreeTypeOK /\ ListsAgree /\ ListedOnce /\ HeldByFolders /\ Acyclic

\* Going down from the top level meets every node: none is kept in the map
\* where nothing reaches it (tree.rs, the comment in move_node).
NothingIsLost ==
  \A S \in SUBSET nodes :
    /\ ToSet(children[Top]) \subseteq S
    /\ \A m \in S : ToSet(children[m]) \subseteq S
    => S = nodes

\* The tree as the forest it stands for.
F == INSTANCE Forest

\* With its child lists forgotten, each operation is the one Forest promises.
EachIsForests ==
  \A id \in NodeIds :
    /\ \A p \in Owners : AddNode(id, p) => F!Insert(id, p)
    /\ RemoveNode(id) => F!Remove(id)
    /\ \A p \in Owners : \A index \in 0 .. Len(children[p]) :
         MoveNode(id, p, index) => F!Move(id, p)

\* Where a node may be moved to is what Forest says, no more and no less.
MovesWhereForestMay ==
  \A id \in nodes, p \in Owners : MayMove(id, p) <=> F!MayMove(id, p)

\* Whatever else happens to the tree in between, adding, removing and moving are
\* Forest's: remove, which descends the lists, takes exactly what is below the node,
\* and move_node, which climbs the parents, refuses exactly that.
ImplementsForest ==
  /\ F!Init
  /\ []MovesWhereForestMay
  /\ [][EachIsForests]_treeVars
==============================================================================
