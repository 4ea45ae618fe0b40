---------------------------- MODULE TreeDocument ----------------------------
(***************************************************************************)
(* The stored form of a session tree: a list of nodes in display order,    *)
(* each with its parent and what it is (crates/core-model/src/doc.rs).     *)
(* from_tree writes it, into_tree reads it back and refuses what is not a  *)
(* tree, for the file is meant to be read, compared, merged and edited by  *)
(* people.                                                                 *)
(***************************************************************************)
EXTENDS SessionTree, FiniteSets

Entry(id, p, kind) == [id |-> id, parent |-> p, kind |-> kind]

\* An entry has a folder's field, a session's, both or neither.
Kinds == {"folder", "session", "both", "neither"}
Entries == {Entry(id, p, kind) : id \in NodeIds, p \in Owners, kind \in Kinds}

Ids(doc) == {doc[i].id : i \in DOMAIN doc}
ParentIn(doc, id) == (CHOOSE e \in ToSet(doc) : e.id = id).parent
FoldersIn(doc) == {e.id : e \in {f \in ToSet(doc) : f.kind = "folder"}}

-----------------------------------------------------------------------------
(* from_tree                                                               *)

\* A node and what is below it, depth first, parents before children, in
\* display order; as far down as d.
Subtrees ==
  LET subtree[d \in Nat] ==
        [n \in NodeIds |->
           IF d = 0 THEN <<n>>
           ELSE <<n>> \o FlattenSeq([i \in DOMAIN children[n] |-> subtree[d - 1][children[n][i]]])]
  IN  subtree

\* No path is longer than there are nodes.
Walk ==
  FlattenSeq([i \in DOMAIN children[Top] |-> Subtrees[Cardinality(nodes)][children[Top][i]]])

Saved(n) == Entry(n, parent[n], IF n \in folders THEN "folder" ELSE "session")

FromTree == LET walk == Walk IN [i \in DOMAIN walk |-> Saved(walk[i])]

-----------------------------------------------------------------------------
(* into_tree                                                               *)

\* The first pass takes every node, so that parents need not come first.
NodesAreClear(doc) ==
  /\ \A i, j \in DOMAIN doc : doc[i].id = doc[j].id => i = j
  /\ \A i \in DOMAIN doc : doc[i].kind \in {"folder", "session"}

\* The second links them: a parent must be there, and be a folder.
ParentsAreFolders(doc) ==
  \A i \in DOMAIN doc : doc[i].parent \in FoldersIn(doc) \cup {Top}

\* Where the climb from an entry is after k steps.
Climb(doc, i) ==
  LET cursor[k \in Nat] ==
        IF k = 0 THEN doc[i].parent
        ELSE IF cursor[k - 1] = Top THEN Top ELSE ParentIn(doc, cursor[k - 1])
  IN  cursor

\* Mutant: nobody climbs.
ClimbsNowhere(doc) == TRUE

\* The third climbs from every node, and gives up after as many steps as
\* there are nodes.
ReachesTop(doc) == \A i \in DOMAIN doc : Climb(doc, i)[Len(doc)] = Top

Accepted(doc) == NodesAreClear(doc) /\ ParentsAreFolders(doc) /\ ReachesTop(doc)

\* Mutant: each child is put before the ones that were listed ahead of it.
LinkedBackwards(doc, p) ==
  LET linked[i \in 0 .. Len(doc)] ==
        IF i = 0 THEN <<>>
        ELSE IF doc[i].parent = p THEN <<doc[i].id>> \o linked[i - 1]
        ELSE linked[i - 1]
  IN  linked[Len(doc)]

\* Children in the order of the list.
Linked(doc, p) ==
  LET linked[i \in 0 .. Len(doc)] ==
        IF i = 0 THEN <<>>
        ELSE IF doc[i].parent = p THEN Append(linked[i - 1], doc[i].id)
        ELSE linked[i - 1]
  IN  linked[Len(doc)]

IntoTree(doc) ==
  [nodes |-> Ids(doc),
   folders |-> FoldersIn(doc),
   parent |-> [n \in NodeIds |-> IF n \in Ids(doc) THEN ParentIn(doc, n) ELSE Top],
   children |-> [p \in Owners |-> Linked(doc, p)]]

-----------------------------------------------------------------------------

\* A document somebody changed by hand, or a merge did: one entry dropped,
\* replaced, or put in somewhere, or two of them swapped.
EditedDocs ==
  LET doc == FromTree IN
  {RemoveAt(doc, i) : i \in DOMAIN doc}
    \cup {ReplaceAt(doc, i, e) : i \in DOMAIN doc, e \in Entries}
    \cup {InsertAt(doc, i, e) : i \in 1 .. Len(doc) + 1, e \in Entries}
    \cup {[doc EXCEPT ![i] = doc[j], ![j] = doc[i]] : i, j \in DOMAIN doc}

\* The program starts again and reads what is in the file now.
LoadTree(doc) ==
  /\ Accepted(doc)
  /\ nodes' = IntoTree(doc).nodes
  /\ folders' = IntoTree(doc).folders
  /\ parent' = IntoTree(doc).parent
  /\ children' = IntoTree(doc).children

DocNext == TreeOperation \/ \E doc \in EditedDocs : LoadTree(doc)
DocSpec == TreeInit /\ [][DocNext]_treeVars

-----------------------------------------------------------------------------
(* Properties                                                              *)

\* What is saved is what is loaded: the same nodes, kinds, parents and order
\* of siblings (doc.rs, TreeDoc::from_tree and into_tree).
RoundTrip ==
  /\ Accepted(FromTree)
  /\ IntoTree(FromTree) = [nodes |-> nodes, folders |-> folders,
                           parent |-> parent, children |-> children]

\* What a document must be to be a tree, without saying how that is found out.
DescribesForest(doc) ==
  /\ Cardinality(Ids(doc)) = Len(doc)
  /\ \A e \in ToSet(doc) : e.kind \in {"folder", "session"}
  /\ \A e \in ToSet(doc) : e.parent = Top \/ \E f \in ToSet(doc) : f.id = e.parent /\ f.kind = "folder"
  /\ \A S \in SUBSET Ids(doc) : S # {} => \E e \in ToSet(doc) : e.id \in S /\ e.parent \notin S

\* Of the documents one change away, into_tree accepts those that are trees
\* and no other: counting steps finds every cycle, however the list is ordered.
AcceptsExactlyForests == \A doc \in EditedDocs : Accepted(doc) <=> DescribesForest(doc)
=============================================================================
