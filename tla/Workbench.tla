------------------------------ MODULE Workbench ------------------------------
(***************************************************************************)
(* The session list of the main window and everything that changes it: the *)
(* context menu, the Session settings dialog, the rename window, an import *)
(* and a restart (crates/app-ui/src/lib.rs and session_menu.rs).  The tree *)
(* and its operations are SessionTree's, what the dialog makes of a        *)
(* session is SessionDraft's.                                              *)
(*                                                                         *)
(* The dialog is a window among others, not a modal one: while it is open, *)
(* the list, its menu and the ribbon can all be clicked.                   *)
(***************************************************************************)
EXTENDS SessionTree, SessionDraft

CONSTANTS Typed,     \* hosts somebody may type
          Inventory  \* the configurations an imported file may hold

VARIABLES contents,  \* name, configuration, settings and comment of each session
          dialog,    \* the draft on the screen
          open,      \* the dialog is on the screen
          editing,   \* the session the next accepted draft is merged onto
          renaming,  \* the node whose name is being typed
          opened,    \* the configuration last asked for a connection
          disk,      \* what the session file holds
          about      \* history: the session the dialog was opened on

bench == <<contents, dialog, open, editing, renaming, opened, disk, about>>

Nobody == Top
NothingOpened == [type |-> "nothing"]
Empty == [name |-> "", config |-> ShellDefault, settings |-> NoSettings, comment |-> None]
Session(name, config) == [Empty EXCEPT !.name = name, !.config = config]

Sessions == nodes \ folders

TreeNow == [nodes |-> nodes, folders |-> folders, parent |-> parent, children |-> children,
            contents |-> contents]
TreeNext == [nodes |-> nodes', folders |-> folders', parent |-> parent', children |-> children',
             contents |-> contents']

BenchInit ==
  /\ TreeInit
  /\ contents = [n \in NodeIds |-> Empty]
  /\ dialog = Dialog("ssh", Fresh)
  /\ open = FALSE
  /\ editing = Nobody /\ renaming = Nobody /\ about = Nobody
  /\ opened = NothingOpened
  /\ disk = TreeNow

\* save_tree: it may fail, and says so.
SaveTree == disk' \in {disk, TreeNext}

------------------------------------------------------------------------------
(* The context menu                                                        *)

Execute(id) ==
  /\ id \in Sessions
  /\ opened' = IF contents[id].config.type = "shell" THEN opened ELSE contents[id].config
  /\ UNCHANGED <<treeVars, contents, dialog, open, editing, renaming, disk, about>>

\* The saved session is the draft, and nothing is written back to it.
ConnectAs(id) ==
  /\ id \in Sessions
  /\ dialog' = OpenFor(contents[id].config)
  /\ open' = TRUE
  /\ editing' = Nobody
  /\ about' = id
  /\ UNCHANGED <<treeVars, contents, renaming, opened, disk>>

Edit(id) ==
  LET draft == OpenFor(contents[id].config) IN
  /\ id \in Sessions
  /\ dialog' = Dialog(draft.tab,
                      [LoadSettings(draft.fields, contents[id].settings) EXCEPT
                         !.name = contents[id].name, !.comments = Shown(contents[id].comment)])
  /\ open' = TRUE
  /\ editing' = id
  /\ about' = id
  /\ UNCHANGED <<treeVars, contents, renaming, opened, disk>>

\* What is removed with a folder goes without a word to the dialog, which may
\* be about it.
Delete(id) ==
  /\ RemoveNode(id)
  /\ contents' = [n \in NodeIds |-> IF n \in nodes' THEN contents[n] ELSE Empty]
  /\ SaveTree
  /\ UNCHANGED <<dialog, open, editing, renaming, opened, about>>

\* A copy beside it, with the settings and without the comment.
Duplicate(id) ==
  /\ id \in Sessions
  /\ \E copy \in NodeIds \ nodes :
       /\ AddNode(copy, parent[id]) /\ folders' = folders
       /\ contents' = [contents EXCEPT ![copy] = [contents[id] EXCEPT !.comment = None]]
  /\ SaveTree
  /\ UNCHANGED <<dialog, open, editing, renaming, opened, about>>

Rename(id) ==
  /\ id \in nodes
  /\ renaming' = id
  /\ UNCHANGED <<treeVars, contents, dialog, open, editing, opened, disk, about>>

\* An empty name is refused and the window stays.
Renamed(name) ==
  /\ renaming # Nobody /\ Trim(name) # ""
  /\ renaming' = Nobody
  /\ contents' = IF renaming \in Sessions THEN [contents EXCEPT ![renaming].name = Trim(name)]
                 ELSE contents
  /\ UNCHANGED treeVars
  /\ SaveTree
  /\ UNCHANGED <<dialog, open, editing, opened, about>>

RenameCancelled ==
  /\ renaming # Nobody
  /\ renaming' = Nobody
  /\ UNCHANGED <<treeVars, contents, dialog, open, editing, opened, disk, about>>

------------------------------------------------------------------------------
(* The dialog                                                              *)

\* The ribbon's Session button.
OpenSessionDialog ==
  /\ dialog' = OpenFresh
  /\ open' = TRUE
  /\ about' = Nobody
  /\ UNCHANGED <<treeVars, contents, editing, renaming, opened, disk>>

Type ==
  /\ open
  /\ \/ \E host \in Typed : dialog' = Dialog(dialog.tab, [dialog.fields EXCEPT !.host = host])
     \/ \E tab \in Tabs : dialog' = SwitchTo(dialog, tab)
  /\ UNCHANGED <<treeVars, contents, open, editing, renaming, opened, disk, about>>

\* save_edited_session, with the tree as it is by now.
SaveEdited(id, produced) ==
  LET f == dialog.fields
      old == contents[id]
      name == IF Trim(f.name) = "" THEN old.name ELSE Trim(f.name)
  IN  /\ opened' = opened
      /\ IF id \in Sessions
         THEN /\ contents' = [contents EXCEPT
                   ![id] = [name |-> name, config |-> MergeInto(produced, old.config),
                            settings |-> ApplySettings(f, old.settings),
                            comment |-> Given(Trim(f.comments))]]
              /\ SaveTree
         ELSE UNCHANGED <<contents, disk>>

\* OK: the window closes whatever comes of it.  Only an accepted draft takes
\* what it was to be merged onto; the others leave it where it is.
Ok ==
  LET outcome == Build(dialog) IN
  /\ open
  /\ open' = FALSE
  /\ UNCHANGED treeVars
  /\ CASE outcome.type # "accepted" -> UNCHANGED <<contents, editing, opened, disk>>
       [] outcome.type = "accepted" /\ editing # Nobody ->
            editing' = Nobody /\ SaveEdited(editing, outcome.config)
       [] OTHER -> opened' = outcome.config /\ UNCHANGED <<contents, editing, disk>>
  /\ UNCHANGED <<dialog, renaming, about>>

\* Cancel, the cross of the title row and the window's own.
Cancel ==
  /\ open
  /\ open' = FALSE
  /\ editing' = Nobody
  /\ UNCHANGED <<treeVars, contents, dialog, renaming, opened, disk, about>>

------------------------------------------------------------------------------
(* The program starts                                                      *)

\* A file of one session, or of none.
Imported ==
  {[nodes |-> S, folders |-> {}, parent |-> [n \in NodeIds |-> Top],
    children |-> [p \in Owners |-> IF p = Top THEN SetToSeq(S) ELSE <<>>],
    contents |-> [n \in NodeIds |-> IF n \in S THEN Session("imported", config) ELSE Empty]] :
     S \in {{n} : n \in NodeIds} \cup {{}}, config \in Inventory}

\* The tree is read from the file, or is what an import named on the command
\* line made; the import is then saved over what was there.
Start ==
  /\ \E tree \in {disk} \cup Imported :
       /\ nodes' = tree.nodes /\ folders' = tree.folders
       /\ parent' = tree.parent /\ children' = tree.children
       /\ contents' = tree.contents
       /\ IF tree = disk THEN disk' = disk ELSE SaveTree
  /\ dialog' = Dialog("ssh", Fresh)
  /\ open' = FALSE
  /\ editing' = Nobody /\ renaming' = Nobody /\ about' = Nobody
  /\ opened' = NothingOpened

\* The rename window is modal: nothing else can be clicked under it.
BenchNext ==
  \/ /\ renaming = Nobody
     /\ \/ \E id \in NodeIds : Execute(id) \/ ConnectAs(id) \/ Edit(id) \/ Delete(id)
                                 \/ Duplicate(id) \/ Rename(id)
        \/ OpenSessionDialog \/ Type \/ Ok \/ Cancel
  \/ \E name \in {" ", "db"} : Renamed(name)
  \/ RenameCancelled \/ Start

BenchSpec == BenchInit /\ [][BenchNext]_<<treeVars, bench>>

------------------------------------------------------------------------------
(* Properties                                                              *)

\* What the dialog shows is what OK is about: a saved session changes under an
\* accepted draft only while the draft is of that session.
OkIsAboutWhatIsShown ==
  [][Ok => \A n \in NodeIds : contents'[n] # contents[n] => about = n]_<<treeVars, bench>>
==============================================================================
