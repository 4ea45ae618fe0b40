------------------------------ MODULE MxtImport ------------------------------
(***************************************************************************)
(* Reading the session file of another program                             *)
(* (crates/importers/src/mxtsessions.rs).  The file is a list of lines:    *)
(* sections, each with the folder it stands for, and sessions.  A line is  *)
(* what it is once decoded, trimmed and split: what a line of that form    *)
(* may say is in the records below, and the fields of a connection have    *)
(* names in place of positions.                                            *)
(*                                                                         *)
(* Escapes are undone on the way and the comment and the colour of a tab   *)
(* are kept beside a session; they are left out, with the settings of X11. *)
(*                                                                         *)
(* The tree under construction is a list of nodes, each with the place in  *)
(* the list of the folder it is in, 0 for the top level.                   *)
(***************************************************************************)
EXTENDS SessionDraft

CONSTANTS
  FileLines,     \* the lines a file may be made of
  MaxFileLines   \* bound: lines in a file

Blank == [type |-> "blank"]
Comment == [type |-> "comment"]       \* a semicolon, and no equals sign
Junk == [type |-> "junk"]             \* no equals sign
Section(name) == [type |-> "section", name |-> name]
SubRep(path) == [type |-> "SubRep", path |-> path]
ImgNum(value) == [type |-> "ImgNum", value |-> value]
\* A session's value without a connection group is one of kind "none".
SessionLine(name, fields) == [type |-> "session", name |-> name, fields |-> fields]

Nowhere == 0
Node(name, parent, config) == [name |-> name, parent |-> parent, config |-> config, icon |-> None]
Folder == [type |-> "folder"]

------------------------------------------------------------------------------
(* Folders                                                                 *)

\* Mutant: the folder is looked for at the top level only.
FolderAtTop(tree, parent, name) ==
  {i \in DOMAIN tree : tree[i].parent = Nowhere /\ tree[i].name = name /\ tree[i].config = Folder}

\* The folders of that name inside one folder.
FoldersNamed(tree, parent, name) ==
  {i \in DOMAIN tree : tree[i].parent = parent /\ tree[i].name = name /\ tree[i].config = Folder}

\* The folder chain, found or made: the tree with it, and where it ends.
EnsureFolder(tree, path) ==
  LET walk[k \in 0 .. Len(path)] ==
        IF k = 0 THEN [tree |-> tree, leaf |-> Nowhere]
        ELSE LET before == walk[k - 1]
                 known == FoldersNamed(before.tree, before.leaf, path[k])
             IN  IF known # {}
                 THEN [before EXCEPT !.leaf = CHOOSE i \in known : \A j \in known : i <= j]
                 ELSE [tree |-> Append(before.tree, Node(path[k], before.leaf, Folder)),
                       leaf |-> Len(before.tree) + 1]
  IN  walk[Len(path)]

------------------------------------------------------------------------------
(* Sessions                                                                *)

\* An empty field is no field.
PortField(t, fallback) == IF Parse(t) \in {None, "0"} THEN fallback ELSE Parse(t)
UserField(t) == IF t = "" \/ Trim(t) = "<default>" THEN None ELSE Trim(t)
KeyField(t) == IF Trim(t) = "" THEN Agent ELSE Key(Trim(t), None)

\* What the session becomes; the fourteenth field is a key for one kind and a
\* password for another.
ConfigOf(f) ==
  CASE f.kind = "ssh" ->
         [SshDefault EXCEPT !.host = f.host, !.port = PortField(f.port, "22"),
                            !.user = UserField(f.user), !.auth = KeyField(f.f14)]
    [] f.kind = "sftp" ->
         [SshDefault EXCEPT !.host = f.host, !.port = PortField(f.port, "22"),
                            !.user = UserField(f.user)]
    [] f.kind = "rdp" ->
         [RdpDefault EXCEPT !.host = f.host, !.port = PortField(f.port, "3389"),
                            !.user = UserField(f.user)]
    [] f.kind = "vnc" ->
         [VncDefault EXCEPT !.host = f.host, !.port = PortField(f.port, "5900"),
                            !.viewOnly = (f.f4 = "-1")]

Supported == {"ssh", "sftp", "rdp", "vnc"}

------------------------------------------------------------------------------
(* The file                                                                *)

Unread ==
  [tree |-> <<>>, path |-> <<>>, folder |-> Nowhere, inside |-> FALSE,
   skipped |-> <<>>, secrets |-> <<>>, notes |-> 0]

ReadSection(import, name) ==
  [import EXCEPT !.inside = name = "Bookmarks", !.path = <<>>, !.folder = Nowhere,
                 !.notes = IF name = "Bookmarks" THEN @ ELSE @ + 1]

ReadSubRep(import, path) ==
  LET found == EnsureFolder(import.tree, path)
  IN  [import EXCEPT !.tree = found.tree, !.folder = found.leaf, !.path = path]

ReadImgNum(import, value) ==
  IF import.folder = Nowhere THEN import ELSE [import EXCEPT !.tree[import.folder].icon = value]

\* A password is handed over with the place of the session it belongs to.
ReadSession(import, line) ==
  IF line.fields.kind \notin Supported
  THEN [import EXCEPT !.skipped = Append(@, [name |-> line.name, path |-> import.path])]
  ELSE LET tree == Append(import.tree, Node(line.name, import.folder, ConfigOf(line.fields)))
           secret == line.fields.kind = "sftp" /\ line.fields.f14 # ""
       IN  [import EXCEPT !.tree = tree,
                          !.secrets = IF secret THEN Append(@, Len(tree)) ELSE @]

ReadLine(import, line) ==
  CASE line.type = "section" -> ReadSection(import, line.name)
    [] line.type \in {"blank", "comment", "junk"} \/ ~import.inside -> import
    [] line.type = "SubRep" -> ReadSubRep(import, line.path)
    [] line.type = "ImgNum" -> ReadImgNum(import, line.value)
    [] line.type = "session" -> ReadSession(import, line)

VARIABLES
  file,     \* the lines read so far
  import    \* what has been made of them
importVars == <<file, import>>

ImportInit == file = <<>> /\ import = Unread

ImportNext ==
  \E line \in FileLines :
    /\ Len(file) < MaxFileLines
    /\ file' = Append(file, line) /\ import' = ReadLine(import, line)

------------------------------------------------------------------------------
(* What an import must be                                                  *)

LastBefore(lines, i, P(_)) ==
  LET them == {j \in 1 .. i - 1 : P(lines[j])}
  IN  IF them = {} THEN 0 ELSE CHOOSE j \in them : \A k \in them : k <= j

SectionOf(lines, i) == LastBefore(lines, i, LAMBDA line : line.type = "section")
\* The folder a line stands in: what the last SubRep of its own section says.
PathOf(lines, i) ==
  LET j == LastBefore(lines, i, LAMBDA line : line.type = "SubRep")
  IN  IF j > SectionOf(lines, i) THEN lines[j].path ELSE <<>>
Counted(lines) ==
  {i \in DOMAIN lines : /\ lines[i].type = "session" /\ SectionOf(lines, i) # 0
                        /\ lines[SectionOf(lines, i)].name = "Bookmarks"}

\* Where a node of the tree is.
PathIn(tree, n) ==
  LET up[k \in 0 .. Len(tree)] == IF k = 0 THEN <<>>
                                  ELSE IF tree[k].parent = Nowhere THEN <<tree[k].name>>
                                  ELSE Append(up[tree[k].parent], tree[k].name)
  IN  up[tree[n].parent]

Inventory(lines, i) == <<PathOf(lines, i), lines[i].name>>

\* Every session of the file is in the tree, in its folder and in its order, or
\* is named among those left out; a folder is made once however many sections
\* are about it; and a secret comes only of a session that is there
\* (mxtsessions.rs, parse).
ImportLosesNothing ==
  LET sessions == SelectSeq([n \in DOMAIN import.tree |-> n],
                            LAMBDA n : import.tree[n].config # Folder)
      inOrder(S) == SelectSeq([i \in DOMAIN file |-> i], LAMBDA i : i \in S)
      saidOf(S) == [k \in DOMAIN inOrder(S) |-> Inventory(file, inOrder(S)[k])]
      readable == {i \in Counted(file) : file[i].fields.kind \in Supported}
      Folders == {n \in DOMAIN import.tree : import.tree[n].config = Folder}
      Place(n) == <<PathIn(import.tree, n), import.tree[n].name>>
  IN  /\ [k \in DOMAIN sessions |-> Place(sessions[k])] = saidOf(readable)
      /\ [k \in DOMAIN import.skipped |-> <<import.skipped[k].path, import.skipped[k].name>>]
           = saidOf(Counted(file) \ readable)
      /\ \A m, n \in Folders : Place(m) = Place(n) => m = n
      /\ \A k \in DOMAIN import.secrets : import.tree[import.secrets[k]].config.type = "ssh"
=============================================================================
