---------------------------- MODULE DocumentStore ----------------------------
(***************************************************************************)
(* One versioned document of crates/config/src/store.rs, and the instances *)
(* of the program that load and save it: each call is the system calls it  *)
(* makes, between which an instance may be killed, the power may fail, and *)
(* another instance may do as it pleases.                                  *)
(*                                                                         *)
(* A directory gives names to files; a file holds a text that arrives in   *)
(* two parts.  What was written is on the disk once the file is synced.    *)
(* Changes of names reach the disk in order, and at any later time.        *)
(***************************************************************************)
EXTENDS Naturals

CONSTANTS Instances,    \* the running programs that share a directory
          Files,        \* the files the disk has room for
          Texts,        \* what a document of this program's version may say
          VERSION,      \* the schema this build reads and writes
          Originals,    \* what may be stored before the program first runs
          MaxSaves,     \* bound: saves begun
          MaxCrashes,   \* bound: instances killed
          MaxCuts       \* bound: power failures

ASSUME VersionAssumption == VERSION \in Nat \ {0}
ASSUME BoundsAssumption == {MaxSaves, MaxCrashes, MaxCuts} \subseteq Nat

Nobody == 0             \* no file has this name
Missing == [is |-> "missing"]
Malformed == [is |-> "malformed"]
Document(version, text) == [is |-> "document", version |-> version, text |-> text]

ASSUME FilesAssumption == Nobody \notin Files
ASSUME OriginalsAssumption ==
  \A d \in Originals \ {Missing, Malformed} :
    d.version \in Nat /\ d = Document(d.version, d.text)

\* The parts a text is written in.
Parts == 1 .. 2
Blank == [part \in Parts |-> Missing]
Written(d) == [part \in Parts |-> d]

\* What a reader makes of a file: a text with a part missing, or with parts of
\* two texts, does not parse.
Readable(content) == content[1] = content[2] /\ content[1] # Missing
ReadAs(content) == IF Readable(content) THEN content[1] ELSE Malformed

Names == {"document", "temporary", "backup"}
NoNames == [n \in Names |-> Nobody]

VARIABLES
  names,        \* name -> file
  namings,      \* the namings the disk may hold: this one and earlier ones
  content,      \* file -> what has been written to it
  unsynced,     \* the files whose content may not be on the disk
  call,         \* per instance, the call it is in: its step, the file it writes,
                \* how many parts of it are written, what it saves
  loaded,       \* how its last load ended: "ok", "failed", or "none" so far
  original,     \* what was stored at first
  blind,        \* whether a save was begun by an instance that could not load
  overlapped,   \* whether two instances were ever saving at once
  disturbed,    \* whether a backup was ever made while another instance was at work
  saves, crashes, cuts

disk == <<names, namings, content, unsynced>>
history == <<original, blind>>
meetings == <<overlapped, disturbed>>
counters == <<saves, crashes, cuts>>
vars == <<names, namings, content, unsynced, call, loaded, original, blind,
          overlapped, disturbed, saves, crashes, cuts>>

Call(at, file, parts, saving) == [at |-> at, file |-> file, parts |-> parts, saving |-> saving]
Between(at) == Call(at, Nobody, 0, Missing)

Init ==
  /\ original \in Originals
  /\ \E f \in Files :
       /\ names = [NoNames EXCEPT !["document"] = IF original = Missing THEN Nobody ELSE f]
       /\ content = [g \in Files |-> IF g = f THEN Written(original) ELSE Blank]
  /\ namings = {names}
  /\ unsynced = {}
  /\ call = [i \in Instances |-> Between("off")]
  /\ loaded = [i \in Instances |-> "none"]
  /\ blind = FALSE
  /\ overlapped = FALSE
  /\ disturbed = FALSE
  /\ saves = 0
  /\ crashes = 0
  /\ cuts = 0

------------------------------------------------------------------------------
(* The file system                                                         *)

Unused == {f \in Files : \A n \in Names : \A naming \in namings : naming[n] # f}

Rename(naming) == names' = naming /\ namings' = namings \cup {naming}

\* File::create: the file of that name emptied, or a new one.
Create(name, file) ==
  /\ IF names[name] = Nobody
     THEN file \in Unused /\ Rename([names EXCEPT ![name] = file])
     ELSE file = names[name] /\ UNCHANGED <<names, namings>>
  /\ content' = [content EXCEPT ![file] = Blank]
  /\ unsynced' = unsynced \cup {file}

Write(file, part, d) ==
  /\ content' = [content EXCEPT ![file][part] = d]
  /\ unsynced' = unsynced \cup {file}

\* What a reader of the document finds.
StoredAs(naming) == IF naming["document"] = Nobody THEN Missing
                    ELSE ReadAs(content[naming["document"]])
Stored == StoredAs(names)

------------------------------------------------------------------------------
(* load and load_or_default                                                *)

At(i, step) == call[i].at = step

\* Steps of a save, of a backup, and of an instance that has what it loaded.
Saving == {"creating", "writing", "syncing", "renaming"}
Copying == {"copying", "copied"}
Working == Saving \cup {"idle"}

\* The next step of a call, and whom it meets: nothing in the code asks whether
\* another instance is there.
Goes(i, c) ==
  /\ call' = [call EXCEPT ![i] = c]
  /\ overlapped' = (overlapped \/ \E j \in Instances \ {i} :
                        c.at \in Saving /\ call[j].at \in Saving)
  /\ disturbed' = (disturbed \/ \E j \in Instances \ {i} :
                        \/ c.at \in Copying /\ call[j].at \in Working
                        \/ c.at \in Working /\ call[j].at \in Copying)
Loaded(i, result) == loaded' = [loaded EXCEPT ![i] = result]

IsOlder(d) == d \notin {Missing, Malformed} /\ d.version < VERSION
IsCurrent(d) == d = Missing \/ (d # Malformed /\ d.version = VERSION)

\* Mutant: the migrated form is used without the original being copied.
LoadWithoutBackup(i) ==
  /\ At(i, "starting")
  /\ Goes(i, Between("idle"))
  /\ Loaded(i, IF IsCurrent(Stored) \/ IsOlder(Stored) THEN "ok" ELSE "failed")
  /\ UNCHANGED <<disk, history, counters>>

\* The file is read and parsed.  One from a newer build is refused, an older
\* one is copied aside before anything else; none at all is a default.
Load(i) ==
  /\ At(i, "starting")
  /\ IF IsOlder(Stored)
     THEN /\ Goes(i, Between("copying"))
          /\ UNCHANGED loaded
     ELSE /\ Goes(i, Between("idle"))
          /\ Loaded(i, IF IsCurrent(Stored) THEN "ok" ELSE "failed")
  /\ UNCHANGED <<disk, history, counters>>

\* back_up: fs::copy empties or makes the backup...
BeginBackUp(i) ==
  /\ At(i, "copying")
  /\ \E file \in Files :
       /\ Create("backup", file)
       /\ Goes(i, Call("copied", file, 0, Missing))
  /\ UNCHANGED <<loaded, history, counters>>

\* ...and fills it with what the document's name stands for by now.  Then the
\* text read before is migrated in memory, step by step, and a step may refuse.
FinishBackUp(i) ==
  /\ At(i, "copied")
  /\ names["document"] # Nobody
  /\ content' = [content EXCEPT ![call[i].file] = content[names["document"]]]
  /\ unsynced' = unsynced \cup {call[i].file}
  /\ Goes(i, Between("idle"))
  /\ \E result \in {"ok", "failed"} : Loaded(i, result)
  /\ UNCHANGED <<names, namings, history, counters>>

\* The file cannot be read, or the backup not be written.
LoadFails(i) ==
  /\ call[i].at \in {"starting", "copying", "copied"}
  /\ Goes(i, Between("idle"))
  /\ Loaded(i, "failed")
  /\ UNCHANGED <<disk, history, counters>>

------------------------------------------------------------------------------
(* save                                                                    *)

\* What is saved is what the instance works with: what it loaded, or nothing
\* after a load that failed (app-ui, with_startup), and then changed.
BeginSave(i, text) ==
  /\ At(i, "idle")
  /\ saves < MaxSaves
  /\ saves' = saves + 1
  /\ Goes(i, Call("creating", Nobody, 0, Document(VERSION, text)))
  /\ blind' = (blind \/ loaded[i] = "failed")
  /\ UNCHANGED <<disk, loaded, original, crashes, cuts>>

CreateTemporary(i) ==
  /\ At(i, "creating")
  /\ \E file \in Files :
       /\ Create("temporary", file)
       /\ Goes(i, Call("writing", file, 0, call[i].saving))
  /\ UNCHANGED <<loaded, history, counters>>

\* write_all, part by part.
WritePart(i) ==
  /\ At(i, "writing")
  /\ Write(call[i].file, call[i].parts + 1, call[i].saving)
  /\ Goes(i, Call(IF call[i].parts + 1 = 2 THEN "syncing" ELSE "writing",
                  call[i].file, call[i].parts + 1, call[i].saving))
  /\ UNCHANGED <<names, namings, loaded, history, counters>>

\* Mutant: the data is left to reach the disk in its own time.
SyncNothing(i) ==
  /\ At(i, "syncing")
  /\ Goes(i, Call("renaming", call[i].file, call[i].parts, call[i].saving))
  /\ UNCHANGED <<disk, loaded, history, counters>>

\* sync_all.
Sync(i) ==
  /\ At(i, "syncing")
  /\ unsynced' = unsynced \ {call[i].file}
  /\ Goes(i, Call("renaming", call[i].file, call[i].parts, call[i].saving))
  /\ UNCHANGED <<names, namings, content, loaded, history, counters>>

\* fs::rename, of whatever has the temporary name by now.
RenameOver(i) ==
  /\ At(i, "renaming")
  /\ names["temporary"] # Nobody
  /\ Rename([names EXCEPT !["document"] = names["temporary"], !["temporary"] = Nobody])
  /\ Goes(i, Between("idle"))
  /\ UNCHANGED <<content, unsynced, loaded, history, counters>>

\* Mutant: making room for the rename takes the document first.
FailAndRemoveAll(i) ==
  /\ call[i].at \in Saving
  /\ Rename([names EXCEPT !["temporary"] = Nobody, !["document"] = Nobody])
  /\ Goes(i, Between("idle"))
  /\ UNCHANGED <<content, unsynced, loaded, history, counters>>

\* Any of the calls fails: the disk is full, or no longer there.  The temporary
\* file is removed, if it can be, and the error reported.
SaveFails(i) ==
  /\ call[i].at \in Saving
  /\ \E naming \in {names, [names EXCEPT !["temporary"] = Nobody]} : Rename(naming)
  /\ Goes(i, Between("idle"))
  /\ UNCHANGED <<content, unsynced, loaded, history, counters>>

------------------------------------------------------------------------------
(* Instances and the machine under them                                    *)

\* The program starts, and loads first of all.
Start(i) ==
  /\ At(i, "off")
  /\ Goes(i, Between("starting"))
  /\ UNCHANGED <<disk, loaded, history, counters>>

\* It is closed, or killed in the middle of a call.  What it wrote stays.
Crash(i) ==
  /\ ~At(i, "off")
  /\ crashes < MaxCrashes
  /\ crashes' = crashes + 1
  /\ Goes(i, Between("off"))
  /\ Loaded(i, "none")
  /\ UNCHANGED <<disk, history, saves, cuts>>

\* Of a file that was not synced any part may be missing; of the names, the last
\* changes.
PowerCut ==
  /\ cuts < MaxCuts
  /\ cuts' = cuts + 1
  /\ call' = [i \in Instances |-> Between("off")]
  /\ loaded' = [i \in Instances |-> "none"]
  /\ names' \in namings
  /\ namings' = {names'}
  /\ LET kept == {f \in Files : \E n \in Names : names'[n] = f} IN
     \E lost \in SUBSET ((unsynced \cap kept) \X Parts) :
       content' = [f \in Files |-> [p \in Parts |->
                     IF f \notin kept \/ <<f, p>> \in lost THEN Missing ELSE content[f][p]]]
  /\ unsynced' = {}
  /\ UNCHANGED <<history, meetings, saves, crashes>>

------------------------------------------------------------------------------

Loads(i) == Start(i) \/ Load(i) \/ BeginBackUp(i) \/ FinishBackUp(i) \/ LoadFails(i)
Saves(i) == \/ \E text \in Texts : BeginSave(i, text)
            \/ CreateTemporary(i) \/ WritePart(i) \/ Sync(i) \/ RenameOver(i) \/ SaveFails(i)

Next == (\E i \in Instances : Loads(i) \/ Saves(i) \/ Crash(i)) \/ PowerCut

Spec == Init /\ [][Next]_vars

------------------------------------------------------------------------------
(* Properties                                                              *)

Steps == {"off", "starting"} \cup Copying \cup Working
MaybeFiles == Files \cup {Nobody}
Savable == {Document(VERSION, text) : text \in Texts}
AllDocuments == Originals \cup {Missing} \cup Savable
Calls == [at : Steps, file : MaybeFiles, parts : 0 .. 2, saving : AllDocuments]

\* Every variable stays in its domain; nothing is written past the end.
TypeOK ==
  /\ names \in namings
  /\ namings \subseteq [Names -> MaybeFiles]
  /\ content \in [Files -> [Parts -> AllDocuments]]
  /\ unsynced \subseteq Files
  /\ call \in [Instances -> Calls]
  /\ loaded \in [Instances -> {"none", "ok", "failed"}]
  /\ original \in Originals
  /\ {blind, overlapped, disturbed} \subseteq BOOLEAN
  /\ saves \in Nat /\ crashes \in Nat /\ cuts \in Nat

\* Whatever happens in the middle of a save, the document is a whole text, or
\* still none: never an empty or a half-written file (store.rs, "Written
\* atomically").  A file that was malformed to begin with may stay so.
Whole == names["document"] # Nobody => Readable(content[names["document"]])

\* It is whole through failing calls, kills and power failures, however many
\* instances load, back up and save it, as long as no two of them were saving at
\* once: they would share a temporary file, and the promise is WholeForAll's.
NeverTruncated == ~overlapped => Whole

\* The document as the promise has it: replaced in one step by what is being
\* saved, and by nothing else, a load, a backup or a save that failed included.
Asked == {call[i].saving : i \in {j \in Instances : call[j].at \in Saving}}
EarlierStored == {StoredAs(naming) : naming \in namings}

Promise == INSTANCE DurableDocument
             WITH Documents <- Originals, stored <- Stored, asked <- Asked,
                  earlier <- EarlierStored

\* As long as no two instances save at once.
ImplementsDurable == Promise!Init /\ [][overlapped' \/ Promise!Next]_(Promise!vars)

\* An older document is either still there or in the backup, however many save at
\* once, unless an instance that could not load it saved over it, or the power
\* failed (the backup is not synced), or a backup was made, which empties it first,
\* while another instance had loaded the document already.
Upgrading == IsOlder(original) /\ ~blind /\ ~disturbed /\ cuts = 0
BackedUp == names["backup"] # Nobody /\ ReadAs(content[names["backup"]]) = original
OriginalIsKept == Upgrading => Stored = original \/ BackedUp

------------------------------------------------------------------------------
(* What store.rs promises without a condition, and two instances break:    *)
(* they save through one temporary file, and back up over one backup.      *)

WholeForAll == Whole
DurableForAll == Promise!Spec
KeptForAll == IsOlder(original) /\ ~blind /\ cuts = 0 => Stored = original \/ BackedUp

------------------------------------------------------------------------------
(* What every step keeps, whoever else is there.                           *)

\* A text is the original, or one that this build saved.
TextsAreOurs ==
  \A f \in Files, part \in Parts : content[f][part] \in {Missing, original} \cup Savable

\* No file that is, or was, the document or the temporary one is the backup.
BackUpIsApart ==
  \A naming, other \in namings : naming["backup"] # Nobody =>
    naming["backup"] \notin {other["temporary"], other["document"]}

\* What a call knows: the file it opened, by the name it then had, and how far it is.
KnowsItsFile(c) ==
  /\ c.at = "copied" => c.file \in Files /\ c.file = names["backup"]
  /\ c.at \in Saving => c.saving \in Savable
  /\ c.at \in Saving \ {"creating"} =>
       /\ c.file \in Files
       /\ \E naming \in namings : c.file \in {naming["temporary"], naming["document"]}
  /\ c.at = "creating" => c.parts = 0
  /\ c.at = "writing" => c.parts < 2
  /\ c.at \in {"syncing", "renaming"} => c.parts = 2

CallsKnowTheirFiles == \A i \in Instances : KnowsItsFile(call[i])

IInv == TypeOK /\ TextsAreOurs /\ BackUpIsApart /\ CallsKnowTheirFiles

------------------------------------------------------------------------------
(* The strengthening behind NeverTruncated: what holds until saves overlap. *)

OneSaves ==
  \A i, j \in Instances : call[i].at \in Saving /\ call[j].at \in Saving => i = j

\* Whatever naming the disk comes back with, its document is whole, and synced.
DocumentsAreWhole ==
  \A naming \in namings : naming["document"] # Nobody =>
    /\ Readable(content[naming["document"]])
    /\ naming["document"] \notin unsynced

\* No file a save may still write is, or was, the document.
Apart(naming, other) == naming["temporary"] # Nobody => naming["temporary"] # other["document"]
FilesAreApart == \A naming \in namings : Apart(names, naming) /\ Apart(naming, naming)

\* A save writes the temporary file, and what it has written is there.
WritesItsOwn(c) ==
  c.at \in Saving \ {"creating"} =>
    /\ c.file = names["temporary"]
    /\ \A part \in 1 .. c.parts : content[c.file][part] = c.saving
    /\ c.at = "renaming" => c.file \notin unsynced

CallsWriteTheirOwn == \A i \in Instances : WritesItsOwn(call[i])

Sound == OneSaves /\ DocumentsAreWhole /\ FilesAreApart /\ CallsWriteTheirOwn
SoundUntilOverlap == ~overlapped => Sound

------------------------------------------------------------------------------
(* The strengthening behind OriginalIsKept.                                *)

\* A backup is made while nobody works with the document.
NobodyWorks ==
  Upgrading => \A i, j \in Instances : ~(call[i].at \in Copying /\ call[j].at \in Working)

\* An instance that loaded the original has backed it up, and it is what a backup
\* under way is made of; only one that loaded it saves.
BacksUpFirst(i) ==
  /\ loaded[i] = "none" <=> call[i].at \notin Working
  /\ Upgrading =>
       /\ call[i].at \in Copying => Stored = original
       /\ call[i].at \in Saving => loaded[i] = "ok"
       /\ loaded[i] = "ok" => BackedUp

BackUpInv == OriginalIsKept /\ NobodyWorks /\ \A i \in Instances : BacksUpFirst(i)

===============================================================================
