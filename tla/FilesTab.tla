------------------------------- MODULE FilesTab -------------------------------
(***************************************************************************)
(* The two panels of a file browser over its session:                      *)
(*                                                                         *)
(*   crates/app-ui/files_tab.rs    what is shown, what is asked for, and   *)
(*                                 how the answers are put to what asked.  *)
(*                                                                         *)
(* The tab learns of everything through the events channel.  A failure     *)
(* says in words what failed; the tab looks for a transfer whose name      *)
(* occurs in them.                                                         *)
(***************************************************************************)
EXTENDS FileSession

CONSTANT Mentions  \* the paths whose text holds a name: <<path, name>>

ASSUME MentionsAssumption == \A f \in Files : <<f, f>> \in Mentions

VARIABLES
  open,       \* the tab exists
  here,       \* remote_path
  remote,     \* the listing shown, None when it was cleared
  local,      \* what read_local found, sizes by name
  waiting,    \* a listing has been asked for
  transfers,  \* the list along the bottom
  asked,      \* the commands sent, other than transfers
  closed      \* the session has ended, as far as the tab knows

tabVars == <<open, here, remote, local, waiting, transfers, asked, closed>>
vars == <<disk, queue, events, receiver, phase, job, edits, truth,
          open, here, remote, local, waiting, transfers, asked, closed>>

LocalSizes == [f \in Files |-> IF disk["local"][f] = None THEN -1 ELSE Len(disk["local"][f])]

Init ==
  /\ SessionInit
  /\ open = TRUE
  /\ here = None
  /\ remote = None
  /\ local = LocalSizes
  /\ waiting = TRUE
  /\ transfers = <<>>
  /\ asked = 0
  /\ closed = FALSE

Send(command) == queue' = IF CanSend THEN Append(queue, command) ELSE queue

\* ask_for: also what a click on Refresh, and every end of something, does.
Asks(dir) ==
  /\ Send([op |-> "list", dir |-> dir])
  /\ waiting' = CanSend
  /\ closed' = (closed \/ ~CanSend)

\* refresh, which reads the local side as well.
Refreshes ==
  /\ IF here = None THEN UNCHANGED <<queue, waiting, closed>> ELSE Asks(here)
  /\ local' = LocalSizes

(* apply, one disjunct for each event. *)
Event(is) == open /\ events # <<>> /\ Head(events).is = is /\ events' = Tail(events)

AppliesReady ==
  /\ Event("Ready")
  /\ here' = Home
  /\ Asks(Home)
  /\ UNCHANGED <<disk, receiver, phase, job, edits, truth, open, remote, local, transfers, asked>>

\* Mutant: the answer that came last is the one shown.
AppliesAnyListing ==
  /\ Event("Listing")
  /\ remote' = [dir |-> Head(events).dir, sizes |-> Head(events).sizes]
  /\ waiting' = FALSE
  /\ UNCHANGED <<disk, queue, receiver, phase, job, edits, truth,
                 open, here, local, transfers, asked, closed>>

AppliesListing ==
  /\ Event("Listing")
  /\ LET event == Head(events)
     IN IF event.dir = here
        THEN remote' = [dir |-> event.dir, sizes |-> event.sizes] /\ waiting' = FALSE
        ELSE UNCHANGED <<remote, waiting>>
  /\ UNCHANGED <<disk, queue, receiver, phase, job, edits, truth,
                 open, here, local, transfers, asked, closed>>

\* A line of the list, with no outcome while it has not ended.
Transfers == [id : Ids, file : Files, outcome : {None, "Finished", "Failed"}]
Transfer(id, file, outcome) == [id |-> id, file |-> file, outcome |-> outcome]
Outcome(transfer, outcome) == Transfer(transfer.id, transfer.file, outcome)

\* Each id is found again where the transfer was pushed.
Has(id) == \E i \in DOMAIN transfers : transfers[i].id = id
IndexOf(id) == CHOOSE i \in DOMAIN transfers : transfers[i].id = id

\* Mutant: a transfer that has an outcome keeps it.
AppliesFirstOutcome ==
  /\ Event("Finished")
  /\ LET event == Head(events)
     IN transfers' = [i \in DOMAIN transfers |->
                        IF transfers[i].id = event.id /\ transfers[i].outcome = None
                        THEN [transfers[i] EXCEPT !.outcome = "Finished"] ELSE transfers[i]]
  /\ Refreshes
  /\ UNCHANGED <<disk, receiver, phase, job, edits, truth, open, here, remote, asked>>

AppliesFinished ==
  /\ Event("Finished")
  /\ LET event == Head(events)
     IN transfers' = IF Has(event.id)
                     THEN [transfers EXCEPT ![IndexOf(event.id)] = Outcome(@, "Finished")]
                     ELSE transfers
  /\ Refreshes
  /\ UNCHANGED <<disk, receiver, phase, job, edits, truth, open, here, remote, asked>>

AppliesDone ==
  /\ Event("Done")
  /\ Refreshes
  /\ UNCHANGED <<disk, receiver, phase, job, edits, truth, open, here, remote, transfers, asked>>

\* The transfers a failure may be about: unfinished, and named in its words.
Named(what) == {i \in DOMAIN transfers : transfers[i].outcome = None
                                          /\ <<what, transfers[i].file>> \in Mentions}

AppliesFailed ==
  /\ Event("Failed")
  /\ LET named == Named(Head(events).what)
         first == CHOOSE i \in named : \A j \in named : i <= j
     IN transfers' = IF named = {} THEN transfers
                     ELSE [transfers EXCEPT ![first] = Outcome(@, "Failed")]
  /\ waiting' = FALSE
  /\ UNCHANGED <<disk, queue, receiver, phase, job, edits, truth,
                 open, here, remote, local, asked, closed>>

AppliesClosed ==
  /\ Event("Closed")
  /\ closed' = TRUE
  /\ transfers' = [i \in DOMAIN transfers |->
                     IF transfers[i].outcome = None
                     THEN Outcome(transfers[i], "Failed") ELSE transfers[i]]
  /\ UNCHANGED <<disk, queue, receiver, phase, job, edits, truth,
                 open, here, remote, local, waiting, asked>>

Shown(file) == remote # None /\ remote.sizes[file] >= 0

(* What the person does.  The buttons are off once the session has ended. *)
Refresh ==
  /\ open /\ ~closed /\ asked < MaxAsked
  /\ Refreshes
  /\ asked' = asked + 1
  /\ UNCHANGED <<disk, events, receiver, phase, job, edits, truth, open, here, remote, transfers>>

\* The panel is not drawn while it waits with nothing in it.
GoRemote(dir) ==
  /\ open /\ asked < MaxAsked
  /\ here # None
  /\ waiting => \E file \in Files : Shown(file)
  /\ here' = dir
  /\ remote' = None
  /\ Asks(dir)
  /\ asked' = asked + 1
  /\ UNCHANGED <<disk, events, receiver, phase, job, edits, truth, open, local, transfers>>

\* begin: the id is spent whether the command could be sent or not.
Begin(op, file, resume) ==
  LET id == Len(transfers) + 1
  IN /\ Len(transfers) < MaxTransfers
     /\ Send([op |-> op, file |-> file, id |-> id, resume |-> resume])
     /\ transfers' = IF CanSend
                     THEN Append(transfers, Transfer(id, file, None))
                     ELSE transfers
     /\ closed' = (closed \/ ~CanSend)
     /\ UNCHANGED <<disk, events, receiver, phase, job, edits, truth,
                    open, here, remote, local, waiting, asked>>

\* Resuming when something shorter is there now; what is here is looked up on
\* the disk, what the server has is as the listing had it.
DownloadSelected(file) ==
  /\ open /\ Shown(file) /\ here = Home
  /\ Begin("download", file, /\ disk["local"][file] # None
                             /\ Len(disk["local"][file]) < remote.sizes[file])

UploadSelected(file) ==
  /\ open /\ ~closed /\ local[file] >= 0 /\ here = Home
  /\ Begin("upload", file, Shown(file) /\ remote.sizes[file] < local[file])

DeleteSelected(file) ==
  /\ open /\ ~closed /\ Shown(file) /\ asked < MaxAsked
  /\ Send([op |-> "remove", file |-> file])
  /\ asked' = asked + 1
  /\ UNCHANGED <<disk, events, receiver, phase, job, edits, truth,
                 open, here, remote, local, waiting, transfers, closed>>

\* shutdown, and the tab is dropped, its ends of both channels with it.
Close ==
  /\ open
  /\ open' = FALSE
  /\ Send([op |-> "shutdown"])
  /\ receiver' = FALSE
  /\ events' = <<>>
  /\ here' = None
  /\ remote' = None
  /\ local' = [f \in Files |-> -1]
  /\ waiting' = FALSE
  /\ transfers' = <<>>
  /\ asked' = 0
  /\ closed' = TRUE
  /\ UNCHANGED <<disk, phase, job, edits, truth>>

Applies ==
  \/ AppliesReady \/ AppliesListing \/ AppliesFinished
  \/ AppliesDone \/ AppliesFailed \/ AppliesClosed

Next ==
  \/ SessionSteps /\ UNCHANGED tabVars
  \/ Applies
  \/ Refresh
  \/ \E dir \in Dirs : GoRemote(dir)
  \/ \E file \in Files : DownloadSelected(file) \/ UploadSelected(file) \/ DeleteSelected(file)
  \/ \E side \in Sides, file \in Files, other \in Others :
       Edit(side, file, other) /\ UNCHANGED tabVars
  \/ Close

\* The runtime runs the task, and a woken window takes what has arrived.
Fairness == WF_vars(SessionSteps /\ UNCHANGED tabVars) /\ WF_vars(Applies)
Spec == Init /\ [][Next]_vars /\ Fairness

------------------------------------------------------------------------------
TypeOK ==
  /\ disk \in [Sides -> [Files -> Contents]]
  /\ queue \in Seq(Commands) /\ events \in Seq(Events)
  /\ open \in BOOLEAN /\ receiver = open
  /\ phase \in {"opening", "idle", "copying", "leaving", "ended"}
  /\ IF phase = "copying" THEN job \in Jobs ELSE job = None
  /\ truth \in [Ids -> {None, "Finished", "Failed"}]
  /\ here \in Dirs \cup {None}
  /\ remote # None => remote.sizes \in Sizes
  /\ local \in Sizes
  /\ transfers \in Seq(Transfers) /\ Len(transfers) <= MaxTransfers
  /\ \A i \in DOMAIN transfers : transfers[i].id = i

Ended(i) == i \in DOMAIN transfers /\ transfers[i].outcome # None

\* What is shown on the right is what the directory named above it held: two
\* listings may be in flight, and neither answer may be taken for the other's
\* (AppliesListing, go_remote).
ListingIsOfHere == remote # None => remote.dir = here

\* However the words of failures were put to transfers on the way, once all is
\* told every transfer shows what became of it: the session works in the order
\* of the list, and whatever ended before has its outcome (AppliesFailed).
AllTold == open /\ queue = <<>> /\ events = <<>> /\ job = None
OutcomesAreTrue ==
  AllTold => \A i \in DOMAIN transfers :
               /\ truth[i] = "Finished" <=> transfers[i].outcome = "Finished"
               /\ truth[i] = "Failed" => transfers[i].outcome = "Failed"

\* A transfer that finishes, that continued nothing but a beginning of what it
\* copies, and whose source nobody exchanged, leaves a copy, and reports the
\* bytes that are there (Sftp::download, Sftp::upload).
FinishedIsACopy ==
  [][Finishes => /\ job.done = Length(disk[Sink(job.op)][job.file])
                 /\ job.sound => disk[Sink(job.op)][job.file] = disk[Source(job.op)][job.file]]_vars

\* Once a transfer has ended it stays as it ended ("How it ended, once it has").
EndedStaysEnded ==
  [][\A i \in Ids : Ended(i) /\ open' => transfers'[i].outcome = transfers[i].outcome]_vars

\* Every transfer ends, in the list as well, for as long as the tab is there; and a
\* tab that was closed lets go of the connection: the task behind it ends, whatever
\* it was doing and whatever was still asked of it.
EveryTransferEnds ==
  /\ \A i \in Ids : i \in DOMAIN transfers ~> ~open \/ Ended(i)
  /\ ~open ~> phase = "ended"

===============================================================================
