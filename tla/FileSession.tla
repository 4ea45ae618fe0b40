----------------------------- MODULE FileSession -----------------------------
(***************************************************************************)
(* The task behind a file browser, and the transfers it makes:             *)
(*                                                                         *)
(*   crates/proto-sftp/session.rs   commands in, events out, one at a time;*)
(*   crates/proto-sftp/lib.rs       list, remove, download and upload.     *)
(*                                                                         *)
(* A file is a sequence of chunks, and a chunk is told by the version of   *)
(* the file it was read from, so that a mixture of two versions shows.     *)
(* Files are in the directory Home of either side, under the same name.    *)
(* What the server, the network and the disk may refuse, they refuse at    *)
(* any step; a file is exchanged for another version by others only while  *)
(* no transfer writes to it.                                               *)
(***************************************************************************)
EXTENDS Integers, Sequences, SequencesExt

CONSTANTS Files,       \* names
          Home,        \* where the account starts
          Dirs,        \* what there is to look at
          Versions,    \* contents a file may have
          Before,      \* what the disks may hold at the start
          Others,      \* what others may put in a file's place
          MaxChunks,   \* bound: the length of a file
          MaxTransfers,\* bound: transfers begun
          MaxAsked,    \* bound: listings and removals waiting in the queue
          MaxEdits,    \* bound: files exchanged by others
          None

ASSUME HomeAssumption == Home \in Dirs
ASSUME BoundsAssumption == MaxChunks \in Nat /\ MaxTransfers \in Nat

Sides == {"local", "remote"}
Ids == 1 .. MaxTransfers
Written == UNION {[1 .. n -> Versions] : n \in 0 .. MaxChunks}
Contents == Written \cup {None}

ASSUME NoneAssumption == None \notin Files \cup Dirs \cup Written \cup {"Finished", "Failed"}

Length(content) == IF content = None THEN 0 ELSE Len(content)

ASSUME BeforeAssumption == Before \subseteq [Sides -> [Files -> Contents]]
ASSUME OthersAssumption == Others \subseteq Written

\* FileCommand.  Nothing in the interface makes directories or renames.
Commands ==
  [op : {"list"}, dir : Dirs]
    \cup [op : {"remove"}, file : Files]
    \cup [op : {"download", "upload"}, file : Files, id : Ids, resume : BOOLEAN]
    \cup [op : {"shutdown"}]
IsTransfer(command) == command.op \in {"download", "upload"}

\* FileEvent.  Progress is reported on the way, for the bar; it is left out.
Sizes == [Files -> -1 .. MaxChunks]      \* by name, -1 for what is not there
Events ==
  [is : {"Ready", "Done", "Closed"}]
    \cup [is : {"Listing"}, dir : Dirs, sizes : Sizes]
    \cup [is : {"Finished"}, id : Ids]
    \cup [is : {"Failed"}, what : Files \cup Dirs \cup {None}]

\* A transfer under way; sound is for the properties.
Jobs == [op : {"download", "upload"}, file : Files, id : Ids, done : Nat, sound : BOOLEAN]
Job(command, done, sound) ==
  [op |-> command.op, file |-> command.file, id |-> command.id, done |-> done, sound |-> sound]
ASSUME JobAssumption == None \notin Jobs

VARIABLES
  disk,      \* what is in Home, on either side
  queue,     \* the commands channel
  events,    \* the events channel
  receiver,  \* the browser still holds the other end of events
  phase,     \* where the task is
  job,       \* the transfer under way
  edits,     \* how often others exchanged a file
  truth      \* what became of each transfer, as the task knows it

sessionVars == <<disk, queue, events, receiver, phase, job, edits, truth>>

SessionInit ==
  /\ disk \in Before
  /\ queue = <<>>
  /\ events = <<>>
  /\ receiver = TRUE
  /\ phase = "opening"
  /\ job = None
  /\ edits = 0
  /\ truth = [i \in Ids |-> None]

\* FileSession::send: refused once the task is gone.
CanSend == phase # "ended"

\* report: the event is sent, or nobody is there to take it, which ends the
\* loop wherever its answer is looked at.
Report(event) == events' = IF receiver THEN Append(events, event) ELSE events
NextPhase == IF receiver THEN "idle" ELSE "leaving"

(* The start: the subsystem, then where the account starts. *)
Starts ==
  /\ phase = "opening"
  /\ Report([is |-> "Ready"])
  /\ phase' = IF receiver THEN "idle" ELSE "ended"
  /\ UNCHANGED <<disk, queue, receiver, job, edits, truth>>

CannotStart ==
  /\ phase = "opening"
  /\ events' = IF receiver
               THEN Append(Append(events, [is |-> "Failed", what |-> None]), [is |-> "Closed"])
               ELSE events
  /\ phase' = "ended"
  /\ UNCHANGED <<disk, queue, receiver, job, edits, truth>>

Head1(op) == phase = "idle" /\ queue # <<>> /\ Head(queue).op = op

\* Sftp::list: what is there now, with its sizes.
Listing(dir) ==
  [is |-> "Listing", dir |-> dir,
   sizes |-> [f \in Files |-> IF dir = Home /\ disk["remote"][f] # None
                              THEN Len(disk["remote"][f]) ELSE -1]]

Lists ==
  /\ Head1("list")
  /\ LET dir == Head(queue).dir
     IN \/ Report(Listing(dir))
        \/ Report([is |-> "Failed", what |-> dir])
  /\ queue' = Tail(queue)
  /\ phase' = NextPhase
  /\ UNCHANGED <<disk, receiver, job, edits, truth>>

Removes ==
  /\ Head1("remove")
  /\ LET file == Head(queue).file
     IN \/ /\ disk["remote"][file] # None
           /\ disk' = [disk EXCEPT !["remote"][file] = None]
           /\ Report([is |-> "Done"])
        \/ /\ Report([is |-> "Failed", what |-> file])
           /\ UNCHANGED disk
  /\ queue' = Tail(queue)
  /\ phase' = NextPhase
  /\ UNCHANGED <<receiver, job, edits, truth>>

(***************************************************************************)
(* download and upload are each other's mirror: the length of what is      *)
(* there when resuming, the source opened at that place, the destination   *)
(* created, and emptied unless it is continued.                            *)
(***************************************************************************)
Source(op) == IF op = "download" THEN "remote" ELSE "local"
Sink(op) == IF op = "download" THEN "local" ELSE "remote"

Already(command) ==
  IF command.resume THEN Length(disk[Sink(command.op)][command.file]) ELSE 0

\* Mutant: the destination is emptied whether it is continued or not.
OpenedByCreate(command) == <<>>

Opened(command) ==
  IF Already(command) > 0 THEN disk[Sink(command.op)][command.file] ELSE <<>>

Begins(op) ==
  /\ Head1(op)
  /\ LET command == Head(queue)
         already == Already(command)
     IN /\ disk[Source(op)][command.file] # None
        /\ disk' = [disk EXCEPT ![Sink(op)][command.file] = Opened(command)]
        /\ job' = Job(command, already,
                      \* what is continued is the beginning of what is copied
                      already = 0 \/ IsPrefix(disk[Sink(op)][command.file],
                                             disk[Source(op)][command.file]))
  /\ queue' = Tail(queue)
  /\ phase' = "copying"
  /\ UNCHANGED <<events, receiver, edits, truth>>

\* Mutant: a transfer that cannot be carried out is passed over.
FailsSilently(file, id) ==
  /\ UNCHANGED events
  /\ truth' = [truth EXCEPT ![id] = "Failed"]
  /\ phase' = NextPhase
  /\ job' = None

Fails(file, id) ==
  /\ Report([is |-> "Failed", what |-> file])
  /\ truth' = [truth EXCEPT ![id] = "Failed"]
  /\ phase' = NextPhase
  /\ job' = None

CannotBegin(op) ==
  /\ Head1(op)
  /\ Fails(Head(queue).file, Head(queue).id)
  /\ queue' = Tail(queue)
  /\ UNCHANGED <<disk, receiver, edits>>

\* One turn of the loop: a chunk is read at the place reached, and written.
From == disk[Source(job.op)][job.file]
AtEnd == From = None \/ job.done >= Len(From)

Copies ==
  /\ phase = "copying"
  /\ ~AtEnd
  /\ disk' = [disk EXCEPT ![Sink(job.op)][job.file] = Append(@, From[job.done + 1])]
  /\ job' = Job(job, job.done + 1, job.sound)
  /\ UNCHANGED <<queue, events, receiver, phase, edits, truth>>

\* The source ends; finish reports the number of bytes.
Finishes ==
  /\ phase = "copying"
  /\ AtEnd
  /\ Report([is |-> "Finished", id |-> job.id])
  /\ truth' = [truth EXCEPT ![job.id] = "Finished"]
  /\ phase' = NextPhase
  /\ job' = None
  /\ UNCHANGED <<disk, queue, receiver, edits>>

Breaks ==
  /\ phase = "copying"
  /\ Fails(job.file, job.id)
  /\ UNCHANGED <<disk, queue, receiver, edits>>

\* The command to stop, or every sender gone, which the receiver went with.
Stops ==
  /\ \/ Head1("shutdown") /\ queue' = Tail(queue)
     \/ phase = "idle" /\ queue = <<>> /\ ~receiver /\ UNCHANGED queue
  /\ phase' = "leaving"
  /\ UNCHANGED <<disk, events, receiver, job, edits, truth>>

Leaves ==
  /\ phase = "leaving"
  /\ Report([is |-> "Closed"])
  /\ phase' = "ended"
  /\ UNCHANGED <<disk, queue, receiver, job, edits, truth>>

\* Somebody else puts another version of a file in its place.
Edit(side, file, other) ==
  /\ edits < MaxEdits
  /\ job # None => <<side, file>> # <<Sink(job.op), job.file>>
  /\ disk' = [disk EXCEPT ![side][file] = other]
  /\ job' = IF job # None /\ file = job.file THEN Job(job, job.done, FALSE) ELSE job
  /\ edits' = edits + 1
  /\ UNCHANGED <<queue, events, receiver, phase, truth>>

SessionSteps ==
  \/ Starts \/ CannotStart
  \/ Lists \/ Removes
  \/ \E op \in {"download", "upload"} : Begins(op) \/ CannotBegin(op)
  \/ Copies \/ Finishes \/ Breaks
  \/ Stops \/ Leaves
===============================================================================
