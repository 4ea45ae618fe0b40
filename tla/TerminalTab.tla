------------------------------ MODULE TerminalTab ------------------------------
(***************************************************************************)
(* One terminal tab over a local shell, an SSH channel or a serial port:   *)
(*                                                                         *)
(*   the peer, and what is on its way from it;                             *)
(*   the transport's reader (a thread, or a task for SSH) and, for SSH, its *)
(*   writing task and the callback that says why a connection ended;       *)
(*   the relay thread of app-ui's tab.rs, which wakes the interface;       *)
(*   the tab, pumped and painted in frames that happen only when asked for.*)
(*                                                                         *)
(* Telnet, the fourth transport, has a module of its own (TelnetSession).  *)
(* Output comes in pieces numbered from 1, and of a piece only its number  *)
(* is kept, and whether it asks the terminal something.                    *)
(***************************************************************************)
EXTENDS Naturals, Sequences, SequencesExt, FiniteSets

CONSTANTS Sizes, FirstSize,  \* of the grid; every tab begins with FirstSize
          Queries,           \* the pieces that ask for an answer
          Budget,            \* pieces a pump takes before it gives way
          MaxOutput,         \* bound: pieces a peer sends
          MaxResizes         \* bound: how often the window changes

ASSUME SizesAssumption == FirstSize \in Sizes
ASSUME BudgetAssumption == Budget \in Nat \ {0}
ASSUME BoundsAssumption == {MaxOutput, MaxResizes} \subseteq Nat
ASSUME QueriesAssumption == Queries \subseteq 1 .. MaxOutput

NoCode == "none"
Piece(n) == [type |-> "Output", n |-> n]
Signal(type) == [type |-> type]
Closed(with, message) == [type |-> "Closed", code |-> with, message |-> message]
NoExit == Closed("still running", FALSE)
Answer(n) == <<"answer", n>>
Data(bytes) == [type |-> "Data", bytes |-> bytes]
Resize(to) == [type |-> "Resize", size |-> to]
Shutdown == [type |-> "Shutdown"]

VARIABLES
  \* the peer
  kind,       \* "pty", "ssh" or "serial"
  peer,       \* "up", "exited", or "lost" with what carried it
  sent,       \* pieces of output sent
  code,       \* what it exited with
  wire,       \* on its way to the reader
  got,        \* what it received
  peerSize,   \* the size it was last told
  \* the transport
  reader,     \* "reading", "reporting" or "done"
  status,     \* the exit status an SSH reader has seen
  death,      \* of an SSH connection: "no", "dying", "told", "dropped"
  source,     \* reader to relay
  writer,     \* of SSH: "running" or "done"
  commands,   \* tab to writer
  size,       \* what the transport believes the peer has
  told,       \* whether it was ever told a size, for the properties
  \* the relay
  relay,      \* "waiting", "waking", "waking last" or "done"
  queue,      \* relay to tab
  \* the interface
  pane,       \* the size the window has room for
  resizes,
  wake,       \* a frame was asked for
  tab,        \* "open" or "closed"
  grid,
  screen,     \* the pieces the emulator was given
  exit

peerVars == <<kind, peer, sent, code, got, peerSize>>
readVars == <<wire, reader, status, source>>
writeVars == <<writer, commands, size, told>>
relayVars == <<relay, queue>>
windowVars == <<pane, resizes>>
tabVars == <<tab, grid, screen, exit>>
vars == <<peerVars, readVars, death, writeVars, relayVars, windowVars, wake, tabVars>>

\* connect_ssh asks for a channel of the size of the tab that is shown then.
OpenedAt(transport) == IF transport = "ssh" THEN Sizes ELSE {FirstSize}

\* adopt takes whatever was opened to have FirstSize.
Init ==
  /\ kind \in {"pty", "ssh", "serial"}
  /\ peer = "up" /\ sent = 0 /\ code = NoCode /\ wire = <<>> /\ got = <<>>
  /\ peerSize \in OpenedAt(kind)
  /\ reader = "reading" /\ status = NoCode /\ death = "no" /\ source = <<>>
  /\ writer = "running" /\ commands = <<>> /\ size = peerSize /\ told = FALSE
  /\ relay = "waiting" /\ queue = <<>>
  /\ pane \in Sizes /\ resizes = 0 /\ wake = TRUE
  /\ tab = "open" /\ grid = FirstSize /\ screen = <<>> /\ exit = NoExit

------------------------------------------------------------------------------
(* The peer                                                                *)

PeerWrites ==
  /\ peer = "up" /\ sent < MaxOutput
  /\ sent' = sent + 1
  /\ wire' = Append(wire, Piece(sent + 1))
  /\ UNCHANGED <<kind, peer, code, got, peerSize, reader, status, source, death,
                 writeVars, relayVars, windowVars, wake, tabVars>>

\* A shell exits.  A server tells the status before or after the end of output.
PeerExits(with, early) ==
  /\ peer = "up" /\ kind # "serial"
  /\ peer' = "exited"
  /\ code' = with
  /\ wire' = wire \o (IF kind = "ssh" /\ early THEN <<Signal("status"), Signal("eof")>> ELSE <<Signal("eof")>>)
  /\ UNCHANGED <<kind, sent, got, peerSize, reader, status, source, death,
                 writeVars, relayVars, windowVars, wake, tabVars>>

\* The network goes, or the cable, or a server hangs up once its shell is
\* done.  What had arrived is still read.  (Later, or once the tab has gone, it
\* is noticed by nobody.)
PeerLost ==
  /\ peer # "lost" /\ kind # "pty" /\ death = "no"
  /\ tab = "open" /\ reader # "done"
  /\ peer' = IF peer = "up" THEN "lost" ELSE peer
  /\ death' = IF kind = "ssh" THEN "dying" ELSE death
  /\ wire' = Append(wire, Signal("gone"))
  /\ UNCHANGED <<kind, sent, code, got, peerSize, reader, status, source, writeVars,
                 relayVars, windowVars, wake, tabVars>>

\* disconnected, on the session task, some time after its channels closed.
Disconnected ==
  /\ death = "dying"
  /\ death' = "told"
  /\ UNCHANGED <<peerVars, readVars, writeVars, relayVars, windowVars, wake, tabVars>>

------------------------------------------------------------------------------
(* The readers                                                             *)

\* A send succeeds while the relay is there to receive.
Sends(event) ==
  IF relay = "done" THEN reader' = "done" /\ UNCHANGED source
  ELSE source' = Append(source, event) /\ UNCHANGED reader

\* shutdown is a flag that a serial reader looks at before every read, and it
\* times out of a silent one.
Stops == kind = "serial" /\ tab = "closed"

SerialStops ==
  /\ reader = "reading" /\ Stops
  /\ reader' = "done"
  /\ UNCHANGED <<peerVars, wire, status, source, death, writeVars, relayVars,
                 windowVars, wake, tabVars>>

\* Output is sent on, an exit status kept, and at the end of it the end looked for.
Takes(head) ==
  \/ /\ head.type = "Output"
     /\ Sends(head)
     /\ UNCHANGED status
  \/ /\ head.type = "status"
     /\ status' = code
     /\ UNCHANGED <<reader, source>>
  \/ /\ head.type \in {"eof", "gone"}
     /\ reader' = "reporting"
     /\ UNCHANGED <<status, source>>

\* Mutant: a shell's end is what ends its reader, whatever is still to be read.
ReadsUntilExit ==
  /\ reader = "reading" /\ wire # <<>>
  /\ LET head == IF peer = "exited" THEN Signal("eof") ELSE Head(wire)
     IN /\ wire' = IF peer = "exited" THEN <<>> ELSE Tail(wire)
        /\ Takes(head)
  /\ UNCHANGED <<peerVars, death, writeVars, relayVars, windowVars, wake, tabVars>>

\* read_loop, open_shell's reading task and spawn_reader: all output first.
Reads ==
  /\ reader = "reading" /\ wire # <<>>
  /\ wire' = Tail(wire)
  /\ Takes(Head(wire))
  /\ UNCHANGED <<peerVars, death, writeVars, relayVars, windowVars, wake, tabVars>>

\* A quarter of a second is taken to be enough for a callback under way; for a
\* connection that lives on it is waited in vain.
Waited == death # "dying"

\* A shell is waited for, a connection asked what it died of.
Ending == IF kind = "pty" THEN Closed(code, FALSE)
          ELSE IF kind = "ssh" THEN Closed(status, death = "told")
          ELSE Closed(NoCode, TRUE)

Reports ==
  /\ reader = "reporting"
  /\ kind = "ssh" => Waited
  /\ reader' = "done"
  /\ source' = IF relay = "done" THEN source ELSE Append(source, Ending)
  /\ UNCHANGED <<peerVars, wire, status, death, writeVars, relayVars, windowVars,
                 wake, tabVars>>

------------------------------------------------------------------------------
(* The writing task of SSH                                                 *)

\* A command reaches a peer that is there; otherwise it is the last.
Writes ==
  /\ kind = "ssh" /\ writer = "running" /\ commands # <<>>
  /\ commands' = IF peer = "up" THEN Tail(commands) ELSE <<>>
  /\ LET command == Head(commands)
     IN \/ /\ peer = "up" /\ command.type = "Data"
           /\ got' = Append(got, command.bytes)
           /\ UNCHANGED <<writer, peer, wire, peerSize>>
        \/ /\ peer = "up" /\ command.type = "Resize"
           /\ peerSize' = command.size
           /\ UNCHANGED <<writer, peer, wire, got>>
        \/ /\ peer = "up" /\ command.type = "Shutdown"
           /\ writer' = "done" /\ peer' = "exited" /\ wire' = Append(wire, Signal("eof"))
           /\ UNCHANGED <<got, peerSize>>
        \/ /\ peer # "up"
           /\ writer' = "done"
           /\ UNCHANGED <<peer, wire, got, peerSize>>
  /\ UNCHANGED <<kind, sent, code, reader, status, source, death, size, told, relayVars,
                 windowVars, wake, tabVars>>

\* The owner of the connection went with the tab, and the session task ends
\* without a call of disconnected.
Dropped ==
  /\ kind = "ssh" /\ tab = "closed" /\ death \in {"no", "dying"}
  /\ death' = "dropped"
  /\ peer' = "lost"
  /\ wire' = Append(wire, Signal("gone"))
  /\ writer' = "done"
  /\ commands' = <<>>
  /\ UNCHANGED <<kind, sent, code, got, peerSize, reader, status, source, size, told,
                 relayVars, windowVars, wake, tabVars>>

------------------------------------------------------------------------------
(* The relay                                                               *)

\* Mutant: the interface is woken and then given the event.
WakesFirst ==
  \/ /\ relay = "waiting" /\ source # <<>> /\ tab = "open"
     /\ wake' = TRUE
     /\ relay' = IF Head(source).type = "Closed" THEN "waking last" ELSE "waking"
     /\ UNCHANGED <<queue, source>>
  \/ /\ relay \in {"waking", "waking last"} /\ source # <<>>
     /\ queue' = IF tab = "open" THEN Append(queue, Head(source)) ELSE queue
     /\ source' = Tail(source)
     /\ relay' = IF relay = "waking" THEN "waiting" ELSE "done"
     /\ UNCHANGED wake
  \/ /\ relay = "waiting" /\ source # <<>> /\ tab = "closed"
     /\ relay' = "done" /\ source' = <<>>
     /\ UNCHANGED <<queue, wake>>

\* An event is sent on, and then the interface woken.
Delivers ==
  \/ /\ relay = "waiting" /\ source # <<>> /\ tab = "open"
     /\ queue' = Append(queue, Head(source))
     /\ source' = Tail(source)
     /\ relay' = IF Head(source).type = "Closed" THEN "waking last" ELSE "waking"
     /\ UNCHANGED wake
  \/ /\ relay \in {"waking", "waking last"}
     /\ wake' = (tab = "open")
     /\ relay' = IF relay = "waking" THEN "waiting" ELSE "done"
     /\ UNCHANGED <<queue, source>>
  \/ /\ relay = "waiting" /\ source # <<>> /\ tab = "closed"
     /\ relay' = "done" /\ source' = <<>>
     /\ UNCHANGED <<queue, wake>>

Relays ==
  /\ Delivers
  /\ UNCHANGED <<peerVars, wire, reader, status, death, writeVars, windowVars, tabVars>>

\* The transport let go of its side.
RelayEnds ==
  /\ relay = "waiting" /\ source = <<>> /\ reader = "done"
  /\ relay' = "done"
  /\ UNCHANGED <<peerVars, readVars, death, writeVars, queue, windowVars, wake, tabVars>>

------------------------------------------------------------------------------
(* The tab                                                                 *)

\* pump: until the queue is empty, the budget spent or the end read.
Ends(n) == queue[n].type = "Closed"
Pumped ==
  LET stops == {n \in 1 .. Len(queue) : n = Len(queue) \/ n = Budget \/ Ends(n)}
  IN IF stops = {} THEN 0 ELSE CHOOSE n \in stops : \A k \in stops : n <= k
EndIsPumped == Pumped > 0 /\ Ends(Pumped)
Output == [k \in 1 .. (IF EndIsPumped THEN Pumped - 1 ELSE Pumped) |-> queue[k].n]
Exit == IF EndIsPumped THEN queue[Pumped] ELSE exit

\* The elements of a list that are in a set, in the order of the list.
Among(list, set) ==
  LET at == {k \in DOMAIN list : list[k] \in set}
      nth(n) == CHOOSE k \in at : Cardinality({j \in at : j <= k}) = n
  IN [n \in 1 .. Cardinality(at) |-> list[nth(n)]]

\* What the emulator has to say to pieces it is given.
Answering(pieces) == LET asked == Among(pieces, Queries)
                     IN [k \in DOMAIN asked |-> Answer(asked[k])]

\* Mutant: the emulator keeps what it has handed out.
AnswersKept == Answering(screen \o Output)

\* take_responses: what the pieces just taken ask for.
Answers == Answering(Output)

\* Mutant: the transport compares with the size it was opened with.
ResizedOnce(to) == [told |-> to # size, size |-> size]

\* The transports' resize: a size that was told is not told again.
Resized(to) == [told |-> to # size, size |-> to]

\* TerminalTab::resize asks only when the grid changes.
Asked(shown) == shown /\ pane # grid

\* A frame: every tab is pumped, and the one shown is given the size of the
\* pane.  A shell and a port are written to at once.
Paint(shown) ==
  /\ tab = "open" /\ wake
  /\ wake' = (Pumped > 0)
  /\ queue' = SubSeq(queue, Pumped + 1, Len(queue))
  /\ screen' = screen \o Output
  /\ exit' = Exit
  /\ grid' = IF shown THEN pane ELSE grid
  /\ LET news == IF Asked(shown) THEN Resized(pane) ELSE [told |-> FALSE, size |-> size]
         resize == IF news.told THEN <<Resize(pane)>> ELSE <<>>
         data == [k \in DOMAIN Answers |-> Data(Answers[k])]
     IN \/ /\ kind = "ssh" /\ writer = "running"
           /\ told' = (told \/ news.told)
           /\ commands' = commands \o data \o resize
           /\ size' = news.size
           /\ UNCHANGED <<got, peerSize>>
        \/ /\ kind = "ssh" /\ writer = "done"
           /\ UNCHANGED <<commands, size, told, got, peerSize>>
        \/ /\ kind # "ssh"
           /\ got' = IF peer = "up" THEN got \o Answers ELSE got
           /\ size' = IF kind = "pty" THEN news.size ELSE size
           /\ peerSize' = IF kind = "pty" /\ news.told THEN pane ELSE peerSize
           /\ UNCHANGED <<commands, told>>
  /\ UNCHANGED <<kind, peer, sent, code, readVars, death, writer, relay, pane,
                 resizes, tab>>

\* The person changes the window, which is a frame of its own.
ResizeWindow(to) ==
  /\ tab = "open" /\ to # pane /\ resizes < MaxResizes
  /\ pane' = to
  /\ resizes' = resizes + 1
  /\ wake' = TRUE
  /\ UNCHANGED <<peerVars, readVars, death, writeVars, relayVars, tabVars>>

\* close_tab: shutdown, and then the tab and all it holds are dropped.  What it
\* had told and been told, and the window, are of no more interest.
CloseTab ==
  /\ tab = "open"
  /\ tab' = "closed"
  /\ queue' = <<>> /\ wake' = FALSE /\ screen' = <<>> /\ exit' = NoExit
  /\ grid' = FirstSize /\ size' = FirstSize /\ peerSize' = FirstSize /\ got' = <<>> /\ told' = FALSE
  /\ pane' = FirstSize /\ resizes' = 0
  /\ IF kind = "pty" /\ peer = "up"
     THEN peer' = "exited" /\ code' = "failed" /\ wire' = Append(wire, Signal("eof"))
     ELSE UNCHANGED <<peer, code, wire>>
  /\ commands' = IF kind = "ssh" /\ writer = "running"
                 THEN Append(commands, Shutdown) ELSE commands
  /\ UNCHANGED <<kind, sent, reader, status, source, death, writer, relay>>

------------------------------------------------------------------------------
Next ==
  \/ PeerWrites \/ PeerLost \/ Disconnected
  \/ \E with \in {"ok", "failed"}, early \in BOOLEAN : PeerExits(with, early)
  \/ SerialStops \/ Reads \/ Reports \/ Writes \/ Dropped
  \/ Relays \/ RelayEnds
  \/ \E shown \in BOOLEAN : Paint(shown)
  \/ \E to \in Sizes : ResizeWindow(to)
  \/ CloseTab

\* Threads and tasks run when they can, and a frame that was asked for comes.
Fairness ==
  /\ WF_vars(SerialStops \/ Reads \/ Reports)
  /\ WF_vars(Relays \/ RelayEnds)
  /\ WF_vars(Writes) /\ WF_vars(Dropped) /\ WF_vars(Disconnected)
  /\ WF_vars(Paint(TRUE))

Spec == Init /\ [][Next]_vars /\ Fairness

------------------------------------------------------------------------------
Codes == {NoCode, "ok", "failed"}
Pieces == {Piece(n) : n \in 1 .. MaxOutput}
Signals == {Signal(type) : type \in {"status", "eof", "gone"}}
Endings == {Closed(with, message) : with \in Codes, message \in BOOLEAN}
Replies == {Answer(n) : n \in Queries}
DataCommands == {Data(bytes) : bytes \in Replies}
Commands == DataCommands \cup {Resize(to) : to \in Sizes} \cup {Shutdown}

PeerTypeOK ==
  /\ kind \in {"pty", "ssh", "serial"} /\ peer \in {"up", "exited", "lost"}
  /\ sent \in 0 .. MaxOutput /\ code \in Codes
  /\ got \in Seq(Replies) /\ peerSize \in Sizes
ReadTypeOK ==
  /\ wire \in Seq(Pieces \cup Signals) /\ reader \in {"reading", "reporting", "done"}
  /\ status \in Codes /\ source \in Seq(Pieces \cup Endings)
  /\ death \in {"no", "dying", "told", "dropped"}
WriteTypeOK ==
  /\ writer \in {"running", "done"} /\ commands \in Seq(Commands)
  /\ size \in Sizes /\ told \in BOOLEAN
RelayTypeOK ==
  /\ relay \in {"waiting", "waking", "waking last", "done"} /\ queue \in Seq(Pieces \cup Endings)
  /\ pane \in Sizes /\ resizes \in 0 .. MaxResizes /\ wake \in BOOLEAN
TabTypeOK ==
  /\ tab \in {"open", "closed"} /\ grid \in Sizes
  /\ screen \in Seq(1 .. MaxOutput) /\ exit \in Endings \cup {NoExit}

TypeOK == PeerTypeOK /\ ReadTypeOK /\ WriteTypeOK /\ RelayTypeOK /\ TabTypeOK

\* A tab that says its session ended shows everything the session said, in
\* order (Reads); a session cut off reads as a failure, and one whose
\* connection is as it was does not (Reports); and a local shell's code is the
\* one it exited with.
EndIsTruthful ==
  exit # NoExit =>
    /\ screen = [n \in 1 .. sent |-> n]
    /\ peer = "lost" => exit.message
    /\ peer = "exited" /\ death = "no" => ~exit.message
    /\ kind = "pty" => exit.code = code

\* Whatever the peer asked it is answered, once and in the order of asking:
\* a program that gets no answer waits, one that gets two reads the second as
\* something typed (take_responses, pump).
Bytes(list) == LET data == Among(list, DataCommands) IN [k \in DOMAIN data |-> data[k].bytes]
Written == got \o Bytes(commands)
AnsweredOnce ==
  tab = "open" =>
    /\ IsPrefix(Written, Answering(screen))
    /\ peer = "up" => Written = Answering(screen)

\* Once the window has been drawn at its size and nothing is on its way, that
\* is the size the peer has: resizes go through two memories of what was told
\* and, for SSH, a queue.  A tab that stays at the size it begins with tells
\* nobody, though an SSH channel may have been opened at another.
SizeReachesPeer ==
  /\ tab = "open" /\ peer = "up" /\ kind # "serial"
  /\ commands = <<>> /\ grid = pane
  /\ kind = "ssh" => told
  => peerSize = grid

\* Output is shown, or the tab closed, without anybody touching anything: the
\* wake comes after what it is for, and a pump that gives way asks for another
\* frame (relay, pump).
OutputIsShown == \A n \in 1 .. MaxOutput : (sent >= n) ~> (Len(screen) >= n \/ tab = "closed")

\* A closed tab leaves no thread, task or shell behind (shutdown, relay).
ClosedTabLetsGo ==
  (tab = "closed") ~> (reader = "done" /\ relay = "done"
                       /\ (kind = "pty" => peer # "up") /\ (kind = "ssh" => writer = "done"))

\* Nothing that was said waits for somebody to move the mouse, and nothing waits
\* for a tab that has gone.
NothingIsLeftWaiting == OutputIsShown /\ ClosedTabLetsGo

------------------------------------------------------------------------------
(* The strengthening behind EndIsTruthful                                  *)

\* Only the last of a list of events may be the end.
Ended(events) == events # <<>> /\ events[Len(events)].type = "Closed"
Count(events) == IF Ended(events) THEN Len(events) - 1 ELSE Len(events)
Continues(events, from) == \A k \in 1 .. Count(events) : events[k] = Piece(from + k)

\* How far the relay, and the reader, have come.
Relayed == Len(screen) + Count(queue)
Read == Relayed + Count(source)

\* Of the output, what is on the wire comes first and without a gap.
Carries(list, from, n) ==
  /\ n <= Len(list)
  /\ \A k \in DOMAIN list : IF k <= n THEN list[k] = Piece(from + k) ELSE list[k].type # "Output"

\* Nothing is lost on the way, and nothing overtakes.
DeliveredInOrder ==
  /\ screen = [n \in 1 .. Len(screen) |-> n]
  /\ Continues(queue, Len(screen))
  /\ Continues(source, Relayed)

ReadInOrder ==
  /\ Read <= sent /\ Carries(wire, Read, sent - Read)
  /\ peer = "up" => Len(wire) = sent - Read
  /\ reader # "reading" => Read = sent /\ peer # "up"

\* The end is said once, by a reader that is done, and is the last thing said.
EndsOnce ==
  /\ Ended(queue) \/ exit # NoExit => relay \in {"waking last", "done"}
  /\ relay \in {"waking last", "done"} => reader = "done" /\ source = <<>>
  /\ Ended(source) => reader = "done"
  /\ exit # NoExit => queue = <<>>

\* How each kind of peer can end, and what its end is then said to be.
EndsByKind ==
  /\ kind = "pty" => peer # "lost"
  /\ kind = "serial" => peer # "exited"
  /\ kind = "ssh" /\ peer = "lost" => death \in {"dying", "told"}

Truthful(end) ==
  /\ peer = "lost" => end.message
  /\ peer = "exited" /\ death = "no" => ~end.message
  /\ kind = "pty" => end.code = code

EndsAreTruthful ==
  /\ Ended(source) => Truthful(source[Len(source)])
  /\ Ended(queue) => Truthful(queue[Len(queue)])
  /\ exit # NoExit => Truthful(exit)

EndInv == DeliveredInOrder /\ ReadInOrder /\ EndsOnce /\ EndsByKind /\ EndsAreTruthful

------------------------------------------------------------------------------
(* The strengthening behind SizeReachesPeer and AnsweredOnce               *)

\* A writer stops for a peer that is gone, and only SSH has one to command.
WriterFollows ==
  /\ writer = "done" => peer # "up"
  /\ kind # "ssh" => commands = <<>>
  /\ \A k \in DOMAIN commands : commands[k].type # "Shutdown"

\* A peer of size `has`, sent these commands, ends up with size `to`.
Resizes(list) == {k \in DOMAIN list : list[k].type = "Resize"}
WillHave(list, has, to) ==
  /\ \A k \in Resizes(list) : (\A j \in Resizes(list) : j <= k) => list[k].size = to
  /\ Resizes(list) = {} => has = to

\* What the transport believes the peer has is what the peer will have, and once
\* it was told it is what the tab has.
SizeIsOnItsWay ==
  peer = "up" /\ kind # "serial" =>
    /\ WillHave(commands, peerSize, size)
    /\ kind = "pty" \/ told => size = grid

\* As long as somebody can write to the peer, it is being told all there is.
AnswersAreWritten ==
  /\ IsPrefix(Written, Answering(screen))
  /\ (IF kind = "ssh" THEN writer = "running" ELSE peer = "up") => Written = Answering(screen)

IInv ==
  /\ TypeOK
  /\ tab = "open" => EndInv /\ WriterFollows /\ SizeIsOnItsWay /\ AnswersAreWritten
  /\ tab = "closed" => exit = NoExit

===============================================================================
