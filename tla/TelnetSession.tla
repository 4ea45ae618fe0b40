---------------------------- MODULE TelnetSession ----------------------------
(***************************************************************************)
(* One telnet connection of crates/proto-telnet: a task that reads the     *)
(* socket and works out the answers under a lock, a task that owns the     *)
(* write half and is fed by one channel, and the interface, which types    *)
(* and resizes.  What the reader works out under the lock it queues after  *)
(* letting the lock go; what the writer was told to send it sends in the   *)
(* order of the channel.                                                   *)
(*                                                                         *)
(* The server is one that keeps to RFC 1143: it never has two questions    *)
(* open about one option, and says nothing when nothing changes.           *)
(***************************************************************************)
EXTENDS TelnetOptions, SequencesExt

CONSTANTS FirstSize,    \* the window when the connection opens
          Sizes,        \* the sizes it may be given
          MaxRequests,  \* bound: what the server says of its own accord
          MaxInputs,    \* bound: bytes typed and resizes of the window
          MaxCuts       \* bound: reads that end before what has arrived does

ASSUME SizesAssumption == Sizes \cup {FirstSize} \subseteq Nat
ASSUME BoundsAssumption == {MaxRequests, MaxInputs, MaxCuts} \subseteq Nat

VARIABLES
  telnet,       \* the negotiation, behind its lock
  reader,       \* "reading", "queueing" what it worked out, or "ended"
  parsed,       \* what it worked out
  writer,       \* "waiting" for a command, or "ended"
  commands,     \* the channel to the writer
  events,       \* the channel from the reader
  window,       \* the size the transport was last given
  shut,         \* whether the interface has shut the transport down
  listening,    \* whether anything still receives the events
  toServer,     \* what is on its way to the server, one message an element
  toClient,     \* what is on its way back, one byte an element
  socket,       \* "open" until the server closes it or it breaks
  client,       \* per option, what the server knows the client does
  server,       \* per option, what the server does
  told,         \* the size the server was last told, 0 for none
  sent,         \* the bytes for the terminal the server sent
  requests, inputs, cuts

clientVars == <<telnet, reader, parsed, writer, commands, events, window, shut, listening>>
serverVars == <<client, server, told, sent, requests>>
wires == <<toServer, toClient, socket>>
counters == <<inputs, cuts>>
vars == <<telnet, reader, parsed, writer, commands, events, window, shut, listening,
          toServer, toClient, socket, client, server, told, sent, requests, inputs, cuts>>

\* TelnetTransport::open has started the tasks, and the writer has written its
\* opening.
Nothing == [data |-> <<>>, reply |-> <<>>]

Init ==
  /\ telnet = New(FirstSize)
  /\ reader = "reading"
  /\ parsed = Nothing
  /\ writer = "waiting"
  /\ commands = <<>>
  /\ events = <<>>
  /\ window = FirstSize
  /\ shut = FALSE
  /\ listening = TRUE
  /\ toServer = Opening
  /\ toClient = <<>>
  /\ socket = "open"
  /\ client = [o \in Options |-> "no"]
  /\ server = [o \in Options |-> "no"]
  /\ told = 0
  /\ sent = <<>>
  /\ requests = 0
  /\ inputs = 0
  /\ cuts = 0

------------------------------------------------------------------------------
(* The reading task                                                        *)

Output(data) == [event |-> "Output", data |-> data]
Closed == [event |-> "Closed"]

\* read returns some of what has arrived; the lock is held for the parsing.
ReadChunk ==
  /\ reader = "reading"
  /\ \E n \in 1 .. Len(toClient) :
       /\ n < Len(toClient) => cuts < MaxCuts
       /\ cuts' = IF n < Len(toClient) THEN cuts + 1 ELSE cuts
       /\ LET p == Receive(telnet, SubSeq(toClient, 1, n)) IN
          /\ toClient' = SubSeq(toClient, n + 1, Len(toClient))
          /\ telnet' = p.telnet
          /\ parsed' = [data |-> p.data, reply |-> p.reply]
  /\ reader' = "queueing"
  /\ UNCHANGED <<writer, commands, events, window, shut, listening, toServer, socket,
                 serverVars, inputs>>

\* events.send, which fails once nobody receives.
Report(more) == events' = IF listening THEN events \o more ELSE events

\* The reply goes to the writer, and then the data to the terminal.  With no
\* writer left the session is over, whatever data there was.
QueueParsed ==
  /\ reader = "queueing"
  /\ parsed' = Nothing
  /\ IF parsed.reply # <<>> /\ writer = "ended"
     THEN /\ reader' = "ended"
          /\ Report(<<Closed>>)
          /\ UNCHANGED commands
     ELSE /\ commands' = IF parsed.reply = <<>> THEN commands
                         ELSE Append(commands, [do |-> "Raw", bytes |-> parsed.reply])
          /\ Report(IF parsed.data = <<>> THEN <<>> ELSE <<Output(parsed.data)>>)
          /\ reader' = IF parsed.data # <<>> /\ ~listening THEN "ended" ELSE "reading"
  /\ UNCHANGED <<telnet, writer, window, shut, listening, wires, serverVars,
                 counters>>

\* Mutant: an error on the socket ends the task without a word.
ReadEndSilent ==
  /\ reader = "reading"
  /\ toClient = <<>> /\ socket = "closed"
  /\ reader' = "ended"
  /\ UNCHANGED <<telnet, parsed, writer, commands, events, window, shut, listening, wires,
                 serverVars, counters>>

\* Nothing more will come: the end of the stream or an error.
ReadEnd ==
  /\ reader = "reading"
  /\ toClient = <<>> /\ socket = "closed"
  /\ reader' = "ended"
  /\ Report(<<Closed>>)
  /\ UNCHANGED <<telnet, parsed, writer, commands, window, shut, listening, wires,
                 serverVars, counters>>

------------------------------------------------------------------------------
(* The writing task                                                        *)

\* recv, under the lock what is to be written for it, and write_all: all of it
\* and in one piece.  A socket that is gone takes what is written for a while,
\* and then fails.
Written(bytes) ==
  IF socket = "open"
  THEN /\ toServer' = toServer \o bytes
       /\ UNCHANGED writer
  ELSE /\ writer' \in IF bytes = <<>> THEN {writer} ELSE {writer, "ended"}
       /\ UNCHANGED toServer

TakeCommand ==
  /\ writer = "waiting" /\ commands # <<>>
  /\ commands' = Tail(commands)
  /\ LET c == Head(commands) IN
     \/ /\ c.do = "Raw"
        /\ Written(c.bytes)
        /\ UNCHANGED telnet
     \/ /\ c.do = "Data"
        /\ Written(<<Outgoing(telnet, c.byte)>>)
        /\ UNCHANGED telnet
     \/ /\ c.do = "Resize"
        /\ telnet' = Resize(telnet, c.size).telnet
        /\ Written(Resize(telnet, c.size).reply)
     \/ /\ c.do = "Shutdown"
        /\ writer' = "ended"
        /\ UNCHANGED <<telnet, toServer>>
  /\ UNCHANGED <<reader, parsed, events, window, shut, listening, toClient, socket,
                 serverVars, counters>>

------------------------------------------------------------------------------
(* The interface: TelnetTransport                                          *)

Ask(command) == commands' = IF writer = "ended" THEN commands ELSE Append(commands, command)

Type ==
  /\ ~shut /\ inputs < MaxInputs
  /\ inputs' = inputs + 1
  /\ Ask([do |-> "Data", byte |-> "high"])
  /\ UNCHANGED <<telnet, reader, parsed, writer, events, window, shut, listening, wires,
                 serverVars, cuts>>

\* Nothing is queued for the size it already has.
ResizeWindow(size) ==
  /\ listening /\ inputs < MaxInputs
  /\ size # window
  /\ inputs' = inputs + 1
  /\ window' = size
  /\ Ask([do |-> "Resize", size |-> size])
  /\ UNCHANGED <<telnet, reader, parsed, writer, events, shut, listening, wires,
                 serverVars, cuts>>

Shutdown ==
  /\ ~shut
  /\ shut' = TRUE
  /\ Ask([do |-> "Shutdown"])
  /\ UNCHANGED <<telnet, reader, parsed, writer, events, window, listening, wires,
                 serverVars, counters>>

\* The tab is dropped, and what it has not read with it.
Drop ==
  /\ shut /\ listening
  /\ listening' = FALSE
  /\ events' = <<>>
  /\ UNCHANGED <<telnet, reader, parsed, writer, commands, window, shut, wires,
                 serverVars, counters>>

------------------------------------------------------------------------------
(* The server                                                              *)

Spoken(verb, option) == <<"IAC", verb, option>>

\* What an end that asked with `question` makes of a yes or a no, and says to
\* it; one that did not ask may take an offer or leave it.
OnYes(was, accept, refuse) ==
  CASE was = "no" -> {[now |-> "yes", say |-> accept], [now |-> "no", say |-> refuse]}
    [] was = "asked on" -> {[now |-> "yes", say |-> <<>>]}
    [] was = "asked off" -> {[now |-> "no", say |-> <<>>]}
    [] was = "yes" -> {[now |-> "yes", say |-> <<>>]}

OnNo(was, refuse) == {[now |-> "no", say |-> IF was = "yes" THEN refuse ELSE <<>>]}

Serves == socket = "open" /\ toServer # <<>>

ServerHears ==
  /\ Serves
  /\ LET m == Head(toServer) IN
     \/ /\ m.say \in {"WILL", "WONT"}
        /\ LET o == m.option IN
           \E r \in IF m.say = "WILL" THEN OnYes(client[o], Spoken("DO", o), Spoken("DONT", o))
                                      ELSE OnNo(client[o], Spoken("DONT", o)) :
             /\ client' = [client EXCEPT ![o] = r.now]
             /\ toClient' = toClient \o r.say
        /\ UNCHANGED <<server, told>>
     \/ /\ m.say \in {"DO", "DONT"}
        /\ LET o == m.option IN
           \E r \in IF m.say = "DO" THEN OnYes(server[o], Spoken("WILL", o), Spoken("WONT", o))
                                    ELSE OnNo(server[o], Spoken("WONT", o)) :
             /\ server' = [server EXCEPT ![o] = r.now]
             /\ toClient' = toClient \o r.say
        /\ UNCHANGED <<client, told>>
     \/ /\ m.say = "SIZE"
        /\ told' = m.size
        /\ UNCHANGED <<client, server, toClient>>
     \/ /\ m.say \notin Verbs \cup {"SIZE"}
        /\ UNCHANGED <<client, server, told, toClient>>
  /\ toServer' = Tail(toServer)
  /\ UNCHANGED <<clientVars, socket, sent, requests, counters>>

\* Of its own accord: turn something on or off, at either end.
ServerAsks ==
  /\ socket = "open" /\ requests < MaxRequests
  /\ requests' = requests + 1
  /\ \E o \in Options :
       \/ /\ client[o] \in {"no", "yes"}
          /\ client' = [client EXCEPT ![o] = IF @ = "no" THEN "asked on" ELSE "asked off"]
          /\ toClient' = toClient \o Spoken(IF client[o] = "no" THEN "DO" ELSE "DONT", o)
          /\ UNCHANGED server
       \/ /\ server[o] \in {"no", "yes"}
          /\ server' = [server EXCEPT ![o] = IF @ = "no" THEN "asked on" ELSE "asked off"]
          /\ toClient' = toClient \o Spoken(IF server[o] = "no" THEN "WILL" ELSE "WONT", o)
          /\ UNCHANGED client
  /\ UNCHANGED <<clientVars, toServer, socket, told, sent, counters>>

\* Something for the terminal, a byte 255 doubled; or, once it knows there is a
\* name to ask for, what the terminal is called.
ServerSends ==
  /\ socket = "open" /\ requests < MaxRequests
  /\ requests' = requests + 1
  /\ \/ IF sent = <<>>
        THEN /\ sent' = <<"IAC">>
             /\ toClient' = toClient \o <<"IAC", "IAC">>
        ELSE /\ sent' = Append(sent, "text")
             /\ toClient' = Append(toClient, "text")
     \/ /\ "TTYPE" \in Options /\ client["TTYPE"] = "yes"
        /\ toClient' = (toClient \o Spoken("SB", "TTYPE")) \o <<"SEND", "IAC", "SE">>
        /\ UNCHANGED sent
  /\ UNCHANGED <<clientVars, toServer, socket, client, server, told, counters>>

\* The server closes the connection, or it breaks.
SocketCloses ==
  /\ socket = "open"
  /\ socket' = "closed"
  /\ toServer' = <<>>
  /\ UNCHANGED <<clientVars, toClient, serverVars, counters>>

------------------------------------------------------------------------------

ReadingTask == ReadChunk \/ QueueParsed \/ ReadEnd
WritingTask == TakeCommand
Interface == Type \/ (\E size \in Sizes : ResizeWindow(size)) \/ Shutdown \/ Drop
Server == ServerHears \/ ServerAsks \/ ServerSends \/ SocketCloses

Next == ReadingTask \/ WritingTask \/ Interface \/ Server

Spec == Init /\ [][Next]_vars

------------------------------------------------------------------------------
(* Properties                                                              *)

Bytes == {"text", "IAC", "SB", "SE", "SEND"} \cup Verbs \cup Options
Talk(options) == [say : {"WILL"}, option : options \cap WE_MAY_ENABLE]
                   \cup [say : {"DO"}, option : options \cap THEY_MAY_ENABLE]
                   \cup [say : {"WONT", "DONT"}, option : options]
                   \cup [say : {"SIZE"}, size : Nat \ {0}]
                   \cup {TerminalIs, HereIAm} \cup {Typed(b) : b \in {"high", "?"}}
Messages == Talk(Options)
Commands == [do : {"Raw"}, bytes : Seq(Messages)] \cup [do : {"Data"}, byte : {"high"}]
              \cup [do : {"Resize"}, size : Nat] \cup {[do |-> "Shutdown"]}
Events == [event : {"Output"}, data : Seq(Bytes)] \cup {Closed}

\* A subnegotiation, whose length is the server's to choose, is kept only up to
\* the limit.
Telnets ==
  [state : {"Data", "Iac", "Option", "Sub", "SubIac"}, command : Verbs,
   subnegotiation : {s \in Seq(Bytes) : Len(s) <= SUBNEGOTIATION_LIMIT},
   enabledHere : SUBSET WE_MAY_ENABLE, enabledThere : SUBSET THEY_MAY_ENABLE,
   refusedHere : SUBSET (Bytes \ WE_MAY_ENABLE), refusedThere : SUBSET (Bytes \ THEY_MAY_ENABLE),
   size : Nat \ {0}]

States == {"no", "yes", "asked on", "asked off"}

ClientTypeOK ==
  /\ telnet \in Telnets
  /\ reader \in {"reading", "queueing", "ended"} /\ writer \in {"waiting", "ended"}
  /\ parsed \in [data : Seq(Bytes), reply : Seq(Messages)]
  /\ commands \in Seq(Commands) /\ events \in Seq(Events)
  /\ window \in Nat /\ shut \in BOOLEAN /\ listening \in BOOLEAN
ServerTypeOK ==
  /\ toServer \in Seq(Messages) /\ toClient \in Seq(Bytes) /\ socket \in {"open", "closed"}
  /\ client \in [Options -> States] /\ server \in [Options -> States]
  /\ told \in Nat /\ sent \in Seq(Bytes)
CountersOK == requests \in 0 .. MaxRequests /\ inputs \in 0 .. MaxInputs /\ cuts \in 0 .. MaxCuts

TypeOK == ClientTypeOK /\ ServerTypeOK /\ CountersOK

\* Nothing is on its way and nobody is about to say anything.
Settled ==
  /\ socket = "open"
  /\ toServer = <<>> /\ toClient = <<>>
  /\ commands = <<>> /\ reader = "reading" /\ writer = "waiting"

\* However requests cross on the way, and whatever opening offered and did not
\* write down: once all is said, both ends believe the same of every option, and
\* the server waits for no answer about one this end may turn on, nor, where it
\* agreed to it, for the size of the window.  (A refusal is given once, and a
\* server that asks again waits: so the module means it.)
BothEndsAgree ==
  Settled => /\ telnet.enabledHere = {o \in Options : client[o] = "yes"}
             /\ telnet.enabledThere = {o \in Options : server[o] = "yes"}
             /\ \A o \in Options \cap WE_MAY_ENABLE : client[o] \in {"no", "yes"}
             /\ \A o \in Options \cap THEY_MAY_ENABLE : server[o] \in {"no", "yes"}
             /\ "NAWS" \in Options /\ client["NAWS"] = "yes" => told # 0

\* The terminal gets what the server sent it, in order, however the stream was
\* cut into reads and whatever was negotiated in the middle of it.
DataOf(event) == IF event = Closed THEN <<>> ELSE event.data
Heard == FlattenSeq([i \in DOMAIN events |-> DataOf(events[i])])
OutputIsWhatWasSent == listening => IsPrefix(Heard, sent)

\* Whatever ends the reading task while somebody listens is reported, once and
\* after everything else: no tab is left with a session nobody reads.
EndIsReported ==
  listening => \A i \in 1 .. Len(events) + 1 :
                 (reader = "ended" /\ i = Len(events)) <=> (i <= Len(events) /\ events[i] = Closed)

------------------------------------------------------------------------------
(* What the documentation promises and the code does not keep.             *)

\* negotiate.rs: "The server is told what it is talking to and how big it is".
ToldIsCurrent ==
  Settled /\ "NAWS" \in Options => (client["NAWS"] = "yes" => told = Clamped(window))

------------------------------------------------------------------------------
(* The strengthening behind the properties                                 *)

\* What will have come of it once everything that has arrived is read.
Ahead == Receive(telnet, toClient)

\* Nothing that was sent is lost on the way or overtaken, and of what ended the
\* session early a beginning was heard.
OutputIsOnItsWay ==
  listening => IF reader = "ended" THEN IsPrefix(Heard, sent)
               ELSE Heard \o parsed.data \o Ahead.data = sent

\* The server says whole commands, about options there are.
ServerIsWellSpoken ==
  /\ reader # "queueing" => parsed = Nothing
  /\ Ahead.telnet.state = "Data"
  /\ Ahead.telnet.enabledHere \cup Ahead.telnet.enabledThere \subseteq Options
  /\ Ahead.reply \in Seq(Messages)

\* The last of some words, "none" where nothing was said.
Final(words) == LET said == {k \in DOMAIN words : words[k] # "none"}
                IN  IF said = {} THEN "none" ELSE words[CHOOSE k \in said : \A j \in said : j <= k]

Later(word, later) == IF later # "none" THEN later ELSE word

\* What a list of messages says of an option in the end, and what all that is on
\* its way to the server, or will be, says of it.
Word(m, o, verbs) == IF m.say \in verbs /\ m.option = o THEN m.say ELSE "none"
LastSaid(list, o, verbs) == Final([k \in DOMAIN list |-> Word(list[k], o, verbs)])
Queued(command, o, verbs) == IF command.do = "Raw" THEN LastSaid(command.bytes, o, verbs) ELSE "none"
LastQueued(list, o, verbs) == Final([k \in DOMAIN list |-> Queued(list[k], o, verbs)])
LastOnTheWay(o, verbs) ==
  Later(Later(LastSaid(toServer, o, verbs), LastQueued(commands, o, verbs)),
        Later(LastSaid(parsed.reply, o, verbs), LastSaid(Ahead.reply, o, verbs)))

\* Of an option this end may turn on: it will be on if the server takes it to be
\* or has asked for it; where the two differ, or the server waits, something is
\* on its way that tells it, and the last to arrive is true.
Converges(state, on, last, yes) ==
  /\ state \in {"yes", "asked on"} => on
  /\ state = "asked off" => ~on /\ last # "none"
  /\ state \in {"no", "asked on"} /\ on => last = yes
  /\ on => last \in {"none", yes}

\* And of one that it may not.
StaysOff(state, on) == ~on /\ state \in {"no", "asked on"}

OptionsConverge ==
  socket = "open" /\ writer = "waiting" =>
    /\ \A o \in Options \cap WE_MAY_ENABLE :
         Converges(client[o], o \in Ahead.telnet.enabledHere, LastOnTheWay(o, {"WILL", "WONT"}), "WILL")
    /\ \A o \in Options \ WE_MAY_ENABLE :
         StaysOff(client[o], o \in Ahead.telnet.enabledHere)
    /\ \A o \in Options \cap THEY_MAY_ENABLE :
         Converges(server[o], o \in Ahead.telnet.enabledThere, LastOnTheWay(o, {"DO", "DONT"}), "DO")
    /\ \A o \in Options \ THEY_MAY_ENABLE :
         StaysOff(server[o], o \in Ahead.telnet.enabledThere)

\* Whoever agrees to say the size says it next.
SizeFollows(list) ==
  \A k \in DOMAIN list :
    list[k] = Say("WILL", "NAWS") => k + 1 \in DOMAIN list /\ list[k + 1].say = "SIZE"
SizeIsTold ==
  /\ SizeFollows(toServer) /\ SizeFollows(parsed.reply)
  /\ \A k \in DOMAIN commands : commands[k].do = "Raw" => SizeFollows(commands[k].bytes)
  /\ socket = "open" /\ "NAWS" \in Options /\ client["NAWS"] = "yes" /\ told = 0 =>
       toServer # <<>> /\ Head(toServer).say = "SIZE"

\* The invariant that the proofs need.
IInv == /\ TypeOK /\ EndIsReported /\ OutputIsOnItsWay
        /\ ServerIsWellSpoken /\ OptionsConverge /\ SizeIsTold
==============================================================================
