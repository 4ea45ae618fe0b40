---------------------------- MODULE TelnetOptions ----------------------------
(***************************************************************************)
(* The option negotiation of crates/proto-telnet/src/negotiate.rs, without *)
(* a socket: what one end knows, what it makes of a chunk of the stream,   *)
(* and what it answers.  A byte that matters to the protocol is its name;  *)
(* a byte that is only data is "text" or, above 127, "high".               *)
(***************************************************************************)
EXTENDS Naturals, Sequences

CONSTANTS Options,              \* the options the two ends speak of
          SUBNEGOTIATION_LIMIT  \* bytes of a subnegotiation that are kept

ASSUME LimitAssumption == SUBNEGOTIATION_LIMIT \in Nat \ {0, 1}

Verbs == {"WILL", "WONT", "DO", "DONT"}
WE_MAY_ENABLE == {"BINARY", "SGA", "TTYPE", "NAWS"}
THEY_MAY_ENABLE == {"BINARY", "ECHO", "SGA"}

Say(verb, option) == [say |-> verb, option |-> option]
SizeIs(size) == [say |-> "SIZE", size |-> size]
TerminalIs == [say |-> "TERMINAL"]
HereIAm == [say |-> "HERE"]
Typed(byte) == [say |-> "TYPED", byte |-> byte]

\* A window has at least one column and one row.
Clamped(size) == IF size = 0 THEN 1 ELSE size

New(size) ==
  [state |-> "Data", command |-> "DO", subnegotiation |-> <<>>,
   enabledHere |-> {}, enabledThere |-> {}, refusedHere |-> {}, refusedThere |-> {},
   size |-> Clamped(size)]

\* Offered before anything is heard, and not remembered as offered.
Offered(option, offers) == IF option \in Options THEN offers ELSE <<>>
Opening ==
  Offered("BINARY", <<Say("WILL", "BINARY"), Say("DO", "BINARY")>>)
    \o Offered("SGA", <<Say("WILL", "SGA"), Say("DO", "SGA")>>)
    \o Offered("ECHO", <<Say("DO", "ECHO")>>)

\* A request is answered only when it changes something; a refusal is given
\* once.  Agreeing to window size says the size at once.
OnDo(t, o) ==
  IF o \in WE_MAY_ENABLE
  THEN IF o \in t.enabledHere
       THEN [telnet |-> t, reply |-> <<>>]
       ELSE [telnet |-> [t EXCEPT !.enabledHere = @ \cup {o}],
             reply |-> <<Say("WILL", o)>> \o IF o = "NAWS" THEN <<SizeIs(t.size)>> ELSE <<>>]
  ELSE IF o \in t.refusedHere
       THEN [telnet |-> t, reply |-> <<>>]
       ELSE [telnet |-> [t EXCEPT !.refusedHere = @ \cup {o}], reply |-> <<Say("WONT", o)>>]

OnWill(t, o) ==
  IF o \in THEY_MAY_ENABLE
  THEN IF o \in t.enabledThere
       THEN [telnet |-> t, reply |-> <<>>]
       ELSE [telnet |-> [t EXCEPT !.enabledThere = @ \cup {o}], reply |-> <<Say("DO", o)>>]
  ELSE IF o \in t.refusedThere
       THEN [telnet |-> t, reply |-> <<>>]
       ELSE [telnet |-> [t EXCEPT !.refusedThere = @ \cup {o}], reply |-> <<Say("DONT", o)>>]

\* Mutant: the option is given up without saying so.
OnDontSilent(t, o) == [telnet |-> [t EXCEPT !.enabledHere = @ \ {o}], reply |-> <<>>]

OnDont(t, o) ==
  [telnet |-> [t EXCEPT !.enabledHere = @ \ {o}],
   reply |-> IF o \in t.enabledHere THEN <<Say("WONT", o)>> ELSE <<>>]

OnWont(t, o) ==
  [telnet |-> [t EXCEPT !.enabledThere = @ \ {o}],
   reply |-> IF o \in t.enabledThere THEN <<Say("DONT", o)>> ELSE <<>>]

Answer(t, option) ==
  CASE t.command = "DO" -> OnDo(t, option)
    [] t.command = "DONT" -> OnDont(t, option)
    [] t.command = "WILL" -> OnWill(t, option)
    [] t.command = "WONT" -> OnWont(t, option)

\* Only a request for the terminal type is answered.
SubnegotiationReply(payload) ==
  IF Len(payload) >= 2 /\ payload[1] = "TTYPE" /\ payload[2] = "SEND" THEN <<TerminalIs>> ELSE <<>>

\* What is kept of a subnegotiation: its length is the server's to choose.
Kept(payload, byte) ==
  IF Len(payload) < SUBNEGOTIATION_LIMIT THEN Append(payload, byte) ELSE payload

Silent(telnet) == [telnet |-> telnet, data |-> <<>>, reply |-> <<>>]
Shows(telnet, byte) == [telnet |-> telnet, data |-> <<byte>>, reply |-> <<>>]
Replies(telnet, reply) == [telnet |-> telnet, data |-> <<>>, reply |-> reply]

\* What one byte makes of the parser, and what it adds to the data and to the
\* reply.
OnByte(t, byte) ==
  LET Enter(state) == [t EXCEPT !.state = state]
      Keep(payload) == [t EXCEPT !.state = "Sub", !.subnegotiation = payload]
      Finished == [t EXCEPT !.state = "Data", !.subnegotiation = <<>>]
      answer == Answer(t, byte)
  IN
  CASE t.state = "Data" /\ byte = "IAC" -> Silent(Enter("Iac"))
    [] t.state = "Data" /\ byte # "IAC" -> Shows(t, byte)
    [] t.state = "Iac" /\ byte = "IAC" -> Shows(Enter("Data"), "IAC")
    [] t.state = "Iac" /\ byte \in Verbs -> Silent([t EXCEPT !.state = "Option", !.command = byte])
    [] t.state = "Iac" /\ byte = "SB" -> Silent(Keep(<<>>))
    [] t.state = "Iac" /\ byte = "AYT" -> Replies(Enter("Data"), <<HereIAm>>)
    [] t.state = "Iac" /\ byte \notin Verbs \cup {"IAC", "SB", "AYT"} -> Silent(Enter("Data"))
    [] t.state = "Option" -> Replies([answer.telnet EXCEPT !.state = "Data"], answer.reply)
    [] t.state = "Sub" /\ byte = "IAC" -> Silent(Enter("SubIac"))
    [] t.state = "Sub" /\ byte # "IAC" -> Silent(Keep(Kept(t.subnegotiation, byte)))
    [] t.state = "SubIac" /\ byte = "IAC" -> Silent(Keep(Kept(t.subnegotiation, "IAC")))
    [] t.state = "SubIac" /\ byte = "SE" -> Replies(Finished, SubnegotiationReply(t.subnegotiation))
    [] t.state = "SubIac" /\ byte \notin {"IAC", "SE"} -> Silent(Finished)

\* One parse after another, and one carried on by a byte.
After(p, q) == [telnet |-> q.telnet, data |-> p.data \o q.data, reply |-> p.reply \o q.reply]
CarryOn(p, byte) == After(p, OnByte(p.telnet, byte))

\* Mutant: a chunk is parsed as if no command could have begun before it.
ReceiveFromScratch(telnet, chunk) ==
  LET parsed[i \in 0 .. Len(chunk)] ==
        IF i = 0 THEN Silent([telnet EXCEPT !.state = "Data"])
        ELSE CarryOn(parsed[i - 1], chunk[i])
  IN  parsed[Len(chunk)]

Receive(telnet, chunk) ==
  LET parsed[i \in 0 .. Len(chunk)] ==
        IF i = 0 THEN Silent(telnet)
        ELSE CarryOn(parsed[i - 1], chunk[i])
  IN  parsed[Len(chunk)]

\* A new size, and what the server is told of it: nothing unless it agreed.
Resize(t, size) ==
  LET told == Clamped(size) # t.size /\ "NAWS" \in t.enabledHere
  IN  [telnet |-> [t EXCEPT !.size = Clamped(size)],
       reply |-> IF told THEN <<SizeIs(Clamped(size))>> ELSE <<>>]

\* What is typed, on its way out: high bytes go only to a server that agreed
\* to eight bits, and the others become question marks.
Outgoing(t, byte) ==
  Typed(IF byte = "high" /\ "BINARY" \notin t.enabledHere THEN "?" ELSE byte)
=============================================================================
