--------------------------- MODULE HelperMessages ---------------------------
(***************************************************************************)
(* What the application and a helper say to each other, and the pipe they  *)
(* say it through (crates/ipc-frame/src: message.rs, codec.rs, wire.rs).   *)
(*                                                                         *)
(* A byte is a number below Radix, 256 in the program, and the numbers of  *)
(* several bytes are written lowest byte first.  A text is the sequence of *)
(* its bytes, of which NotText begins no character.  An option is the      *)
(* empty sequence or the one-element one.                                  *)
(***************************************************************************)
EXTENDS Integers, Sequences, SequencesExt, FiniteSetsExt

CONSTANTS
  Radix,          \* the values of a byte
  MaxFieldLen,    \* MAX_FIELD_LEN
  MaxMessageLen,  \* MAX_MESSAGE_LEN
  HostSays,       \* messages, each a record with its type
  HelperSays,
  MaxSent         \* bound: messages on one pipe

ASSUME WireAssumption ==
  /\ Radix \in Nat \ {0, 1}
  /\ MaxFieldLen \in Nat /\ MaxMessageLen \in Nat /\ MaxSent \in Nat

NotText == Radix - 1

-----------------------------------------------------------------------------
(* The order in which each message is written ...                          *)

F(name, type) == [name |-> name, type |-> type]

HostWritten ==
  [connect |-> <<F("host", "text"), F("port", "u16"), F("username", "text"), F("domain", "option"),
                 F("password", "text"), F("size", "size"), F("credssp", "bool"), F("layout", "u32"),
                 F("client", "text"), F("known", "option")>>,
   input |-> <<F("event", "event")>>,
   resize |-> <<F("size", "size")>>,
   shutdown |-> <<>>,
   answer |-> <<F("accept", "bool")>>]

HelperWritten ==
  [ready |-> <<F("version", "u32"), F("mapping", "text"), F("slots", "u32"), F("bytes", "u64")>>,
   frame |-> <<F("generation", "u64"), F("size", "size"), F("stride", "u32"), F("format", "format"),
               F("damage", "rects")>>,
   resized |-> <<F("size", "size")>>,
   cursor |-> <<F("shape", "cursor")>>,
   clipboard |-> <<F("text", "text")>>,
   closed |-> <<F("reason", "option")>>,
   error |-> <<F("detail", "text")>>,
   ask |-> <<F("host", "text"), F("port", "u16"), F("fingerprint", "text"), F("expected", "option")>>,
   key |-> <<F("fingerprint", "text"), F("store", "bool")>>]

EventWritten ==
  [key |-> <<F("scancode", "u32"), F("pressed", "bool"), F("mods", "mods")>>,
   text |-> <<F("text", "text")>>,
   move |-> <<F("x", "u32"), F("y", "u32")>>,
   button |-> <<F("button", "button"), F("pressed", "bool"), F("x", "u32"), F("y", "u32")>>,
   scroll |-> <<F("dx", "u32"), F("dy", "u32")>>,
   clipboard |-> <<F("text", "text")>>]

(* ... and the order in which it is read.  The tag of a message is its      *)
(* place in the list.                                                       *)

HostRead ==
  <<[type |-> "connect",
     fields |-> <<F("host", "text"), F("port", "u16"), F("username", "text"), F("domain", "option"),
                  F("password", "text"), F("size", "size"), F("credssp", "bool"),
                  F("layout", "u32"), F("client", "text"), F("known", "option")>>],
    [type |-> "input", fields |-> <<F("event", "event")>>],
    [type |-> "resize", fields |-> <<F("size", "size")>>],
    [type |-> "shutdown", fields |-> <<>>],
    [type |-> "answer", fields |-> <<F("accept", "bool")>>]>>

HelperRead ==
  <<[type |-> "ready",
     fields |-> <<F("version", "u32"), F("mapping", "text"), F("slots", "u32"), F("bytes", "u64")>>],
    [type |-> "frame",
     fields |-> <<F("generation", "u64"), F("size", "size"), F("stride", "u32"),
                  F("format", "format"), F("damage", "rects")>>],
    [type |-> "resized", fields |-> <<F("size", "size")>>],
    [type |-> "cursor", fields |-> <<F("shape", "cursor")>>],
    [type |-> "clipboard", fields |-> <<F("text", "text")>>],
    [type |-> "closed", fields |-> <<F("reason", "option")>>],
    [type |-> "error", fields |-> <<F("detail", "text")>>],
    [type |-> "ask",
     fields |-> <<F("host", "text"), F("port", "u16"), F("fingerprint", "text"),
                  F("expected", "option")>>],
    [type |-> "key", fields |-> <<F("fingerprint", "text"), F("store", "bool")>>]>>

EventRead ==
  <<[type |-> "key",
     fields |-> <<F("scancode", "u32"), F("pressed", "bool"), F("mods", "mods")>>],
    [type |-> "text", fields |-> <<F("text", "text")>>],
    [type |-> "move", fields |-> <<F("x", "u32"), F("y", "u32")>>],
    [type |-> "button",
     fields |-> <<F("button", "button"), F("pressed", "bool"), F("x", "u32"), F("y", "u32")>>],
    [type |-> "scroll", fields |-> <<F("dx", "u32"), F("dy", "u32")>>],
    [type |-> "clipboard", fields |-> <<F("text", "text")>>]>>

TagOf(table, type) == CHOOSE tag \in DOMAIN table : table[tag].type = type

Widths == [u16 |-> 2, u32 |-> 4, u64 |-> 8]

NamedTags ==
  [format |-> <<"bgra8", "rgba8">>,
   cursor |-> <<"default", "text", "wait", "crosshair", "hidden">>,
   button |-> <<"left", "middle", "right", "x1", "x2">>]

Modifiers == [shift |-> 1, ctrl |-> 2, alt |-> 4, meta |-> 8]

-----------------------------------------------------------------------------
(* Writing                                                                 *)

PutNumber(value, width) ==
  LET left[i \in 1 .. width] == IF i = 1 THEN value ELSE left[i - 1] \div Radix
  IN  [i \in 1 .. width |-> left[i] % Radix]
PutText(text) == PutNumber(Len(text), 4) \o text
PutOption(o) == IF o = <<>> THEN <<0>> ELSE <<1>> \o PutText(o[1])
PutSize(size) == PutNumber(size.width, 4) \o PutNumber(size.height, 4)
PutRect(r) == FlattenSeq(<<PutNumber(r.x, 4), PutNumber(r.y, 4), PutSize(r)>>)
PutMods(mods) == <<SumSet({Modifiers[k] : k \in mods})>>

PutPlain(type, value) ==
  CASE type \in DOMAIN Widths -> PutNumber(value, Widths[type])
    [] type = "bool" -> <<IF value THEN 1 ELSE 0>>
    [] type = "text" -> PutText(value)
    [] type = "option" -> PutOption(value)
    [] type = "size" -> PutSize(value)
    [] type = "mods" -> PutMods(value)
    [] type \in DOMAIN NamedTags -> <<CHOOSE tag \in DOMAIN NamedTags[type] : NamedTags[type][tag] = value>>
    [] type = "rects" ->
         PutNumber(Len(value), 4) \o FlattenSeq([i \in DOMAIN value |-> PutRect(value[i])])

PutEvent(event) ==
  LET fields == EventWritten[event.type]
  IN  <<TagOf(EventRead, event.type)>>
        \o FlattenSeq([i \in DOMAIN fields |-> PutPlain(fields[i].type, event[fields[i].name])])

Encode(written, read, message) ==
  LET fields == written[message.type]
  IN  <<TagOf(read, message.type)>>
        \o FlattenSeq([i \in DOMAIN fields |->
             IF fields[i].type = "event" THEN PutEvent(message[fields[i].name])
             ELSE PutPlain(fields[i].type, message[fields[i].name])])

-----------------------------------------------------------------------------
(* Reading                                                                 *)

Fine == "fine"
Got(value, rest) == [error |-> Fine, value |-> value, rest |-> rest]
Bad(error) == [error |-> error]
\* The question mark: an error is handed on.
Then(r, next(_, _)) == IF r.error = Fine THEN next(r.value, r.rest) ELSE r

TakeBytes(bytes, count) ==
  IF Len(bytes) < count THEN Bad("truncated")
  ELSE Got(SubSeq(bytes, 1, count), SubSeq(bytes, count + 1, Len(bytes)))
TakeNumber(bytes, width) ==
  Then(TakeBytes(bytes, width), LAMBDA taken, rest :
    LET value[i \in 1 .. width + 1] == IF i > width THEN 0 ELSE taken[i] + Radix * value[i + 1]
    IN  Got(value[1], rest))
TakeLen(bytes) ==
  Then(TakeNumber(bytes, 4), LAMBDA n, rest : IF n > MaxFieldLen THEN Bad("too long") ELSE Got(n, rest))
TakeText(bytes) ==
  Then(TakeLen(bytes), LAMBDA n, body :
    Then(TakeBytes(body, n), LAMBDA text, rest :
      IF \E i \in DOMAIN text : text[i] = NotText THEN Bad("not text") ELSE Got(text, rest)))
TakeOption(bytes) ==
  Then(TakeNumber(bytes, 1), LAMBDA some, body :
    IF some = 0 THEN Got(<<>>, body)
    ELSE Then(TakeText(body), LAMBDA text, rest : Got(<<text>>, rest)))
TakeSize(bytes) ==
  Then(TakeNumber(bytes, 4), LAMBDA width, after :
    Then(TakeNumber(after, 4), LAMBDA height, rest : Got([width |-> width, height |-> height], rest)))
TakeRect(bytes) ==
  Then(TakeSize(bytes), LAMBDA corner, after :
    Then(TakeSize(after), LAMBDA size, rest :
      Got([x |-> corner.width, y |-> corner.height, width |-> size.width, height |-> size.height],
          rest)))
TakeRects(bytes) ==
  Then(TakeLen(bytes), LAMBDA count, body :
    LET upTo[k \in 0 .. count] ==
          IF k = 0 THEN Got(<<>>, body)
          ELSE Then(upTo[k - 1], LAMBDA rects, after :
                 Then(TakeRect(after), LAMBDA rect, rest : Got(Append(rects, rect), rest)))
    IN  upTo[count])
TakeChoice(list, bytes) ==
  Then(TakeNumber(bytes, 1), LAMBDA tag, rest :
    IF tag \in DOMAIN list THEN Got(list[tag], rest) ELSE Bad("unknown tag"))
TakeMods(bytes) ==
  Then(TakeNumber(bytes, 1), LAMBDA bits, rest :
    Got({k \in DOMAIN Modifiers : (bits \div Modifiers[k]) % 2 = 1}, rest))

TakePlain(type, bytes) ==
  CASE type \in DOMAIN Widths -> TakeNumber(bytes, Widths[type])
    [] type = "bool" -> Then(TakeNumber(bytes, 1), LAMBDA b, rest : Got(b # 0, rest))
    [] type = "text" -> TakeText(bytes)
    [] type = "option" -> TakeOption(bytes)
    [] type = "size" -> TakeSize(bytes)
    [] type = "mods" -> TakeMods(bytes)
    [] type = "rects" -> TakeRects(bytes)
    [] type \in DOMAIN NamedTags -> TakeChoice(NamedTags[type], bytes)

\* A tag of the table, and the fields that belong to it.
TakeTagged(table, bytes, take(_, _)) ==
  Then(TakeNumber(bytes, 1), LAMBDA tag, body :
    IF tag \notin DOMAIN table THEN Bad("unknown tag")
    ELSE LET fields == table[tag].fields
             upTo[k \in 0 .. Len(fields)] ==
               IF k = 0 THEN Got([type |-> table[tag].type], body)
               ELSE Then(upTo[k - 1], LAMBDA said, after :
                      Then(take(fields[k].type, after), LAMBDA value, rest :
                        Got([f \in DOMAIN said \cup {fields[k].name} |->
                               IF f = fields[k].name THEN value ELSE said[f]], rest)))
         IN  upTo[Len(fields)])

TakeField(type, bytes) ==
  IF type = "event" THEN TakeTagged(EventRead, bytes, TakePlain) ELSE TakePlain(type, bytes)

\* Every byte has to be accounted for.
Decode(table, bytes) ==
  Then(TakeTagged(table, bytes, TakeField), LAMBDA message, rest :
    IF rest = <<>> THEN Got(message, rest) ELSE Bad("trailing bytes"))

-----------------------------------------------------------------------------
(* The pipe.  A message is written in one go, which the writer's death may *)
(* cut short; a writer of another version may write what this one would    *)
(* not.                                                                    *)

VARIABLES
  side,       \* whose messages these are
  sent,       \* the messages handed to the pipe whole, Skewed for one of another version,
              \* Oversized for one that claims to be longer than any may be
  pipe,       \* the bytes that are there to be read
  writer,     \* "up", "closed", or "died" in the middle of a message
  got,        \* the messages read
  reader      \* "reading", or what it stopped at: "ended", "broken", "refused"
pipeVars == <<side, sent, pipe, writer, got, reader>>

Skewed == [type |-> "skewed"]
Oversized == [type |-> "oversized"]
Foreign == {Skewed, Oversized}

Sayable == IF side = "host" THEN HostSays ELSE HelperSays
Table == IF side = "host" THEN HostRead ELSE HelperRead
Written == IF side = "host" THEN HostWritten ELSE HelperWritten
Payload(message) == Encode(Written, Table, message)
FramedAs(length, payload) == PutNumber(length, 4) \o payload
Framed(payload) == FramedAs(Len(payload), payload)

\* What another version may send in place of a payload: a field more, a field
\* less, or a message this one does not know.
SkewsOf(payload) ==
  {Append(payload, b) : b \in {0, 1}}
    \cup {SubSeq(payload, 1, Len(payload) - n) : n \in 1 .. Len(payload)}
    \cup {[payload EXCEPT ![1] = tag] : tag \in {0, Len(Table) + 1}}

PipeInit ==
  /\ side \in {"host", "helper"}
  /\ sent = <<>> /\ pipe = <<>> /\ writer = "up" /\ got = <<>> /\ reader = "reading"

\* write_message.  One that is too long is refused on this side of the pipe.
WriteMessage(message) ==
  /\ writer = "up" /\ Len(sent) < MaxSent
  /\ Len(Payload(message)) <= MaxMessageLen
  /\ pipe' = pipe \o Framed(Payload(message))
  /\ sent' = Append(sent, message)
  /\ UNCHANGED <<side, writer, got, reader>>

\* Bound: one of them, or of those below, on one pipe.
AllOursSoFar == \A i \in DOMAIN sent : sent[i] \notin Foreign

WriteSkewed(message) ==
  /\ writer = "up" /\ Len(sent) < MaxSent /\ AllOursSoFar
  /\ Len(Payload(message)) < MaxMessageLen
  /\ \E payload \in SkewsOf(Payload(message)) : pipe' = pipe \o Framed(payload)
  /\ sent' = Append(sent, Skewed)
  /\ UNCHANGED <<side, writer, got, reader>>

\* A length that is not that of what follows: a byte more or less, or more than
\* any message may have.
WriteLying(message) ==
  /\ writer = "up" /\ Len(sent) < MaxSent /\ AllOursSoFar
  /\ LET payload == Payload(message)
     IN  \E length \in {Len(payload) - 1, Len(payload) + 1, MaxMessageLen + 1} :
           /\ pipe' = pipe \o FramedAs(length, payload)
           /\ sent' = Append(sent, IF length > MaxMessageLen THEN Oversized ELSE Skewed)
  /\ UNCHANGED <<side, writer, got, reader>>

WriterDies(message) ==
  /\ writer = "up" /\ Len(sent) < MaxSent
  /\ Len(Payload(message)) <= MaxMessageLen
  /\ LET framed == Framed(Payload(message))
     IN  \E n \in 1 .. Len(framed) - 1 : pipe' = pipe \o SubSeq(framed, 1, n)
  /\ writer' = "died"
  /\ UNCHANGED <<side, sent, got, reader>>

WriterCloses ==
  /\ writer = "up"
  /\ writer' = "closed"
  /\ UNCHANGED <<side, sent, pipe, got, reader>>

\* Mutant: a stream that ends inside a message ends like any other.
EndsAnyhow(bytes) == "ended"

\* read_message at the end of the stream.
EndOf(bytes) == IF bytes = <<>> THEN "ended" ELSE "broken"

\* What a reader waits for: four bytes that are a length, and as many more.
Prefixed(bytes) == Len(bytes) >= 4
Claimed(bytes) == TakeNumber(bytes, 4).value
TooLong(bytes) == Prefixed(bytes) /\ Claimed(bytes) > MaxMessageLen
Whole(bytes) == Prefixed(bytes) /\ Claimed(bytes) <= Len(bytes) - 4

\* read_message: the length is looked at before there is room for so many bytes.
RefuseLength ==
  /\ reader = "reading" /\ TooLong(pipe)
  /\ reader' = "refused"
  /\ pipe' = SubSeq(pipe, 5, Len(pipe))
  /\ UNCHANGED <<side, sent, writer, got>>

\* read_message and decode.  Nothing is read past a message that makes no sense.
ReadMessage ==
  /\ reader = "reading" /\ Whole(pipe) /\ ~TooLong(pipe)
  /\ LET length == Claimed(pipe)
         message == Decode(Table, SubSeq(pipe, 5, 4 + length))
     IN  /\ pipe' = SubSeq(pipe, 5 + length, Len(pipe))
         /\ IF message.error = Fine
            THEN got' = Append(got, message.value) /\ UNCHANGED reader
            ELSE reader' = "refused" /\ UNCHANGED got
  /\ UNCHANGED <<side, sent, writer>>

ReadEnd ==
  /\ reader = "reading" /\ writer # "up" /\ ~Whole(pipe) /\ ~TooLong(pipe)
  /\ reader' = EndOf(pipe)
  /\ UNCHANGED <<side, sent, pipe, writer, got>>

PipeNext ==
  \/ \E message \in Sayable :
       WriteMessage(message) \/ WriteSkewed(message) \/ WriteLying(message) \/ WriterDies(message)
  \/ WriterCloses \/ RefuseLength \/ ReadMessage \/ ReadEnd

-----------------------------------------------------------------------------
\* A message comes off the pipe as it went on, one for one and in order; one of
\* another version, or of another length than it claims, is refused or waited for
\* to the end and never taken for something else, one longer than any may be is
\* refused without waiting; and the reader can tell a writer that finished from one
\* that died in the middle of a message (message.rs, codec.rs, wire.rs).
ReadIsWhatWasSaid ==
  LET nextIs(kinds) == Len(got) < Len(sent) /\ sent[Len(got) + 1] \in kinds
  IN  /\ Len(got) <= Len(sent)
      /\ \A i \in DOMAIN got : got[i] = sent[i]
      /\ reader = "ended" => writer = "closed" /\ Len(got) = Len(sent)
      /\ reader = "broken" => nextIs({Skewed}) \/ (writer = "died" /\ Len(got) = Len(sent))
      /\ reader = "refused" => nextIs(Foreign)
=============================================================================
