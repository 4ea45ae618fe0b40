---------------------------- MODULE SessionDraft ----------------------------
(***************************************************************************)
(* The Session settings dialog as a draft of a session: what it shows of a *)
(* saved one, what OK makes of its fields, and how that is carried back    *)
(* onto the saved one (crates/ui-chrome/src/session_dialog.rs, over the    *)
(* configurations of crates/core-model/src/protocol.rs).                   *)
(*                                                                         *)
(* A text is a string.  What trim() does to the texts that need it is a    *)
(* table, and a number is the text it prints as: parse() reads the numbers *)
(* of Numbers, with blanks around them, and nothing else.                  *)
(***************************************************************************)
EXTENDS Naturals, Sequences, TLC

None == "(none)"

Padded == (" " :> "") @@ (" bastion " :> "bastion") @@ (" 2222" :> "2222")
Trim(t) == IF t \in DOMAIN Padded THEN Padded[t] ELSE t

\* (!t.is_empty()).then(t), of a text already trimmed.
Given(t) == IF t = "" THEN None ELSE t
\* Option::unwrap_or_default, on the way into a field.
Shown(o) == IF o = None THEN "" ELSE o

Numbers == {"0", "21", "22", "23", "1080", "2222", "3389", "5900", "9600", "115200"}
Parse(t) == IF Trim(t) \in Numbers THEN Trim(t) ELSE None

-----------------------------------------------------------------------------
(* The configurations                                                      *)

Agent == [method |-> "agent"]
Key(path, passphrase) == [method |-> "public-key", path |-> path, passphrase |-> passphrase]
Auths ==
  {Agent, [method |-> "password", credential |-> "vault"], [method |-> "keyboard-interactive"],
   [method |-> "external-open-ssh"], Key("id", None), Key("id", "vault")}

NoProxy == [kind |-> "absent"]
ProxyKinds == <<"none", "socks4", "socks5", "http", "telnet", "local", "forwarding", "command">>

SshDefault ==
  [type |-> "ssh", host |-> "", port |-> "22", user |-> None, auth |-> Agent, jump |-> <<>>,
   forwards |-> <<>>, command |-> None, keep |-> FALSE, compression |-> FALSE,
   proxy |-> NoProxy]
TelnetDefault == [type |-> "telnet", host |-> "", port |-> "23"]
SerialDefault ==
  [type |-> "serial", device |-> "", baud |-> "115200", data |-> "8", parity |-> "none",
   stop |-> "1", flow |-> "none"]
RdpDefault ==
  [type |-> "rdp", host |-> "", port |-> "3389", user |-> None, domain |-> None,
   credential |-> None, clipboard |-> TRUE, monitors |-> FALSE]
VncDefault ==
  [type |-> "vnc", host |-> "", port |-> "5900", credential |-> None, viewOnly |-> FALSE]
ShellDefault == [type |-> "shell", program |-> None, cwd |-> None]

-----------------------------------------------------------------------------
(* The form                                                                *)

Tabs == {"ssh", "telnet", "rsh", "xdmcp", "rdp", "vnc", "ftp", "sftp", "serial", "file", "shell",
         "browser", "mosh", "s3", "wsl"}
NeedsHost == {"ssh", "telnet", "rsh", "rdp", "vnc", "ftp", "sftp", "mosh"}

DefaultPort ==
  [ssh |-> "22", sftp |-> "22", telnet |-> "23", ftp |-> "21", rdp |-> "3389", vnc |-> "5900"]
    @@ [t \in Tabs |-> None]

DataBits == <<"5", "6", "7", "8">>
Parities == <<"none", "odd", "even">>
Flows == <<"none", "software", "hardware">>
TerminalTypes == <<"xterm", "xterm-256color", "vt100", "linux", "ansi">>

\* Where a value stands in a list of choices; the given place when it is not there.
IndexOr(list, value, other) ==
  IF \E i \in DOMAIN list : list[i] = value THEN CHOOSE i \in DOMAIN list : list[i] = value ELSE other

Fresh ==
  [host |-> "", user |-> "", port |-> "", domain |-> "", clipboard |-> TRUE, monitors |-> FALSE,
   viewOnly |-> FALSE, data |-> 4, parity |-> 1, stop |-> 1, flow |-> 1, device |-> "", baud |-> "",
   x11 |-> TRUE, compression |-> TRUE, command |-> "", keep |-> FALSE, useKey |-> FALSE,
   key |-> "", ctrlH |-> TRUE, term |-> 1, logging |-> FALSE, logPath |-> "", proxy |-> 1,
   proxyHost |-> "", proxyLogin |-> "", proxyPort |-> "1080", name |-> "", lockTitle |-> TRUE,
   message |-> TRUE, comments |-> ""]

\* Where each field can be changed, of those OK reads: on the first row, ...
BasicFields(tab) ==
  CASE tab = "serial" -> {"device", "baud"}
    [] tab = "rdp" -> {"host", "user", "domain", "port"}
    [] tab = "vnc" -> {"host", "port"}
    [] tab = "wsl" -> {"user"}
    [] tab = "xdmcp" -> {"host"}
    [] tab \in {"file", "shell", "browser", "s3"} -> {}
    [] OTHER -> {"host", "user"} \cup (IF DefaultPort[tab] = None THEN {} ELSE {"port"})

\* ... on the tab named after the protocol, which SFTP has none of, ...
AdvancedFields(tab) ==
  CASE tab = "ssh" -> {"x11", "compression", "command", "keep", "useKey", "key"}
    [] tab = "serial" -> {"data", "stop", "parity", "flow"}
    [] tab = "vnc" -> {"viewOnly"}
    [] tab = "rdp" -> {"clipboard", "monitors"}
    [] OTHER -> {}

\* ... and on the others.
TerminalFields(tab) ==
  IF tab \in {"ssh", "telnet", "rsh", "serial", "mosh", "wsl"}
  THEN {"ctrlH", "term", "logging", "logPath"} ELSE {}
NetworkFields(tab) ==
  IF tab \in {"ssh", "telnet", "rdp", "vnc"}
  THEN {"proxy", "proxyHost", "proxyLogin", "proxyPort"} ELSE {}
BookmarkFields == {"name", "lockTitle", "message", "comments"}

Offered(tab) ==
  BasicFields(tab) \cup AdvancedFields(tab) \cup TerminalFields(tab) \cup NetworkFields(tab)
    \cup BookmarkFields

Dialog(tab, fields) == [tab |-> tab, fields |-> fields]

\* The port follows the tab while it is empty or still somebody's default.
SwitchTo(dialog, tab) ==
  LET port == dialog.fields.port
      untouched == port = "" \/ \E t \in Tabs : DefaultPort[t] = port
  IN  Dialog(tab, IF untouched THEN [dialog.fields EXCEPT !.port = Shown(DefaultPort[tab])]
                  ELSE dialog.fields)

OpenFresh == SwitchTo(Dialog("ssh", Fresh), "ssh")

LoadSsh(ssh) ==
  LET keyed == ssh.auth.method = "public-key"
      said == [host |-> ssh.host, port |-> ssh.port, user |-> Shown(ssh.user),
               compression |-> ssh.compression, command |-> Shown(ssh.command), keep |-> ssh.keep]
      key == [useKey |-> TRUE, key |-> ssh.auth.path]
      proxy == [proxy |-> IndexOr(ProxyKinds, ssh.proxy.kind, 1), proxyHost |-> ssh.proxy.host,
                proxyPort |-> ssh.proxy.port, proxyLogin |-> Shown(ssh.proxy.login)]
  IN  said @@ (IF keyed THEN key ELSE <<>>) @@ (IF ssh.proxy # NoProxy THEN proxy ELSE <<>>) @@ Fresh

\* The draft of a saved session.
OpenFor(c) ==
  CASE c.type \in {"ssh", "sftp"} -> Dialog(c.type, LoadSsh(c))
    [] c.type = "telnet" -> Dialog("telnet", [host |-> c.host, port |-> c.port] @@ Fresh)
    [] c.type = "rdp" ->
         Dialog("rdp", [host |-> c.host, port |-> c.port, user |-> Shown(c.user),
                        domain |-> Shown(c.domain), clipboard |-> c.clipboard,
                        monitors |-> c.monitors] @@ Fresh)
    [] c.type = "vnc" ->
         Dialog("vnc", [host |-> c.host, port |-> c.port, viewOnly |-> c.viewOnly] @@ Fresh)
    [] c.type = "serial" ->
         Dialog("serial", [device |-> c.device, baud |-> c.baud, data |-> IndexOr(DataBits, c.data, 4),
                           parity |-> IndexOr(Parities, c.parity, 1),
                           stop |-> IF c.stop = "2" THEN 2 ELSE 1,
                           flow |-> IndexOr(Flows, c.flow, 1)] @@ Fresh)
    [] c.type = "shell" -> Dialog("shell", Fresh)

-----------------------------------------------------------------------------
(* OK                                                                      *)

ProxyOf(f) ==
  IF ProxyKinds[f.proxy] = "none" THEN NoProxy
  ELSE [kind |-> ProxyKinds[f.proxy], host |-> Trim(f.proxyHost),
        port |-> IF Parse(f.proxyPort) = None THEN "0" ELSE Parse(f.proxyPort),
        login |-> Given(Trim(f.proxyLogin))]

SshOf(type, f, port) ==
  [SshDefault EXCEPT
     !.type = type, !.host = Trim(f.host), !.port = port, !.user = Given(Trim(f.user)),
     !.auth = IF f.useKey /\ Trim(f.key) # "" THEN Key(Trim(f.key), None) ELSE Agent,
     !.command = Given(Trim(f.command)), !.keep = f.keep, !.compression = f.compression,
     !.proxy = ProxyOf(f)]

SerialOf(f) ==
  [type |-> "serial", device |-> Trim(f.device), baud |-> Parse(f.baud), data |-> DataBits[f.data],
   parity |-> Parities[f.parity], stop |-> IF f.stop = 2 THEN "2" ELSE "1", flow |-> Flows[f.flow]]

Accepted(c) == [type |-> "accepted", config |-> c]
Incomplete(field) == [type |-> "incomplete", field |-> field]
Unsupported(tab) == [type |-> "unsupported", tab |-> tab]

\* build: an unreadable port is the default one, an unreadable speed is refused.
Build(dialog) ==
  LET f == dialog.fields
      tab == dialog.tab
      port == IF Parse(f.port) # None THEN Parse(f.port) ELSE DefaultPort[tab]
      said == [host |-> Trim(f.host), port |-> port]
  IN  CASE tab \in NeedsHost /\ Trim(f.host) = "" ->
             Incomplete("Remote host")
        [] tab = "serial" /\ Trim(f.device) = "" -> Incomplete("Serial port")
        [] tab = "serial" /\ Parse(f.baud) = None -> Incomplete("Speed (bps)")
        [] tab = "serial" -> Accepted(SerialOf(f))
        [] tab \in {"ssh", "sftp"} -> Accepted(SshOf(tab, f, port))
        [] tab = "telnet" -> Accepted(said @@ TelnetDefault)
        [] tab = "rdp" ->
             Accepted(said @@ [user |-> Given(Trim(f.user)), domain |-> Given(Trim(f.domain)),
                               clipboard |-> f.clipboard, monitors |-> f.monitors] @@ RdpDefault)
        [] tab = "vnc" -> Accepted(said @@ [viewOnly |-> f.viewOnly] @@ VncDefault)
        [] OTHER -> Unsupported(tab)

-----------------------------------------------------------------------------
(* Back onto the saved session                                             *)

\* Mutant: whatever the form made of the authentication wins.
AuthProduced(new, old) == new

\* A key that was named is a choice; a key that was taken away is one, too.
\* Nothing else the form produces says anything about the authentication.
MergeAuth(new, old) ==
  IF new.method = "public-key" \/ old.method = "public-key" THEN new ELSE old

MergeSsh(new, old) ==
  [new EXCEPT !.type = old.type, !.auth = MergeAuth(new.auth, old.auth),
              !.jump = old.jump, !.forwards = old.forwards]

SameKind(new, old) == new.type = old.type \/ {new.type, old.type} = {"ssh", "sftp"}

\* Field by field while the protocol is the same; a session of another protocol
\* is replaced.
MergeInto(new, old) ==
  CASE ~SameKind(new, old) -> new
    [] old.type \in {"ssh", "sftp"} -> MergeSsh(new, old)
    [] old.type \in {"rdp", "vnc"} -> [new EXCEPT !.credential = old.credential]
    [] OTHER -> new

\* What becomes of a saved session when the form is accepted over it.
Edited(dialog, old) ==
  LET produced == Build(dialog)
  IN  IF produced.type = "accepted" THEN MergeInto(produced.config, old) ELSE old

-----------------------------------------------------------------------------
(* The settings of a node, of which the form shows some.  None inherits.   *)

NoSettings ==
  [x11 |-> None, ctrlH |-> None, lockTitle |-> None, message |-> None, term |-> None,
   logging |-> None, logPath |-> None, others |-> None]

Bool(b) == IF b THEN "on" ELSE "off"

LoadSettings(f, s) ==
  LET or(o, shown) == IF o = None THEN shown ELSE o = "on" IN
  [f EXCEPT !.x11 = or(s.x11, @), !.ctrlH = or(s.ctrlH, @), !.lockTitle = or(s.lockTitle, @),
            !.message = or(s.message, @), !.logging = or(s.logging, @),
            !.term = IndexOr(TerminalTypes, s.term, @),
            !.logPath = IF s.logPath = None THEN @ ELSE s.logPath]

ApplySettings(f, s) ==
  [x11 |-> Bool(f.x11), ctrlH |-> Bool(f.ctrlH), lockTitle |-> Bool(f.lockTitle),
   message |-> Bool(f.message), term |-> TerminalTypes[f.term], logging |-> Bool(f.logging),
   logPath |-> Given(Trim(f.logPath)), others |-> s.others]

-----------------------------------------------------------------------------
(* What an edit must be                                                    *)

\* One field changed: what is typed, the part of the configuration it is for,
\* and what that part becomes.
Change(field, typed, part, becomes) ==
  [field |-> field, typed |-> typed, part |-> part, becomes |-> becomes]

\* The fields of the key say something only of a session that has one.
KeyAfter(c, path) ==
  IF c.type # "ssh" THEN None
  ELSE IF c.auth.method = "public-key" THEN [c.auth EXCEPT !.path = path] ELSE c.auth
KeyTakenAway(c) ==
  IF c.type # "ssh" THEN None ELSE IF c.auth.method = "public-key" THEN Agent ELSE c.auth

ChangesOf(c) ==
  {change \in
     {Change("host", " bastion ", "host", "bastion"), Change("port", " 2222", "port", "2222"),
      Change("user", "", "user", None), Change("user", "eve", "user", "eve"),
      Change("compression", FALSE, "compression", FALSE), Change("command", " ", "command", None),
      Change("keep", TRUE, "keep", TRUE), Change("proxy", 1, "proxy", NoProxy),
      Change("key", "other", "auth", KeyAfter(c, "other")),
      Change("useKey", FALSE, "auth", KeyTakenAway(c)),
      Change("domain", "CORP", "domain", "CORP"), Change("monitors", TRUE, "monitors", TRUE),
      Change("viewOnly", TRUE, "viewOnly", TRUE), Change("baud", "9600", "baud", "9600"),
      Change("stop", 2, "stop", "2"), Change("data", 1, "data", "5"),
      Change("flow", 3, "flow", "hardware")} :
     change.field \in Offered(c.type) /\ change.part \in DOMAIN c}

WithChange(dialog, change) ==
  Dialog(dialog.tab, [dialog.fields EXCEPT ![change.field] = change.typed])

\* The passphrase of a key is lost in every edit: ssh_config has none to give, and
\* merge_ssh takes the key it made.
WithoutPassphrase(c) ==
  IF c.type \in {"ssh", "sftp"} /\ c.auth.method = "public-key"
  THEN [c EXCEPT !.auth.passphrase = None] ELSE c

\* Editing one thing about a saved session changes that and nothing else but the
\* stored passphrase, which goes: neither what the form does not show, the way in,
\* the jump hosts, the forwards and the stored password, nor what it shows in
\* other words (session_dialog.rs, merge_into).
EditsOneThing(c, change) ==
  Edited(WithChange(OpenFor(c), change), c)
    = WithoutPassphrase([c EXCEPT ![change.part] = change.becomes])

\* Accepting the form as it was opened changes nothing else at all.
EditsNothing(c) == Edited(OpenFor(c), c) = WithoutPassphrase(c)

-----------------------------------------------------------------------------
(* What comments promise and the code does not keep.                       *)

\* session_dialog.rs:505-509: what a session carries that the dialog cannot show,
\* "a stored credential, a private key", is left alone "rather than lost on the
\* way through".
PassphraseIsKept(c) == Edited(OpenFor(c), c) = c
=============================================================================
