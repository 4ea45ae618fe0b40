------------------------------ MODULE MCFormats ------------------------------
(***************************************************************************)
(* What the program reads from others, each as its reader takes it in: the *)
(* Session dialog's draft of a session, another program's session file,    *)
(* OpenSSH's configuration, the helpers' messages, a VNC server's picture, *)
(* and what SSH servers say to a login.  They have nothing to do with one  *)
(* another: a behaviour is of one of them, and the others stay as they are.*)
(***************************************************************************)
EXTENDS MxtImport, SshConfigFile, HelperMessages, VncPicture, SshLogin

SshConfigs ==
  {[SshDefault EXCEPT !.type = type, !.host = "web", !.port = "2222", !.user = user, !.auth = auth,
                      !.jump = jump, !.forwards = jump, !.command = command, !.proxy = proxy] :
     type \in {"ssh", "sftp"}, user \in {None, "ada"}, jump \in {<<>>, <<"n1">>},
     auth \in Auths, command \in {None, "ls"},
     proxy \in {NoProxy, [kind |-> "http", host |-> "px", port |-> "1080", login |-> None]}}
RdpConfigs ==
  {[RdpDefault EXCEPT !.host = "desk", !.user = user, !.credential = credential, !.clipboard = clip] :
     user \in {None, "ada"}, credential \in {None, "vault"}, clip \in BOOLEAN}
VncConfigs ==
  {[VncDefault EXCEPT !.host = "desk", !.credential = credential] : credential \in {None, "vault"}}
SerialConfigs ==
  {[SerialDefault EXCEPT !.device = "COM3", !.data = data, !.parity = parity, !.stop = stop] :
     data \in {"5", "8"}, parity \in {"none", "even"}, stop \in {"1", "2"}}
SavedConfigs ==
  SshConfigs \cup RdpConfigs \cup VncConfigs \cup SerialConfigs
    \cup {[TelnetDefault EXCEPT !.host = "switch"]}

Connection(kind, f14) ==
  [kind |-> kind, host |-> "web", port |-> "2222", user |-> "<default>", f4 |-> "-1", f14 |-> f14]
MCFileLines ==
  {Section("Bookmarks"), Section("Other"), SubRep(<<"A">>), SubRep(<<"A", "B">>), SubRep(<<"B">>),
   ImgNum("41"), SessionLine("s", Connection("ssh", "id")), SessionLine("t", Connection("sftp", "pw")),
   SessionLine("b", Connection("browser", ""))}

Star == <<Pattern(<<"*">>, FALSE)>>
Included == <<Option("port", "3"), HostLine(<<Pattern(<<"*", "b">>, FALSE)>>), Option("user", "u")>>
MCScriptLines ==
  {Option("port", "1"), Option("port", "2"), Option("identityfile", "k1"), Option("identityfile", "k2"),
   HostLine(Star), HostLine(<<Pattern(<<"a", "*">>, FALSE), Pattern(<<"a", "?", "*", "b">>, TRUE)>>),
   HostLine(<<Pattern(<<"*", "a", "b">>, FALSE)>>),
   MatchLine(<<Criterion("user", Star), Criterion("host", <<Pattern(<<"?">>, FALSE)>>)>>),
   MatchLine(<<Criterion("localuser", <<Pattern(<<"l">>, FALSE)>>)>>),
   MatchLine(<<Criterion("exec", Star)>>), MatchLine(<<Criterion("all", <<>>)>>),
   IncludeLine(<<Included, <<IncludeLine(<<Included>>)>>>>)}
MCAsked ==
  {Context(<<"a">>, Nobody, <<"l">>), Context(<<"b">>, <<"u">>, Nobody)}
    \cup {Context(host, user, local) :
            host \in {<<"a", "a", "b">>, <<"a", "b", "a", "b">>},
            user \in {Nobody, <<"u">>}, local \in {Nobody, <<"l">>}}

FrameSizes == {[width |-> 0, height |-> 20], [width |-> 300, height |-> 1]}
MCHostSays ==
  {[type |-> "connect", host |-> <<2>>, port |-> 150, username |-> <<4>>, domain |-> domain,
    password |-> <<>>, size |-> [width |-> 20, height |-> 1], credssp |-> TRUE, layout |-> 9,
    client |-> <<5>>, known |-> <<<<7>>>>] : domain \in {<<>>, <<<<6>>>>}}
  \cup {[type |-> "input", event |-> event] : event \in
          {[type |-> "key", scancode |-> 200, pressed |-> TRUE, mods |-> {"shift", "meta"}],
           [type |-> "text", text |-> <<3>>], [type |-> "move", x |-> 1, y |-> 40],
           [type |-> "button", button |-> "x2", pressed |-> TRUE, x |-> 0, y |-> 5],
           [type |-> "scroll", dx |-> 0, dy |-> 3], [type |-> "clipboard", text |-> <<>>]}}
  \cup {[type |-> "resize", size |-> size] : size \in FrameSizes}
  \cup {[type |-> "shutdown"], [type |-> "answer", accept |-> FALSE]}
Damaged == <<[x |-> 1, y |-> 2, width |-> 3, height |-> 15], [x |-> 0, y |-> 0, width |-> 1, height |-> 1]>>
MCHelperSays ==
  {[type |-> "ready", version |-> 1, mapping |-> <<8>>, slots |-> 3, bytes |-> 5000],
   [type |-> "cursor", shape |-> "hidden"], [type |-> "error", detail |-> <<12, 7>>],
   [type |-> "key", fingerprint |-> <<1>>, store |-> TRUE]}
  \cup {[type |-> "frame", generation |-> 900, size |-> size, stride |-> 4, format |-> "rgba8",
         damage |-> rects] : size \in FrameSizes, rects \in {<<>>, Damaged}}
  \cup {[type |-> "resized", size |-> size] : size \in FrameSizes}
  \* The first fits the pipe and the second does not.
  \cup {[type |-> "clipboard", text |-> [i \in 1 .. n |-> 1]] : n \in {MaxMessageLen - 5, MaxMessageLen}}
  \cup {[type |-> "closed", reason |-> reason] : reason \in {<<>>, <<<<3>>>>}}
  \cup {[type |-> "ask", host |-> <<2>>, port |-> 14, fingerprint |-> <<1>>, expected |-> <<>>]}

MCDesktopSizes == {<<2, 3>>, <<3, 1>>}

HopAuths ==
  {NoAuth, Password, KeyFile(TRUE), KeyFile(FALSE), Interactive, AgentWith(<<>>),
   AgentWith(<<"certificate">>), AgentWith(<<"key", "certificate", "key">>)}
MCPlans ==
  {<<[auth |-> a, secret |-> "s1"]>> : a \in HopAuths}
  \cup {<<[auth |-> a, secret |-> "s1"], [auth |-> b, secret |-> "s2"]>> : a \in HopAuths, b \in HopAuths}
  \cup {<<[auth |-> a, secret |-> "s1"], [auth |-> b, secret |-> "s2"], [auth |-> c, secret |-> "s3"]>> :
          a \in {Password}, b \in {Interactive, AgentWith(<<"key">>)}, c \in {KeyFile(TRUE), NoAuth}}

-----------------------------------------------------------------------------
VARIABLES
  format,    \* which of them it is
  saved      \* the session the dialog is about
vars == <<format, saved, importVars, script, pipeVars, pictureVars, loginVars>>

NoImport == file = <<>> /\ import = Unread
NoScript == script = <<>>
NoPipe == side = "host" /\ sent = <<>> /\ pipe = <<>> /\ writer = "up" /\ got = <<>> /\ reader = "reading"
NoPicture ==
  /\ screen = [size |-> <<1, 1>>, picture |-> Empty(<<1, 1>>)] /\ shown = screen
  /\ damage = {} /\ unseen = {} /\ rest = 0 /\ session = "up" /\ wrong = FALSE
NoLogin ==
  /\ plan = <<>> /\ at = 1 /\ stage = "over" /\ accepted = {} /\ admitted = {} /\ told = {}
  /\ offers = <<>> /\ rounds = 0 /\ last = "none" /\ outcome = "none"

Init ==
  \/ format = "draft" /\ saved \in SavedConfigs /\ NoImport /\ NoScript /\ NoPipe /\ NoPicture /\ NoLogin
  \/ format = "import" /\ ImportInit /\ saved = NoSettings /\ NoScript /\ NoPipe /\ NoPicture /\ NoLogin
  \/ format = "script" /\ ScriptInit /\ saved = NoSettings /\ NoImport /\ NoPipe /\ NoPicture /\ NoLogin
  \/ format = "pipe" /\ PipeInit /\ saved = NoSettings /\ NoImport /\ NoScript /\ NoPicture /\ NoLogin
  \/ format = "picture" /\ PictureInit /\ saved = NoSettings /\ NoImport /\ NoScript /\ NoPipe /\ NoLogin
  \/ format = "login" /\ LoginInit /\ saved = NoSettings /\ NoImport /\ NoScript /\ NoPipe /\ NoPicture

\* One thing about the session is edited, and the dialog accepted.
EditSaved ==
  /\ format = "draft"
  /\ \E change \in ChangesOf(saved) : saved' = Edited(WithChange(OpenFor(saved), change), saved)
  /\ UNCHANGED <<format, importVars, script, pipeVars, pictureVars, loginVars>>
ReadImport ==
  /\ format = "import" /\ ImportNext
  /\ UNCHANGED <<format, saved, script, pipeVars, pictureVars, loginVars>>
WriteScript ==
  /\ format = "script" /\ ScriptNext
  /\ UNCHANGED <<format, saved, importVars, pipeVars, pictureVars, loginVars>>
UsePipe ==
  /\ format = "pipe" /\ PipeNext
  /\ UNCHANGED <<format, saved, importVars, script, pictureVars, loginVars>>
ReadPicture ==
  /\ format = "picture" /\ PictureNext
  /\ UNCHANGED <<format, saved, importVars, script, pipeVars, loginVars>>
LogIn ==
  /\ format = "login" /\ LoginNext
  /\ UNCHANGED <<format, saved, importVars, script, pipeVars, pictureVars>>

Next == EditSaved \/ ReadImport \/ WriteScript \/ UsePipe \/ ReadPicture \/ LogIn
Spec == Init /\ [][Next]_vars

\* Whatever was edited before, accepting the dialog as it opens changes nothing
\* about a saved session, and editing one thing changes that and nothing else:
\* not the way in, the jump hosts, the forwards or the stored password, which the
\* form does not show; but for the stored passphrase of a key, which is lost
\* (session_dialog.rs, merge_into).
DraftKeepsTheSession ==
  format = "draft" =>
    /\ EditsNothing(saved)
    /\ \A change \in ChangesOf(saved) : EditsOneThing(saved, change)
===============================================================================
