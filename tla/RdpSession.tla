------------------------------ MODULE RdpSession ------------------------------
(***************************************************************************)
(* Remote desktops over RDP, each a tab of the host and a helper process:  *)
(*                                                                         *)
(*   helpers/rdp/apps/bestterm-rdp   connects, asks about the server's key *)
(*                              from within the handshake, then serves;    *)
(*   helpers/rdp/crates/proto-rdp    the handshake and the live session;   *)
(*   crates/app-ui              starts attempts, paints the question, and  *)
(*                              writes down what was agreed.               *)
(*                                                                         *)
(* A helper's pipe, the host's reader thread and the channel to the tab    *)
(* are one queue here: SurfaceSession is about them.  Time is not          *)
(* modelled, so a wait may run out at any moment.                          *)
(***************************************************************************)
EXTENDS RdpKeys, RdpDesktop, FiniteSets

CONSTANTS FirstKey,     \* the key of every server at first
          FirstFiles,   \* what known_servers may hold at first, all of it from elsewhere
          MaxAttempts,  \* bound: desktops opened
          MaxRebuilds,  \* bound: a server comes back with another key
          MaxPdus,      \* bound: PDUs all servers send together
          MaxCommands   \* bound: input and resize requests of the person

ASSUME FirstKeyAssumption == FirstKey \in Keys
ASSUME FirstFilesAssumption == FirstFiles \subseteq Seq(Lines({0}))
ASSUME BoundsAssumption == {MaxAttempts, MaxRebuilds, MaxPdus, MaxCommands} \subseteq Nat

Attempts == 1 .. MaxAttempts
NoAddress == [host |-> <<"nowhere">>, port |-> 0]
Nothing == [is |-> "nothing"]

VARIABLES
  \* the world
  server,     \* the key that answers at an address
  rebuilds,   \* how often that changed
  pdus,       \* how many PDUs were sent
  \* the host
  file,       \* known_servers
  tab,        \* "none", "open" or "gone"
  address,    \* where the session of a tab is
  question,   \* the question a tab has outstanding
  closed,     \* whether a tab was told of the end
  texture,    \* the picture a tab shows
  size,       \* the size it believes the desktop has
  uploaded,   \* the generation it believes it shows
  asked,      \* how many commands the person has caused
  \* each helper
  helper,     \* "unborn", "dialling", "asking", "signing", "serving", "ended"
  given,      \* known_server_key of its request
  presented,  \* the key its server presented
  desktop,    \* its framebuffer and mapping
  pdu,        \* the PDU it has read and not yet acted on
  taken,      \* how many it has read
  acted,      \* and how many it has acted on
  \* between them
  messages,   \* helper to tab
  answers,    \* to the verifier
  commands,   \* to the session loop, how many
  \* for the properties
  agreed,     \* what a person has said yes to: address and key
  began       \* how long the file was when an attempt began

worldVars == <<server, rebuilds, pdus>>
pictureVars == <<texture, size, uploaded>>
tabVars == <<tab, address, question, closed, asked>>
hostVars == <<file, tabVars, pictureVars, agreed>>
serveVars == <<desktop, pdu, taken, acted>>
keyVars == <<given, presented, began>>
vars == <<worldVars, hostVars, helper, keyVars, serveVars, messages, answers, commands>>

Init ==
  /\ server = [at \in Addresses |-> FirstKey]
  /\ rebuilds = 0
  /\ pdus = 0
  /\ file \in FirstFiles
  /\ tab = [i \in Attempts |-> "none"]
  /\ address = [i \in Attempts |-> NoAddress]
  /\ question = [i \in Attempts |-> Nothing]
  /\ closed = [i \in Attempts |-> FALSE]
  /\ texture = [i \in Attempts |-> Nothing]
  /\ size = [i \in Attempts |-> NoSize]
  /\ uploaded = [i \in Attempts |-> 0]
  /\ asked = 0
  /\ helper = [i \in Attempts |-> "unborn"]
  /\ given = [i \in Attempts |-> NoKey]
  /\ presented = [i \in Attempts |-> NoKey]
  /\ desktop = [i \in Attempts |-> FreshDesktop]
  /\ pdu = [i \in Attempts |-> Nothing]
  /\ taken = [i \in Attempts |-> 0]
  /\ acted = [i \in Attempts |-> 0]
  /\ messages = [i \in Attempts |-> <<>>]
  /\ answers = [i \in Attempts |-> <<>>]
  /\ commands = [i \in Attempts |-> 0]
  /\ agreed = {}
  /\ began = [i \in Attempts |-> 0]

\* A server is set up again, or something else answers for it.
Rebuild(at, key) ==
  /\ rebuilds < MaxRebuilds
  /\ server[at] # key
  /\ rebuilds' = rebuilds + 1
  /\ server' = [server EXCEPT ![at] = key]
  /\ UNCHANGED <<pdus, hostVars, helper, keyVars, serveVars, messages, answers, commands>>

------------------------------------------------------------------------------
(* The helper                                                              *)

\* Once connect has returned, one way or the other, the key is settled.
Forgets(i) ==
  /\ given' = [given EXCEPT ![i] = NoKey]
  /\ presented' = [presented EXCEPT ![i] = NoKey]
  /\ began' = [began EXCEPT ![i] = 0]

\* The process is gone, and what it held and what was still on its way to it.
Gone(i) ==
  /\ helper' = [helper EXCEPT ![i] = "ended"]
  /\ Forgets(i)
  /\ desktop' = [desktop EXCEPT ![i] = FreshDesktop]
  /\ pdu' = [pdu EXCEPT ![i] = Nothing]
  /\ taken' = [taken EXCEPT ![i] = 0]
  /\ acted' = [acted EXCEPT ![i] = 0]
  /\ answers' = [answers EXCEPT ![i] = <<>>]
  /\ commands' = [commands EXCEPT ![i] = 0]

\* However a helper ends, its tab is told, once and last.
Ends(i) ==
  /\ Gone(i)
  /\ messages' = [messages EXCEPT ![i] = Append(@, ClosedMessage)]

ServerKeyMessage(key, store) == [type |-> "ServerKey", key |-> key, store |-> store]
QuestionMessage(key, expected) == [type |-> "Ask", key |-> key, expected |-> expected]

\* Up to TLS nothing proves which server answered; then its key does.  A key
\* that is not the one on record is asked about, from within the handshake.
Present(i) ==
  /\ helper[i] = "dialling"
  /\ LET key == server[address[i]]
         verdict == Verdict(given[i], key)
     IN /\ presented' = [presented EXCEPT ![i] = key]
        /\ IF Asks(verdict)
           THEN /\ helper' = [helper EXCEPT ![i] = "asking"]
                /\ messages' = [messages EXCEPT ![i] = Append(@, QuestionMessage(key, given[i]))]
           ELSE /\ helper' = [helper EXCEPT ![i] = "signing"]
                /\ UNCHANGED messages
  /\ UNCHANGED <<worldVars, hostVars, given, began, serveVars, answers, commands>>

\* Mutant: a wait that runs out is taken for a yes.
HearWithDefault(i) ==
  /\ helper[i] = "asking"
  /\ \/ /\ answers[i] # <<>> /\ Head(answers[i])
        /\ answers' = [answers EXCEPT ![i] = Tail(@)]
     \/ answers[i] = <<>> /\ UNCHANGED answers
  /\ helper' = [helper EXCEPT ![i] = "signing"]
  /\ UNCHANGED <<worldVars, hostVars, keyVars, serveVars, messages, commands>>

\* decide: a yes lets the credentials go out.
Hear(i) ==
  /\ helper[i] = "asking"
  /\ answers[i] # <<>> /\ Head(answers[i])
  /\ answers' = [answers EXCEPT ![i] = Tail(@)]
  /\ helper' = [helper EXCEPT ![i] = "signing"]
  /\ UNCHANGED <<worldVars, hostVars, keyVars, serveVars, messages, commands>>

\* ... and a no, or nobody, does not.
Refuse(i) ==
  /\ helper[i] = "asking"
  /\ answers[i] # <<>> => ~Head(answers[i])
  /\ Ends(i)
  /\ UNCHANGED <<worldVars, hostVars>>

\* The connection, TLS or the credentials fail, at any point of `connect`.
Fail(i) ==
  /\ helper[i] \in {"dialling", "signing"}
  /\ Ends(i)
  /\ UNCHANGED <<worldVars, hostVars>>

\* connect returns: what was settled goes to the host, and serving begins.
\* Only here: a yes given to a session that then failed is not kept.
SignIn(i) ==
  /\ helper[i] = "signing"
  /\ helper' = [helper EXCEPT ![i] = "serving"]
  /\ messages' = [messages EXCEPT ![i] =
       Append(@, ServerKeyMessage(presented[i], ShouldStore(Verdict(given[i], presented[i]))))]
  /\ Forgets(i)
  /\ UNCHANGED <<worldVars, hostVars, serveVars, answers, commands>>

\* session.read, one of the two branches of the select.
ReadPdu(i, out) ==
  /\ helper[i] = "serving" /\ pdu[i] = Nothing
  /\ pdus < MaxPdus
  /\ pdus' = pdus + 1
  /\ pdu' = [pdu EXCEPT ![i] = out]
  /\ taken' = [taken EXCEPT ![i] = @ + 1]
  /\ UNCHANGED <<server, rebuilds, hostVars, helper, keyVars, desktop, acted,
                 messages, answers, commands>>

\* session.process and publish, which nothing can interrupt.
Act(i) ==
  /\ helper[i] = "serving" /\ pdu[i] # Nothing
  /\ LET result == Batch(Applied(desktop[i], pdu[i]), pdu[i])
     IN /\ messages' = [messages EXCEPT ![i] = @ \o result.messages]
        /\ IF result.over THEN Gone(i)
           ELSE /\ desktop' = [desktop EXCEPT ![i] = result.desktop]
                /\ pdu' = [pdu EXCEPT ![i] = Nothing]
                /\ acted' = [acted EXCEPT ![i] = @ + 1]
                /\ UNCHANGED <<helper, keyVars, taken, answers, commands>>
  /\ UNCHANGED <<worldVars, hostVars>>

\* Reading, the protocol or a reactivation fails.
Breaks(i) ==
  /\ helper[i] = "serving"
  /\ Ends(i)
  /\ UNCHANGED <<worldVars, hostVars>>

\* Mutant: the select is around process as well, and a command abandons it.
ObeyAtOnce(i) ==
  /\ helper[i] = "serving" /\ commands[i] > 0
  /\ commands' = [commands EXCEPT ![i] = @ - 1]
  /\ pdu' = [pdu EXCEPT ![i] = Nothing]
  /\ UNCHANGED <<worldVars, hostVars, helper, keyVars, desktop, taken, acted,
                 messages, answers>>

\* The other branch: a command.  Input may move a pointer that the helper
\* draws, which is damage; a request for a size only asks the server; what
\* this build cannot express is said and survived.
Obey(i) ==
  /\ helper[i] = "serving" /\ pdu[i] = Nothing
  /\ commands[i] > 0
  /\ commands' = [commands EXCEPT ![i] = @ - 1]
  /\ \/ /\ desktop' = [desktop EXCEPT ![i] = Framed(@)]
        /\ messages' = [messages EXCEPT ![i] = Append(@, FrameMessage(Framed(desktop[i])))]
     \/ UNCHANGED <<desktop, messages>>
  /\ UNCHANGED <<worldVars, hostVars, helper, keyVars, pdu, taken, acted, answers>>

------------------------------------------------------------------------------
(* The host                                                                *)

\* connect_rdp: the file is read each time, and the helper is handed a key.
Open(i, at) ==
  /\ tab[i] = "none"
  /\ \A k \in 1 .. i - 1 : tab[k] # "none"
  /\ tab' = [tab EXCEPT ![i] = "open"]
  /\ address' = [address EXCEPT ![i] = at]
  /\ given' = [given EXCEPT ![i] = KnownKey(file, at)]
  /\ began' = [began EXCEPT ![i] = Len(file)]
  /\ helper' = [helper EXCEPT ![i] = "dialling"]
  /\ UNCHANGED <<worldVars, file, question, closed, asked, pictureVars, agreed,
                 presented, serveVars, messages, answers, commands>>

\* pump takes what has arrived at a tab.  Of several of a kind the last counts.
Arrived(i, type) == {n \in DOMAIN messages[i] : messages[i][n].type = type}
Has(i, type) == Arrived(i, type) # {}
Newest(i, type) ==
  messages[i][CHOOSE n \in Arrived(i, type) : \A k \in Arrived(i, type) : k <= n]
Told(i) == closed[i] \/ Has(i, "Closed")
Asking(i) ==
  IF Told(i) THEN Nothing
  ELSE IF Has(i, "Ask") THEN Newest(i, "Ask") ELSE question[i]

\* Mutant: whatever the copy holds is uploaded.
UploadsAnything(i) ==
  Has(i, "Frame") /\ Newest(i, "Frame").generation # (IF Has(i, "Resized") THEN 0 ELSE uploaded[i])

\* upload: a generation already counted is not looked at again (a new size
\* starts the count anew), and a picture longer than its copy is not shown.
Uploads(i) ==
  /\ Has(i, "Frame")
  /\ Newest(i, "Frame").generation # (IF Has(i, "Resized") THEN 0 ELSE uploaded[i])
  /\ Newest(i, "Frame").whole

TextureAfter(i) ==
  IF Uploads(i) THEN Newest(i, "Frame") ELSE IF Has(i, "Resized") THEN Nothing ELSE texture[i]
SizeAfter(i) ==
  IF Uploads(i) THEN Newest(i, "Frame").size
  ELSE IF Has(i, "Resized") THEN Newest(i, "Resized").size ELSE size[i]
UploadedAfter(i) ==
  IF Uploads(i) THEN Newest(i, "Frame").generation
  ELSE IF Has(i, "Resized") THEN 0 ELSE uploaded[i]

\* server_key_prompt writes down what was agreed to, tab after tab.
Records(i) == Has(i, "ServerKey") /\ Newest(i, "ServerKey").store
Recorders == {i \in Attempts : Records(i)}
InTurn == {order \in [1 .. Cardinality(Recorders) -> Recorders] :
             \A n, k \in DOMAIN order : n < k => order[n] < order[k]}
Recorded(order) ==
  file \o [n \in DOMAIN order |->
            RecordedLine(order[n], address[order[n]].host, Newest(order[n], "ServerKey").key)]

\* ... and paints the question of the first tab that has one.
Shown == {i \in Attempts : tab[i] = "open" /\ Asking(i) # Nothing}
First(S) == CHOOSE i \in S : \A k \in S : i <= k

\* A painted frame: every tab takes what has arrived, what was settled is
\* written down, and the person may answer the question painted.
Paint(answer) ==
  LET answered == IF answer = "none" THEN {} ELSE {First(Shown)}
  IN /\ messages' = [i \in Attempts |-> <<>>]
     /\ answer # "none" => Shown # {}
     /\ answer = "none" => \E i \in Attempts : messages[i] # <<>>
     /\ \E order \in InTurn : file' = Recorded(order)
     /\ texture' = [i \in Attempts |-> TextureAfter(i)]
     /\ size' = [i \in Attempts |-> SizeAfter(i)]
     /\ uploaded' = [i \in Attempts |-> UploadedAfter(i)]
     /\ closed' = [i \in Attempts |-> Told(i)]
     /\ question' = [i \in Attempts |-> IF i \in answered THEN Nothing ELSE Asking(i)]
     /\ answers' = [i \in Attempts |->
          IF i \in answered /\ helper[i] # "ended" THEN Append(answers[i], answer = "yes")
          ELSE answers[i]]
     /\ agreed' = agreed \cup {[address |-> address[i], key |-> Asking(i).key] :
                               i \in IF answer = "yes" THEN answered ELSE {}}
     /\ UNCHANGED <<worldVars, tab, address, asked, helper, keyVars, serveVars,
                    commands>>

\* show and forward_input: input over a picture, a bigger pane.
Command(i) ==
  /\ tab[i] = "open" /\ texture[i] # Nothing /\ ~closed[i]
  /\ asked < MaxCommands
  /\ asked' = asked + 1
  /\ commands' = IF helper[i] = "ended" THEN commands
                 ELSE [commands EXCEPT ![i] = @ + 1]
  /\ UNCHANGED <<worldVars, file, tab, address, question, closed, pictureVars,
                 agreed, helper, keyVars, serveVars, messages, answers>>

\* close_tab: the helper is asked to go and, as its surface is dropped, killed.
CloseTab(i) ==
  /\ tab[i] = "open"
  /\ tab' = [tab EXCEPT ![i] = "gone"]
  /\ Gone(i)
  /\ messages' = [messages EXCEPT ![i] = <<>>]
  /\ question' = [question EXCEPT ![i] = Nothing]
  /\ texture' = [texture EXCEPT ![i] = Nothing]
  /\ size' = [size EXCEPT ![i] = NoSize]
  /\ uploaded' = [uploaded EXCEPT ![i] = 0]
  /\ closed' = [closed EXCEPT ![i] = FALSE]
  /\ UNCHANGED <<worldVars, file, address, asked, agreed>>

------------------------------------------------------------------------------
HelperStep(i) ==
  Present(i) \/ Hear(i) \/ Refuse(i) \/ Fail(i) \/ SignIn(i) \/ Act(i) \/ Breaks(i) \/ Obey(i)

Next ==
  \/ \E at \in Addresses, key \in Keys : Rebuild(at, key)
  \/ \E i \in Attempts : HelperStep(i)
  \/ \E i \in Attempts, out \in Pdus : ReadPdu(i, out)
  \/ \E i \in Attempts, at \in Addresses : Open(i, at)
  \/ \E answer \in {"none", "yes", "no"} : Paint(answer)
  \/ \E i \in Attempts : Command(i)
  \/ \E i \in Attempts : CloseTab(i)

Spec == Init /\ [][Next]_vars

------------------------------------------------------------------------------
Messages ==
  [type : {"ServerKey"}, key : Keys, store : BOOLEAN]
    \cup [type : {"Ask"}, key : Keys, expected : Keys \cup {NoKey}]
    \cup [type : {"Frame"}, size : Nat, generation : Nat, whole : BOOLEAN]
    \cup [type : {"Resized"}, size : Nat]
    \cup {ClosedMessage}

TypeOK ==
  /\ server \in [Addresses -> Keys]
  /\ file \in Seq(Lines(0 .. MaxAttempts))
  /\ tab \in [Attempts -> {"none", "open", "gone"}]
  /\ address \in [Attempts -> Addresses \cup {NoAddress}]
  /\ question \in [Attempts -> Messages \cup {Nothing}]
  /\ texture \in [Attempts -> Messages \cup {Nothing}]
  /\ size \in [Attempts -> Nat] /\ uploaded \in [Attempts -> Nat]
  /\ helper \in [Attempts -> {"unborn", "dialling", "asking", "signing", "serving", "ended"}]
  /\ given \in [Attempts -> Keys \cup {NoKey}] /\ presented \in [Attempts -> Keys \cup {NoKey}]
  /\ desktop \in [Attempts -> [size : Nat, slot : Nat, generation : Nat]]
  /\ pdu \in [Attempts -> Outputs \cup {Nothing}]
  /\ taken \in [Attempts -> Nat] /\ acted \in [Attempts -> Nat]
  /\ messages \in [Attempts -> Seq(Messages)]
  /\ answers \in [Attempts -> Seq(BOOLEAN)]
  /\ asked \in 0 .. MaxCommands /\ commands \in [Attempts -> 0 .. MaxCommands]
  /\ began \in [Attempts -> Nat]

\* The credentials go only to a key that a person has agreed to on this host,
\* or on one whose name is read as this one's (an IPv6 address cut at its last
\* colon), or that a line nobody here wrote has for it: never to one that a wait
\* ran out on, nor by the answer to another tab's question (decide, Paint).
Vouched(i) ==
  \/ \E yes \in agreed : /\ yes.key = presented[i]
                        /\ address[i].host \in {yes.address.host, SplitTitle(yes.address.host).host}
  \/ \E n \in DOMAIN file : /\ file[n].by = 0 /\ ~file[n].revokes
                            /\ file[n].key = presented[i] /\ file[n].address = address[i]
TrustHasASource == \A i \in Attempts : helper[i] = "signing" => Vouched(i)

\* At a host's usual port, what was agreed to and written down is not asked
\* about again when nothing else was written about that address before: what
\* record_server_key writes is what known_server_key finds.
Usual(at) == at.port = DefaultPort /\ NumericTail[at.host] = 0
Settles(n, i) ==
  /\ file[n].by # 0
  /\ address[file[n].by] = address[i]
  /\ file[n].key = presented[i]
  /\ \A k \in 1 .. n - 1 : file[k].address # address[i]
NotAskedAgain ==
  \A i \in Attempts : helper[i] = "asking" /\ Usual(address[i])
                        => ~\E n \in 1 .. began[i] : Settles(n, i)

\* What a tab shows is a whole picture of the size that it maps the pointer
\* with, though a helper may publish one that is cut to its slot (upload).
ShowsWhole(i) == texture[i] # Nothing => texture[i].whole /\ texture[i].size = size[i]
ShownIsWhole == \A i \in Attempts : ShowsWhole(i)

\* Every PDU that was read is acted on before anything else is done: none is
\* lost to a command that came at the same moment (read and process, serve).
ActsOnAll(i) ==
  helper[i] = "serving" => taken[i] = acted[i] + (IF pdu[i] = Nothing THEN 0 ELSE 1)
NothingReadIsDropped == \A i \in Attempts : ActsOnAll(i)

\* A key agreed to is written under the address it was seen at (key_for).  It is
\* not: the title it is taken from has no port.
RecordedWhereSeen ==
  \A n \in 1 .. Len(file) : file[n].by # 0 => file[n].address = address[file[n].by]

------------------------------------------------------------------------------
(* What holds besides, and makes the rest hold                             *)

Settling(i) == helper[i] \in {"asking", "signing"}
AgreedTo(i, key) == [address |-> address[i], key |-> key] \in agreed

\* A tab that was opened has an address for good.
IsOpened(i) ==
  /\ tab[i] = "none" <=> helper[i] = "unborn"
  /\ tab[i] # "none" => address[i] \in Addresses

\* Nothing is said before the server has shown its key, and nothing is read
\* before serving.
KeepsToItsStage(i) ==
  /\ helper[i] \in {"unborn", "dialling"} =>
       messages[i] = <<>> /\ answers[i] = <<>> /\ question[i] = Nothing
  /\ helper[i] # "serving" => pdu[i] = Nothing /\ taken[i] = 0 /\ acted[i] = 0
  /\ Settling(i) => presented[i] \in Keys
  /\ question[i] # Nothing => question[i].type = "Ask"
  /\ commands[i] <= asked

\* A helper holds the first key the file had for its address when it began.
HoldsKnownKey(i) ==
  helper[i] = "dialling" \/ Settling(i) =>
    /\ began[i] <= Len(file)
    /\ given[i] = KnownKey(SubSeq(file, 1, began[i]), address[i])

\* Whatever is on its way between a helper and its tab is about the key that
\* was presented, and a yes on its way back is one that somebody said.
AsksAboutItsKey(i) ==
  helper[i] = "asking" =>
    /\ given[i] # presented[i]
    /\ question[i] # Nothing => question[i].key = presented[i]
    /\ \A n \in Arrived(i, "Ask") : messages[i][n].key = presented[i]
    /\ \A n \in DOMAIN answers[i] : answers[i][n] => AgreedTo(i, presented[i])

\* What is signed in with is on record or was agreed to, and what is to be kept
\* was agreed to.
KeepsWhatWasAgreed(i) ==
  /\ helper[i] = "signing" => given[i] = presented[i] \/ AgreedTo(i, presented[i])
  /\ \A n \in Arrived(i, "ServerKey") : messages[i][n].store => AgreedTo(i, messages[i][n].key)

\* ... as was whatever the tabs have written.
LinesWereAgreed ==
  \A n \in 1 .. Len(file) : file[n].by # 0 =>
    /\ tab[file[n].by] # "none" /\ ~file[n].revokes
    /\ file[n].address = SplitTitle(address[file[n].by].host)
    /\ AgreedTo(file[n].by, file[n].key)

IsSound(i) == /\ IsOpened(i) /\ KeepsToItsStage(i) /\ HoldsKnownKey(i) /\ AsksAboutItsKey(i)
              /\ KeepsWhatWasAgreed(i) /\ ShowsWhole(i) /\ ActsOnAll(i)

\* The invariant that the proofs need.
IInv == TypeOK /\ LinesWereAgreed /\ \A i \in Attempts : IsSound(i)

===============================================================================
