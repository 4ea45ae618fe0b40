# BestTerm, modelled and checked

BestTerm is a terminal emulator with remote sessions (SSH, telnet, serial, SFTP, VNC, RDP), written
in Rust. This directory holds TLA+ models of the parts of it in which several actors, failures or
long histories decide whether it works: what they keep, what they do, what must hold, TLC runs that
check it on small instances, and proofs for instances of every size.

Everything is translated from the code, and `PROJECT.json` says which lines each definition stands
for. Where the code and what its comments promise disagree, *Findings* says so.

    tlc -workers 4 -config tree.cfg TreeDocument      # a run: configuration, module
    tlapm SharedFrames_proofs.tla                     # the proofs of a module

| run | module | shows |
|---|---|---|
| `frames` | MCSharedFrames | the shared framebuffer is a register of whole pictures |
| `surface` | SurfaceSession | a remote desktop shows what it counts, ends once, leaves nothing running |
| `rdp` | MCRdpSession | credentials go to agreed keys only, pictures shown are whole, no PDU is dropped |
| `tree` | TreeDocument | the session tree is a forest, and its file describes it |
| `store` | MCDocumentStore | a stored document is whole at every moment, through kills and power failures |
| `telnet` | TelnetSession | option negotiation settles, output is what was sent, the end is reported |
| `terminal` | TerminalTab | output comes up and the end after it, as it was; sizes arrive; nothing is left |
| `files` | MCFilesTab | transfers end as the tab says, finished ones are copies, listings are of here |
| `tunnels` | Tunnels | a forward has a window, a claim has a forward, a closed session ends |
| `desk` | MCDesk | nobody but the file and the person lets a server's key through |
| `formats` | MCFormats | what is read from others is what they wrote: six readers, one at a time |
| `dialog_target` | MCWorkbench | OK in the session dialog may overwrite a session nobody was editing (finding) |

## The system

One process, the host, paints tabs. What it shows comes from threads and tasks that feed channels,
and from helper processes for remote desktops.

| component | state | operations | talks to |
|---|---|---|---|
| shared frames (`ipc-frame::shared`) | a mapped file: header, counter, slots | create, open, write, read_latest | helper writes, host reads, no lock |
| messages (`ipc-frame`) | none | encode, decode, length limits | the two pipes of a helper |
| helper connection (`helper-surface`) | the open mapping, a frame under a lock, a channel | reader thread, send, shutdown, drop | helper's pipes, the tab |
| desktop tab (`app-ui::surface_tab`) | texture, what it counts as shown, the end | pump, upload, input, close | helper connection, the painter |
| VNC helper (`apps/bestterm-vnc`, `proto-vnc`) | image, mapping, two tasks | connect, serve, publish, fit, input | server, host |
| RDP helper (`helpers/rdp`) | image, mapping, pending key question | connect, decide, read, process, publish | server, host |
| session tree (`core-model`) | nodes, parents, child lists | add, remove, move, rename, load, save | the store, the dialogs |
| configuration store (`config`) | files | load, migrate, back up, save | file system |
| vault (`core-vault`, `app-ui::vault`) | encrypted file, open vault, prompt | ask, create, unlock, set, persist | the store, SSH sign-in |
| application (`app-ui`) | tabs, connections, prompts, tunnels, notices | open, close, reconnect, answer | everything |
| SSH (`proto-ssh`) | connections, registry of forwards, known hosts | connect, verify, shell, forward, reconnect | server, application |
| files (`proto-sftp`, `files_tab`) | command queue, transfers, listing | list, transfer, resume, cancel | SSH, the tab |
| telnet (`proto-telnet`) | options enabled and refused, a parser | receive, answer, resize, type | socket, terminal tab |
| terminal tab (`app-ui::tab`, `core-pty`, `proto-serial`) | emulator, relay, end | pump, resize, write, reconnect | a transport |
| session dialog, menu, importers | a draft, what it is to be merged onto | edit, accept, rename, import | the session tree, the store |
| emulator, rendering, chrome | a grid; a layout | parse; paint | |

What is hard in it, and what each component must guarantee:

* **shared frames**: one process writes memory while another copies it. A copy that is accepted must
  be one whole picture, and pictures must not run backwards.
* **helper, connection, tab**: pictures travel through memory, their numbers through a pipe and a
  channel, and the painter only runs when woken. The newest picture must come up, the number on
  record must be that of a picture at least as new, a helper's death must be reported exactly once
  and last, and closing a tab must leave neither a process nor a thread, in the middle of anything.
* **session tree**: the same forest is stored twice, as parents and as lists, and operations trust
  one half or the other. Nothing may be lost, listed twice, or end up inside itself, and the file
  form must accept forests and nothing else.
* **store**: a save is five system calls. Kills, full disks and power failures between any two must
  leave a whole document; a migration must not be the end of the original.
* **telnet**: answers cross questions on the wire, reads end anywhere, and two tasks share one
  state. Both ends must end up believing the same, and data must not be taken for commands.
* **application and SSH**: questions to the person (server keys, the vault) may be asked by several
  connections at once, time out, or be answered late; connections are shared by tabs and tunnels.
* **files**: failures of transfers come as words over a channel; resuming trusts sizes; two listings
  may be on their way.
* **terminal tab**: output is relayed with a budget, its end must come after all of it, and why a
  connection ended arrives on another task than that it did.
* **RDP**: the key of a server is asked about from within a handshake, by a process of its own, with a
  timeout; the picture may change its size between being drawn and being published.
* **session dialog and readers of files and messages**: a draft shows less than a session holds; text
  and bytes come from other programs, in any order, and may stop anywhere.

`PROJECT.json` lists under `hazards` each line where one of these bites, with the property that
covers it or what is missing.

## The models

### The shared framebuffer: FrameLayout, SharedFrames, FrameRegister

`SharedFrames` is one mapping, word by word: the writer's `BeginFill`, `FillWord`, `Publish` are
`write`; `StartRead`, `CopyWord`, `FinishRead` are `read_latest`. Words are written and copied in any
order; the content of a word is the generation that wrote it. `FrameLayout` has the arithmetic both
ends share: the slot of a generation and `copy_is_intact`. `seen` is the counter as the other process
can load it; `Ordered` says whether the next fill may become visible before it, which Release does
not exclude. The run and `NeverTorn` assume TRUE, what strongly ordered processors do; with FALSE,
`NoTornCopy` fails. Loads of the reader are not reordered.

`FrameRegister` is what it promises: publish a newer picture, or read, in one step, a whole one at
most `Lag` behind and never older than the last. `frames` checks `NoTornCopy` and the refinement,
with three slots, three words and six generations: every slot is written twice, and a reader can be
overtaken at any word by one, two or three generations.

### A remote desktop: SurfaceSession

The VNC helper's main task and reading task, shared memory, both pipes, the host's reader thread with
its lock and channel, the tab and its painter, and a server that draws, resizes and fails.

| state | code |
|---|---|
| `main`, `task`, `mapping`, `desktop` | `serve` and its reading task, `Frames` (apps/bestterm-vnc) |
| `published`, `slotSize`, `files` | the mappings and their names |
| `messages`, `commands` | stdout and stdin of the helper |
| `host`, `opened`, `copying`, `meta`, `pixels` | `read_events` and the `Frame` under its lock |
| `events`, `repaint` | the channel and the wake-up |
| `latest`, `texture`, `uploaded`, `closed` | `SurfaceTab::pump` |
| `carried` | nothing in the code: whether the picture was told before the last Resized, for the properties |

The host copies a picture and its number under the lock (`FinishCopy`) and tells the tab of it after
the lock (`SendFrame`); in between the tab may upload it, or find the next copy there. The reading task
has three ends besides the server's: a new size that cannot be mapped (`FitFails`), a picture that
cannot be published or told (`PublishFails`) and a request that nobody takes (`AskFails`). Each ends it
without a word and drops the mapping's file.

A copy's outcome is what `SharedFrames` proves of one: its generation, or torn when the writer is back
in its slot. `surface` checks that the picture never goes back (`NeverBackInTime`); and, as liveness,
that once the server is quiet the last frame is counted and what is shown is that picture, or a newer
one, of the mapping in use (`CountCatchesUp`), that a helper's end is shown, and that `Closed` is reported once and last
(`EndIsShown`), and that a closed tab leaves nothing (`NothingLeftRunning`). `CountCatchesUp` has one
exception, which the code needs: a frame told before a Resized and uploaded after it in the same pump is
counted, and the frame of that number in the new mapping is skipped. Without the exception the property
is `NewestIsShown`, below. Three updates, one of them
a resize that grows or shrinks, one input: enough for a second mapping whose numbers start again at 1,
a lapped copy with three slots and a command in flight at the end.

*Fairness.* Weak fairness of the helper's two tasks (the runtime schedules them), of the host's reader
thread (a thread), and of the tab (a requested repaint is painted, a closing tab is dropped). Nothing
is assumed of the server, of the person, or of a crash. A write to stdout is one step with its flush;
pipes do not fill up. Cursor, clipboard and bell messages change none of this and are left out.

### RDP: RdpKeys, RdpDesktop, RdpSession

Remote desktops over RDP, each with a process of its own. `RdpKeys` is the file of server keys on the
host, the store of one key a helper is handed and what it makes of the key it meets (`Verdict`).
`RdpDesktop` is what a PDU does: `Applied` draws or, on a reactivation, puts an empty picture of
another size in place; `Fitted` and
`Framed` replace the mapping and number its pictures, and `Batch` is what is published of one PDU.
`RdpSession` puts several attempts beside each other over one file: `Present`, `Hear` and `Refuse` are
the question from within the handshake and its two ends, `SignIn` is `connect` returning; `ReadPdu`,
`Act` and `Obey` are the select of `serve`, in which only reading may be dropped; `Paint` is a frame of
the host: every tab takes what has arrived, keys agreed to are written down, and the first question
is painted and may be answered.

| state | code |
|---|---|
| `file`, `given`, `presented` | known_servers; the key in a request; the key in the handshake |
| `question`, `answers` | `SurfaceTab::question`; the channel to the verifier |
| `helper`, `pdu`, `desktop` | where the process is; a PDU read and not acted on; picture and mapping |
| `texture`, `size`, `uploaded` | what a tab shows and believes of it |
| `agreed`, `began`, `by` | nothing in the code: who said yes to what, and when, for the properties |

The pipe, the reader thread and the channel to a tab are one queue here; `SurfaceSession` is about
them. `rdp` checks that credentials go out only to a key somebody agreed to on this host or a line of
the file vouches for (`TrustHasASource`); that a yes that was kept is found again (`NotAskedAgain`);
that what is shown is a whole picture of the size the pointer is mapped with (`ShownIsWhole`), though
the helper may publish one that is cut; and that every PDU read is acted on (`NothingReadIsDropped`).
Two attempts, at two ports of a name and of an IPv6 address, one change of a key, two PDUs out of four
kinds, one command of the person: the second attempt meets what the first wrote, a name is cut at its
last colon, and a picture outgrows its slot. No fairness: nothing here says that something must happen.

### The session tree: Forest, SessionTree, TreeDocument

`SessionTree` is the map of nodes with parents and ordered child lists: `AddNode`, `RemoveNode`
(with `subtree` along the lists), `MoveNode` (with `ancestors` along the parents, and `retain` and
`insert` on two lists). A move without an index, or past the end, appends. `Forest` is the promise:
parents alone, with removal and the refusal of a move defined by what is *below* a node (`MayMove`). It
has no step that replaces the forest.
`TreeDocument` adds the file: `FromTree` in display order, `Accepted` and `IntoTree` with the three
passes of `into_tree`, and `LoadTree`, which replaces the tree by what a document one edit away from the
stored one describes, and which is no step of `Forest`. `tree` checks, for four identities, that a walk from the top meets everything
(`NothingIsLost`); that adding, removing and moving are each the step of that name in `Forest`, in every
tree that operations and files read in between lead to, and that a move is refused exactly where
`Forest` refuses it (`ImplementsForest`); that writing and reading back
is the identity (`RoundTrip`), and that exactly the documents that describe a forest are accepted
(`AcceptsExactlyForests`). Four nodes hold a circle of three beside a root, and every shape of
forest of depth four. Names, settings and icons are left out: nothing here depends on them.

### Telnet: TelnetOptions, TelnetSession

`TelnetOptions` is `negotiate.rs` without a socket: `Receive` (the parser, byte by byte, kept
between reads), `Answer` with its four cases, subnegotiation, `Resize`, what an outgoing byte
becomes. A byte that matters to the protocol is its name; one that is data is `text` or `high`.
`TelnetSession` puts the reading task, the writing task, their channel, the lock and the interface
around it, and a server that keeps to RFC 1143 opposite: it asks one question about an option at a
time and may change its mind. What the reader works out under the lock it queues after releasing it:
`ReadChunk` and `QueueParsed` are two steps. `telnet` checks that once everything is said and
handled both ends believe the same of each option, and a server that agreed to window sizes was told
one (`BothEndsAgree`), that the terminal gets exactly the data sent, commands never among it
(`OutputIsWhatWasSent`), and that the end is reported however the tasks end (`EndIsReported`). Three
options, the escaping one, one with a reply and one with a subnegotiation; two requests of the
server's own; a read may end once at any byte.

An option refused once is answered with silence when asked for again; the model follows the code in
this, and the server, which keeps to the RFC, does not ask twice without a change in between.

### The store: DurableDocument, DocumentStore

`DocumentStore` is one document with its temporary and its backup name, on a disk: names stand for
files, files hold a text in two parts, what is not synced may lose any part when the power fails, and
of the changes of names the last ones may be lost (they reach the disk in order). `load` is `Load`,
`BeginBackUp`, `FinishBackUp`, `LoadFails`; `save` is `BeginSave`, `CreateTemporary`, `WritePart`,
`Sync`, `RenameOver`, `SaveFails`; an instance may be killed (`Crash`) between any two, and the power
may fail (`PowerCut`). Nothing in the code keeps a second instance out, so there may be any number of
them, sharing the three names. `DurableDocument` is the promise: a whole document replaced in one step by what
is being saved, and after a power failure something that was once stored. `store` checks
`NeverTruncated`, the refinement (`ImplementsDurable`) and `OriginalIsKept` (an older document is in its
file or in the backup), for two instances, two saves of two texts, a kill and a power failure. Two saves
at once share the temporary file, and one may publish what the other has only begun to write; so the
first two hold until two save at once (`overlapped`), whatever else instances do at once. A backup that
is made is emptied first; so `OriginalIsKept` holds unless one was made while another instance had
loaded the document or was saving it (`disturbed`). Both variables are history. What store.rs promises
without these conditions is `WholeForAll`, `DurableForAll` and `KeptForAll`, below. The first document is none, one from an older, this or a newer build, or one nobody can read. Every document
of the program is at version 1 today; the version is a constant, as the code's is.

The backup is not synced, so `OriginalIsKept` is claimed without power failures. Creating the
directory and serialization fail as `SaveFails` does, before anything is written.

### Tunnels: Tunnels

Port forwarding over the sessions the application holds. `Asked` with `StartLocal` and
`RequestRemote`/`Granted`/`Denied` is `TunnelState::start`: the interface thread waits for the
server's answer, so nothing else of the interface happens meanwhile (`Idle`), while the runtime goes
on. `Stop`, `CloseTab`, `CloseOne` and `Retire` are stopping one forward, and closing the last tab of
a connection with everything that runs over it. `Register` and `Deregister` are the registry by which
`AcceptRemote` routes what a server hands back. A connection is shared: `Held` says by whom, and only
then may it end for want of an owner (`LetGo`); it may always end for reasons of its own (`End`).

| state | code |
|---|---|
| `connections`, `tabs` | `BestTermApp::connections`, the tabs with a connection |
| `over`, `running` | `TunnelForm::over`, `TunnelState::running` |
| `requesting`, `closing`, `leaving` | the calls the interface is in: `start`, `close`, `close_tab` |
| `claims` | `ForwardRegistry`, one per connection |
| `listeners`, `flows` | the tasks of `open_local_forward` and what they carry |
| `serving` | what the servers listen for |

`tunnels` checks that what is listed has a window, that a claim belongs to a forward that is running,
closing or asked for, on its own connection and port, and, as liveness, that a session whose tab was
closed ends unless it carries a connection still. Three forwards over two connections compete for one
port: a refusal, a repetition and a neighbour all occur. A dynamic forward differs from a local one
in who names the destination, and is one with it here. Left out: port 0, where the server or the
system chooses; several tabs over one connection, which the program never opens; a file browser's
task, which owns its connection until it has ended.

*Fairness.* The interface goes on closing what it began to close; a server answers a forward request
or its session ends (`keepalive_config`); an aborted task and a session without owners are dropped.
Nothing makes a carried connection end.

### Opening sessions: HostKeys, Desk

`HostKeys` is what a known_hosts file says of a key (`KnownHosts::verify`): lines with their hosts,
key and marker; the first line that has this key decides, and only without one can the key be a
changed one. `Desk` is the interface thread and one task for each attempt to open a shell or a file
browser. `Open` is asking (`resolve_auth`, and then `connect`, which hands the task the file as it is
now, or the vault prompt); `Present` is `HostKeyChecker::check`, `Hear` and `TimeOut` are the two ends
of `PromptingVerifier`'s wait, `Fail` and `Succeed` what follows; `Drain` takes one event: a question
goes to the screen or is refused because one is there, a session gets its tab and its key is written
down if that was the answer. `Answer`, `CancelPrompt`, `Refused` and `Opens` are the person at the two
prompts, `Reconnect` a new attempt with no file and the pin of the key it saw.

| state | code |
|---|---|
| `vault`, `prompt`, `resumes`, `vaultFile` | `VaultState`: vault, prompt, pending; and the file |
| `waiting`, `question` | `pending_session`, `pending_host_key` |
| `events`, `attempts` | the `sessions` channel; the tasks, each with its channel of answers |
| `known` | known_hosts; each attempt keeps what it was when it started |
| `said` | nothing in the code: what the person has said yes to, for the properties |

`desk` checks that a key is let through only if the file trusted it at the start or somebody said
yes to this key for this host (`TrustIsFromAPerson`); that a key the file revokes is never let
through nor asked about, whatever is appended (`RevokedStaysOut`); and, as liveness, that every
attempt becomes a tab or a notice, that a session waiting for the vault has a prompt, and that unlocking
the vault there begins that session (`EveryAttemptIsTold`). That it waits until the prompt is answered
well is not so: a wrong password forgets it (`WaitsUntilAnswered`, below). Two attempts are enough for two questions at once, an answer after
the timeout, a key recorded while another attempt holds the file without it, and a reconnect; one
change of key makes a server come back with a trusted, a revoked, another or a certificate
authority's key. The person's answers and the server's keys are arbitrary; an attempt that waits may
be told of a timeout at any moment, for time is not modelled.

*Fairness.* Events are drained, since each is followed by a wake-up; a task goes on, and one that
dials or waits gets an answer or gives up (the system's timeouts, `PROMPT_TIMEOUT`). Nobody has to
answer a prompt, and nothing is assumed of sessions that are open.

Which credential is used matters here only where it needs the vault. Known_hosts is read whole and
appended to by whole lines.

### Files: FileSession, FilesTab

`FileSession` is the task behind a file browser: a queue of commands, one at a time, events out.
`Begins`, `Copies`, `Finishes`, `Breaks` are `download` and `upload`, each other's mirror, with the
length of what is there when a transfer resumes; the server and the disk may refuse at any step, and
others may exchange a file (`Edit`) while nothing writes to it. A file is a sequence of chunks, each
told by the version it was read from, so that a mixture shows. `FilesTab` is the two panels over it:
`Applies...` is `apply`, one disjunct for each event, and the buttons are `Refresh`, `GoRemote`,
`DownloadSelected`, `UploadSelected`, `DeleteSelected`, `Close`.

| state | code |
|---|---|
| `queue`, `events`, `receiver` | the two channels of `FileSession`, and whether the browser is there |
| `phase`, `job`, `disk` | the task in its loop, the transfer under way, the files of both sides |
| `here`, `remote`, `waiting` | `remote_path`, the listing shown, `loading` |
| `transfers`, `closed` | the list along the bottom, the session as the tab knows it |
| `truth`, `job.sound` | nothing in the code: what became of each transfer, for the properties |

A failure comes in words; `Mentions` says which names occur in which paths, and `Named` is what the tab
makes of it. `files` checks that a listing shown is of the directory named above it
(`ListingIsOfHere`); that once everything is told each transfer shows what became of it, however the
failures were put to others on the way (`OutcomesAreTrue`); that a transfer that finishes and
continued a beginning of what it copies leaves a copy (`FinishedIsACopy`); and, as liveness, that
every transfer ends and a closed tab lets go of its connection (`EveryTransferEnds`). Two files, the
name of one within the name of the other, and a directory whose path has that name in it; two
transfers, one listing or removal beside those the tab asks for itself, one exchange by others; two
chunks, so that a transfer can continue, and two versions.

*Fairness.* The task is run, and a woken window takes what has arrived. Every
request ends, well or badly: a server that never answers, over a connection that stays, is not in the
model.

### A terminal tab: TerminalTab

One tab over a local shell, an SSH channel or a serial port: the peer, what is on its way from it, the
transport's reader and, for SSH, its writing task and the callback that says why a connection ended;
the relay thread that wakes the interface; the tab. `Reads` and `Reports` are the three readers,
`Relays` the relay's two steps, send and wake; `Paint` is a frame: every tab is pumped up to the
budget, queries are answered, and the one that is shown is given the size of the pane.

| state | code |
|---|---|
| `wire`, `reader`, `status`, `death` | `read_loop`; `open_shell`'s task; `spawn_reader`; `on_death` |
| `writer`, `commands`, `size` | the writing task and its channel; the size the transport told last |
| `source`, `relay`, `queue`, `wake` | the two channels, the relay between them, `request_repaint` |
| `grid`, `screen`, `exit`, `pane` | `TerminalTab`: its size, what the emulator was given, how it ended |

`terminal` checks that an end that is shown comes after all output and says what happened
(`EndIsTruthful`); that a query is answered once (`AnsweredOnce`); that a size the tab has been painted
at reaches the peer (`SizeReachesPeer`); and, as liveness, that output comes up without anybody
touching anything, and a closed tab leaves no reader, relay, writer or shell (`NothingIsLeftWaiting`).
Two pieces of output and a budget of one make a pump give way; both pieces ask something; one change
of the window between two sizes. Telnet, the fourth transport, is `TelnetSession`.

*Fairness.* Threads and tasks run when they can, a frame that was asked for is painted, a connection
nobody owns is dropped, and russh calls `disconnected` on one that is gone. The quarter of a second
the reader waits for it is taken to be enough for a call under way; there is no other time in the
model. A write is one step and does not block.

### The session list and its dialog: SessionDraft, Workbench

`SessionDraft` is the Session settings dialog as a form: `OpenFor` fills it from a saved session,
`Build` is OK, `MergeInto` carries the draft back onto the session, for each protocol, with `trim` and
`parse` as tables of the texts that need them. `Workbench` puts it into the main window: the session
tree (`SessionTree`'s actions), the context menu, the dialog, the rename window, the file and a restart,
which may import. The dialog is a window among others: while it is open everything can be clicked.
`formats` checks, for each protocol and a choice of what a session of it may hold, every way in and every
place of a secret among them, that opening and accepting changes
nothing, and editing one field changes that and nothing else, over and over
(`DraftKeepsTheSession`), with one exception that the property names: a key's passphrase in the vault,
which every edit loses. The promise without it is `PassphraseIsKept`, below. `dialog_target` is the finding below. Which session `about` is, is history
for that property; the code has only `editing`.

### What others write: MxtImport, SshConfigFile, HelperMessages, VncPicture, SshLogin

Five readers of what other programs say, each with a state of its own, and checked with the dialog's
draft in one run: `MCFormats` is their union, of which a behaviour picks one and leaves the others as
they are.

* **MxtImport** reads another program's session file line by line: sections, the folder each stands
  for, sessions. Lines are what they are once split. `ImportLosesNothing`: each session of the file is
  in the tree, once, in the folder its section names, or among those left out. Files of up to five
  lines out of nine: a folder reached twice, a section without one, folders in any order.
* **SshConfigFile** is ssh_config: blocks under conditions, globs, negation, Match, Include.
  `FirstValueWins` compares `Query` with what the comment in the code says the file means: the first
  value that applies, from the top, and keys in a list; and
  `GlobMatch`, which backtracks, with the definition of matching. Four lines, Include under a condition
  and a Match on the local user among them. Of a file that includes something under a condition
  only the globs are compared: there the code does something else (`FirstValueWinsEverywhere`, below).
* **HelperMessages** has every message between application and helper, written and read field by field
  by two tables, the length prefix and a pipe that is cut at any byte, closed, or holds a message of
  another version. `ReadIsWhatWasSaid`. A byte is a number below 14, which has room for every tag, and a
  field and a message have 60 bytes at most, so that one message of those sent is at the limit and one
  beyond; two messages on a pipe, one of them from another version or under a length that is one short,
  one long, or over the limit, which the reader refuses before it reads on.
* **VncPicture** has the server's picture and the client's, and what each rectangle does: raw, a copy
  that overlaps itself, ZRLE tile by tile in its five packings, a new size, and rectangles that are
  none. `TheSameDesktop`: they are equal while the session is up, all that changed is reported, and
  only a wrong rectangle ends it. Runs are read until the tile is full, as the code's loops
  do, and one that is a pixel longer than the tile has left is refused. Tiles of two by two, a length
  byte up to 2, two rectangles: partial tiles, runs over several bytes, drawing over what was just copied.
* **SshLogin** is logging in to a server through others: each hop's key, then its way in, from no
  credential to an agent's keys and rounds of questions, with a server that says anything and hangs up
  at any time. `SecretsStayWithTheirHop`. Plans of one to three hops, two rounds. The application itself
  dials no jump hosts yet; `connect_via` is what it would call.

### Deadlock

Sessions end, connections close and instances go idle once the bounds are used up, so the runs of
SurfaceSession, RdpSession, TelnetSession, TerminalTab, FilesTab, DocumentStore, Tunnels, Desk and
MCFormats do not report a state without successors. The others always can go on, and are checked for
it. That the former do not stop too early is what their liveness properties say.

## The proofs

Proved by TLAPS for every value of the constants, under the assumptions the modules name.

* **SharedFrames_proofs.** `TypeCorrect`; `Invariance`: `Spec => []IInv`; `NeverTorn`; `Refinement`.
  `NoTornCopy` is not inductive: it says nothing of a copy in progress. `IInv` adds that each
  published generation is whole in its slot until the writer comes back to it (`SlotsHoldPublished`),
  that what is copied so far is of the generation the copy started from unless the writer came back
  (`CopiedIsStarted`), and that with visible stores in order the writer is never two counters ahead
  of what the reader can load (`CounterKeepsUp`), which is what makes the final comparison in
  `copy_is_intact` enough. At least two slots are assumed, as `total_bytes` requires.
* **Sessions_proofs**, of SessionTree. `StaysForest`, of Forest; `Consistent`: both halves describe one
  forest, always; `WalkMeetsAll`; `TreeImplementsForest`: a tree that is only operated on is a behaviour
  of `Forest`, each operation is the step of its own name there, and moves are refused where `Forest`
  refuses them. Acyclicity is stated as *each nonempty set
  of nodes has one whose parent is outside*, so that no induction is needed. The argument: what each
  operation does to a list; the set `Subtree` computes down the lists is what lies below a node, and
  `Ancestors`, climbing, is its complement on the path; so each operation is a `Forest` step and the
  new parents are a forest; the lists agree with the new parents because each operation changes both.
* **Sessions_proofs**, of TreeDocument. `OnlyForestsAreAccepted`: of all lists of entries, of any length
  and in any order, those are accepted that are forests. A climb longer than the list has been somewhere
  twice, and between the two goes round in a circle; from a circle no climb gets out. So what is loaded
  is a forest (`LoadedIsTree`), and `ConsistentWithFiles`, `NothingIsLostInFiles` and
  `DocImplementsForest` say of a tree that is saved, edited by hand and loaded that it is a forest, that
  a walk meets all of it, and that each operation on it is still the one of its name in `Forest`; what
  loading does is no operation, and is covered by `LoadedIsTree`. `SavedAndLoaded` is `RoundTrip`, for trees of every size and depth. It speaks
  of a list made by recursion along the lists of children, read back by another along the whole, and the
  argument is what a stretch of the walk *gives* a folder (`Listed`): two stretches in a row give what
  the first does and then what the second does (`ListedConcat`), so the subtree of a node, once it is
  followed as deep as there are nodes below, gives every folder in it all its children in their order,
  and every other folder nothing (`SubtreeLists`). A folder is below one child of its parent at most
  (`BelowOne`) and every one is below the top level (`BelowTop`); so the walk gives each folder its
  children, once. That a walk meets each node once follows, and is not assumed. `DocIInv` adds to the
  tree's invariant that the map is finite and that what is not in it has no parent.
* **Sessions_proofs**, of DocumentStore. For any number of instances at once. `Invariance` holds without
  a condition (`IInv`): types; what is on the disk is the original or what somebody saved; no file that
  is or was the document or the temporary one is the backup (`BackUpIsApart`), so that filling a backup
  spoils no document, whoever else is there; and a call knows which file it writes. Until two saves overlap more
  holds (`SoundnessLasts`, `Sound`), about every naming the disk may come back with: each has a whole,
  synced document (`DocumentsAreWhole`); the file that has the temporary name now is the document in none of
  them (`FilesAreApart`), so that emptying and writing it spoils none; the one save under way has
  written and synced what it will rename (`CallsWriteTheirOwn`). `DocumentIsWhole`
  (`NeverTruncated`) and `Refinement` (`ImplementsDurable`) follow; that two saves do not overlap is part
  of what they state, because the code breaks the promise when they do (`WholeForAll`).
  `OriginalSurvives` (`OriginalIsKept`) lets saves overlap. Its invariant is `BackUpInv`, up to the first
  power failure, blind save, or backup made while another instance was at work: while a backup is made
  nobody works (`NobodyWorks`), the document is still the original then, and whoever saves has loaded it,
  after which the backup has the original (`BacksUpFirst`); later backups would have to be made of an
  older document, and there is none but the original.

* **Ssh_proofs**, of Tunnels. `TypeCorrect`, `ListedHaveAWindow`, `RoutedToTheLiving`, from `Invariance`: the
  connections listed are those with a tab and the one being closed, and what is being asked for runs
  over one with a tab. The argument for claims is what `Register` and `Deregister` leave: one claim
  or none on the port, and everything else as it was.
* **Desk_proofs.** `NobodyElseIsTrusted`, `RevokedIsRefused`, `TypeCorrect`, from `Invariance`. Keys
  are let through in three places, from a file, by an answer and by a pin, at times that have nothing
  to do with when these were right. `IInv` says what each attempt carries: its file is the first one
  with lines below it that a person said yes to (`Grown`), its pin was welcome (`Welcome`), the answer
  in its channel was said of its own key (`AttemptIsSound`); and that a question on the screen or in
  the channel is still about the key it was asked about, which no revocation covers
  (`QuestionsAreSound`). The lemmas are about files: the first line to decide still decides when lines
  are appended (`FirstStays`), so a trusted key is welcome and a revoked one stays revoked. Every step
  of a task is one of `Advances`, and keeps this by one lemma (`AdvanceStep`).

* **Ssh_proofs**, of SshLogin. `NothingIsToldToOthers` (`SecretsStayWithTheirHop`), from `LoginInvariance`, for
  any number of hops, any ways in and any bound on rounds. The property says nothing of the hop being
  opened; `LoginIInv` adds that all before it have said yes, it has not, and it is only told anything
  after its key was accepted.
* **FilesTab_proofs.** `OutcomesBecomeTrue` (`OutcomesAreTrue`), `FinishedLeavesACopy`
  (`FinishedIsACopy`), `ShownIsOfHere` (`ListingIsOfHere`), from `Invariance`. The property is about
  the end, and on the way a failure may be put to a transfer that is not its own, so the invariant
  cannot say that what shows is true. It says that transfers wait, are worked on and end in the order
  of the list (`InOrder`, `EndedInOrder`), and that those that have ended without showing it are told
  of yet, in that order (`WillBeTold`: places in the events channel, increasing); what shows as
  finished is (`FinishedIsShown`). What is
  heard may be put to the wrong one, but not if it tells of the first that is still to be told of:
  an earlier one that its words name and that shows no outcome would have ended as well, so it would
  still have to be told of, before the first (`FailedStep`). When the channel is empty nothing is
  left to be told. Copies rest on `Continued`: what is written is as long as the task believes, and of
  the source chunk by chunk. Assumed: each name occurs in its own path (`MentionsAssumption`), and the
  bounds are numbers.

* **RdpSession_proofs.** `CredentialsGoWhereTrusted` (`TrustHasASource`), `KeptIsNotAskedAgain`
  (`NotAskedAgain`), `PictureIsWhole` (`ShownIsWhole`), `EveryPduIsActedOn` (`NothingReadIsDropped`),
  from `RdpInvariance`. A yes travels: from the question in the handshake to the person, back to the
  handshake, with the session's first message to the tab, into the file, and from there to the next
  attempt. `IInv` says what it is about on each leg: the question on its way and on the screen and the
  answer on its way are about the key that was presented (`AsksAboutItsKey`); what is signed in with
  was on record or agreed to, and so was what is to be kept (`KeepsWhatWasAgreed`) and what is written
  (`LinesWereAgreed`); a helper holds the first key that the beginning of the file, as it was when the
  attempt began, has for its address (`HoldsKnownKey`), which appending does not change. Nothing of
  one stage is left over in another (`KeepsToItsStage`), or a question could be answered by the yes to
  an earlier one. The proof found what the checked instance had missed: the name a line is written
  under may be cut at its last colon, so that a yes for one name vouches for another. `Vouched` says
  so, and the run has an IPv6 address since.
* **TerminalTab_proofs.** `EndIsTold` (`EndIsTruthful`), `EveryQuestionIsAnsweredOnce`
  (`AnsweredOnce`), `SizeArrives` (`SizeReachesPeer`), from `TerminalInvariance`. All three are about
  the far end of a chain of queues, so `IInv` says what each link holds. Output: screen, queue, source
  and wire continue each other without a gap (`DeliveredInOrder`, `ReadInOrder`), the end is said
  once, by a reader that has nothing left to read (`EndsOnce`), each kind of transport ends as it can
  (`EndsByKind`), and an end on its way is as true as one that is shown (`EndsAreTruthful`). Answers:
  what the peer got and what waits for the writer, in order, is a beginning of what was asked, and
  all of it while somebody can write (`AnswersAreWritten`). Sizes: what the last resize that waits
  will tell is what the transport believes the peer has (`SizeIsOnItsWay`). The lemmas are about the
  elements of a list that are in a set, picked by rank (`Among`): those of two lists in a row are
  those of the first and then of the second.

* **Telnet_proofs.** `BothEndsConverge` (`BothEndsAgree`), `NothingIsMissed` (`OutputIsWhatWasSent`),
  `EveryEndIsReported` (`EndIsReported`), from `TelnetInvariance`, for any set of options, bounds and
  cuts. The properties speak of a settled session; `IInv` speaks of every moment in terms of what will
  have come of it: `Ahead` is the parser with all that has arrived read. For each option there are
  four things to relate, what the server takes it to be, whether it will be on at this end, and, along
  the socket, the channel, the reply being queued and what reading on will reply, the last word about
  it. Where the two ends differ or the server waits, something is on its way that will tell it, and the
  last word to arrive is true (`Converges`); an option this end may not turn on stays off
  (`StaysOff`). A size is the next message after the agreement to tell it, wherever the two are
  (`SizeFollows`, `SizeIsTold`), and what the terminal was given, what is being queued and what reading
  on will show add up to what was sent (`OutputIsOnItsWay`). The lemmas are about `Receive`: that it is
  a run over the bytes at all (`Recursion`: the function the definition chooses exists and is the only
  one), so that reading does not depend on where a stream is cut (`ReceiveConcat`); that a resize in
  between changes the sizes told and nothing else (`ReceiveResized`); and what it makes of one whole
  command (`SpokenDo`, `SpokenWill`). `HearsYes`, `HearsNo` and `Asks` are the table of the four verbs,
  for one option; the rest says that a step touches one option. The server is assumed to keep to
  RFC 1143, as the module says.

Only model-checked: every liveness property and everything else of SurfaceSession; what the dialog
keeps of a session and what an import loses; and the readers of configuration files, messages and
pictures, most of which are recursive operators. Liveness under fairness is beyond the prover, and so
is what a recursive operator computes. What a recursive function computes along a sequence or up to a
depth can be had from its least counterexample, as for `Receive` and for the walk and the climb of
TreeDocument (`Repeating`, `Folding`, `Lengthening`).

## Findings

* `dialog_target`: *Edit* on a saved session remembers which one; the ribbon's *Session* button then
  resets the dialog and not that. OK on the new session is merged onto the old one, saved, and opens
  nothing. OK with a required field empty, or on a protocol without a model, closes the dialog, says so
  only in the log (the comment at session_dialog.rs:463 has it reported), and leaves the same behind.

Other promises of comments that the code does not keep, met while modelling. Those with a name are
stated in their modules, and fail when put into the run's configuration:

| where | what |
|---|---|
| `TornIsNeverShown` (SurfaceSession) | a copy that is rejected has already been written over the pixels of the frame before, which a slower tab then uploads |
| `EndOfReadingIsShown` (SurfaceSession) | when `fit` or `publish` fails, or a request finds nobody, the VNC helper's reading task ends without a Closed, and its `notify_waiters` is lost on a busy main task |
| `NewestIsShown`, `NeverAcrossAResize` (SurfaceSession) | a frame told before a Resized of the same pump is uploaded after it, at the size it predates; counted, it hides the frame of the same number that follows (surface_tab.rs:180, 227) |
| `ToldIsCurrent` (TelnetSession) | a resize overtakes the answer that carries the older window size |
| `ListedIsRouted` (Tunnels) | asking a second time for a port, and being refused, gives up the claim of the forward that has it; it stays listed, and what the server hands back is declined |
| `WaitsUntilAnswered` (Desk) | a wrong master password forgets the session that waits, and the prompt stays |
| `EndedStaysEnded` (FilesTab) | a failure is put to a transfer whose name its words hold; one that is still waiting shows as failed, and as finished later |
| `RecordedWhereSeen` (RdpSession) | a key agreed to at another port is written under 3389, for the title it is taken from has no port; an IPv6 name may be cut at its last colon |
| `WholeForAll`, `DurableForAll` (DocumentStore) | two instances share one temporary name, and one may publish what the other has only begun to write |
| `KeptForAll` (DocumentStore) | two instances share one backup name: one that starts while another has migrated empties the backup, or fills it with what the other has saved |
| `PassphraseIsKept` (SessionDraft) | the stored passphrase of a key is dropped by every edit (session_dialog.rs:622), against the comment at 505 |
| `FirstValueWinsEverywhere` (SshConfigFile) | what follows an Include inside a Host block, and what it includes, is read as if outside (ssh_config.rs:293) |

And without a formula:

* *Shared frames*: where stores may become visible out of order, Release lets the next fill overtake the
  counter.
* *VNC*: the security types of a 3.3 server are read as a list; cut text over 1 MiB is read short
  (session.rs:353); the second extra button has the mask of scroll-left.
* *RDP*: of several questions the first tab's is painted, not the active one's (ui lib.rs:811).
* *Store*: a session file that cannot be read becomes an empty tree and is saved over (ui lib.rs:209).
* *Dialog*: a terminal type that is not listed becomes xterm, inherited settings are written back as the session's own, with X11 turned
  on, and switching between SSH and SFTP on an edit keeps the protocol. *Connect as* opens what the
  dialog holds, without jump hosts, forwards and stored credentials.
* *Import*: an imported SFTP password is stored and no session refers to it; with a locked vault the
  passwords are dropped with a notice; the import replaces the whole tree. Deleting a session leaves
  other sessions' jump hosts pointing to it.
* *SSH*: a trusting line above the @revoked line for the same key wins; an exit status after the end of
  output is not read; a server that hangs up within the quarter second after an exit makes it read as a
  failure; what the server says to the last of 32 rounds is not heard; of an agent's keys the last
  refusal is told.
* *Terminal*: a write to a pty that does not read stops every tab; a channel opened at the size of the
  tab shown is adopted as 80 by 24. *Tunnels*: starting and closing wait for the server on the interface
  thread.

## Not modelled

* *The terminal emulator, rendering, layout and chrome*: a third-party emulator behind a wrapper, and
  pure functions from a snapshot to shapes. They keep no state that steps; what the tab keeps is in
  TerminalTab.
* *Libraries and the system*: SSH's and RDP's handshakes and ciphers, DES, Argon2 and ChaCha20, SFTP's wire
  format, the compressor, pseudo-terminals, serial settings, sockets.
* *Text*: how lines of known_hosts, ssh_config and session files are taken apart, and what errors say;
  pixel formats, key symbols and cursors.
* *The vault's entries*: a map that is written as a whole, which is a document of the store.
* *Inheritance of settings* in the session tree, which is a fold over ancestors without a state.
* *Time*: every timeout may happen at any moment its wait allows, and waits of a fixed length are
  assumed to suffice where the text above says so.

What could be proved next: that SurfaceSession's pictures do not go back in time; and `FirstValueWins`,
with its reader written as a function along the lines, as `Linked` is.
