---------------------------- MODULE SurfaceSession ----------------------------
(***************************************************************************)
(* One remote desktop, from the server's updates to the texture on screen: *)
(*                                                                         *)
(*   apps/bestterm-vnc          the helper process: a task that reads the  *)
(*                              server and publishes frames, and a main    *)
(*                              task that obeys the host's commands;       *)
(*   crates/helper-surface      the host's thread that reads the helper's  *)
(*                              messages and copies frames out of the      *)
(*                              shared mapping, under a lock;              *)
(*   crates/app-ui/surface_tab  the tab, which drains events once per      *)
(*                              painted frame and uploads the newest.      *)
(*                                                                         *)
(* A copy out of the mapping takes time and the writer goes on meanwhile.  *)
(* What a copy holds is what SharedFrames proves of it: the generation it  *)
(* started from, unless the writer is back in its slot.  A picture is the  *)
(* mapping and the generation it came from; sizes are the pixel counts     *)
(* that decide whether a mapping must be replaced.                         *)
(***************************************************************************)
EXTENDS FrameLayout, Sequences

CONSTANTS FirstSize,    \* the desktop's size when the session opens
          Sizes,        \* the sizes the server may change it to
          MaxUpdates,   \* bound: framebuffer updates the server sends
          MaxResizes,   \* bound: those of them that change the desktop's size
          MaxInputs     \* bound: input events the user sends

ASSUME SizesAssumption == Sizes \cup {FirstSize} \subseteq Nat \ {0}
ASSUME BoundsAssumption == {MaxUpdates, MaxResizes, MaxInputs} \subseteq Nat

\* A mapping is replaced only by a bigger one.
Mappings == 1 .. MaxUpdates + 1

None == [kind |-> "none"]
Torn == [kind |-> "torn"]
Picture(m, g) == [kind |-> "picture", mapping |-> m, generation |-> g]

VARIABLES
  \* the helper process
  process,      \* "running", or "ended" however it ended
  main,         \* its main task: "connecting", "parked", "handling", "leaving"
  task,         \* its reading task: where in a round it is
  desktop,      \* the size of its framebuffer
  mapping,      \* the mapping it writes, 0 before there is one
  updates,      \* how many updates the server has sent
  resizes,      \* and how many of them were resizes
  \* shared memory
  slotSize,     \* per mapping, the size it was created for
  published,    \* per mapping, its counter
  files,        \* the mappings whose file still has a name
  \* the two pipes
  messages,     \* helper to host
  commands,     \* host to helper
  \* the host's reader thread
  host,         \* where in its loop it is
  opened,       \* the mapping it has open, 0 for none
  copying,      \* the copy in progress: the message and the generation found
  meta,         \* Frame.meta, under the lock
  pixels,       \* Frame.pixels, under the lock: what they are, and how many
  events,       \* the channel to the tab
  \* the tab
  tab,          \* "open", "closing" or "gone"
  ui,           \* "idle", or "pumping" in the middle of a painted frame
  repaint,      \* whether a painted frame has been asked for
  latest,       \* the newest Frame event of this pump
  texture,      \* the picture on screen
  uploaded,     \* the generation the tab believes it shows
  closed,       \* whether it has been told the session ended
  inputs,       \* how many input events the user has sent
  carried       \* history: whether the picture on screen, or before there is one
                \* the one to be shown, was told before the last change of size

helperVars == <<process, main, task, desktop, mapping, updates, resizes>>
memoryVars == <<slotSize, published, files>>
hostVars == <<host, opened, copying, meta, pixels>>
tabVars == <<tab, ui, repaint, latest, texture, uploaded, closed, inputs, carried>>
vars == <<process, main, task, desktop, mapping, updates, resizes, slotSize, published, files,
          messages, commands, host, opened, copying, meta, pixels, events,
          tab, ui, repaint, latest, texture, uploaded, closed, inputs, carried>>

\* helper_surface::connect has started the helper, written the request and
\* spawned the reader; SurfaceTab::adopt has made the tab.
Init ==
  /\ process = "running"
  /\ main = "connecting"
  /\ task = "unborn"
  /\ desktop = FirstSize
  /\ mapping = 0
  /\ updates = 0
  /\ resizes = 0
  /\ slotSize = [m \in Mappings |-> 0]
  /\ published = [m \in Mappings |-> 0]
  /\ files = {}
  /\ messages = <<>>
  /\ commands = <<>>
  /\ host = "reading"
  /\ opened = 0
  /\ copying = None
  /\ meta = None
  /\ pixels = [content |-> None, length |-> 0]
  /\ events = <<>>
  /\ tab = "open"
  /\ ui = "idle"
  /\ repaint = FALSE
  /\ latest = None
  /\ texture = None
  /\ uploaded = 0
  /\ closed = FALSE
  /\ inputs = 0
  /\ carried = FALSE

------------------------------------------------------------------------------
(* The helper                                                              *)

\* Mutant: the old mapping is reused, and starts counting again.
CreateMappingInPlace(size) ==
  /\ mapping' = 1
  /\ slotSize' = [slotSize EXCEPT ![1] = size]
  /\ files' = {1}
  /\ published' = [published EXCEPT ![1] = 0]

\* Frames::create: a new file, announced; the mapping it replaces goes, and
\* takes its name with it.
CreateMapping(size) ==
  /\ mapping' = mapping + 1
  /\ slotSize' = [slotSize EXCEPT ![mapping + 1] = size]
  /\ files' = (files \ {mapping}) \cup {mapping + 1}
  /\ UNCHANGED published

Ready(m) == [type |-> "Ready", mapping |-> m]
Frame(g, size) == [type |-> "Frame", generation |-> g, size |-> size]
Resized(size) == [type |-> "Resized", size |-> size]
Closed == [type |-> "Closed"]

\* run, connect and the head of serve, when all of it works.
Connects ==
  /\ process = "running" /\ main = "connecting"
  /\ CreateMapping(desktop)
  /\ messages' = Append(messages, Ready(1))
  /\ main' = "parked"
  /\ task' = "reading"
  /\ UNCHANGED <<process, desktop, updates, resizes, commands, hostVars, events, tabVars>>

\* The server refused, or nothing answered: the helper says so and ends.
ConnectFails ==
  /\ process = "running" /\ main = "connecting"
  /\ messages' = Append(messages, Closed)
  /\ main' = "leaving"
  /\ UNCHANGED <<process, task, desktop, mapping, updates, resizes, memoryVars, commands,
                 hostVars, events, tabVars>>

\* Notify::notify_waiters wakes a main task parked in its select and is
\* forgotten by one that is handling a command.
NotifyMain == main' = IF main = "parked" THEN "leaving" ELSE main

\* The reading task returns, and drops its mapping, whose file goes with it.
TaskEnds ==
  /\ task' = "ended"
  /\ NotifyMain
  /\ files' = files \ {mapping}

\* read_message returns an update of the desktop as it is.
ServerDraws ==
  /\ process = "running" /\ task = "reading"
  /\ updates < MaxUpdates
  /\ updates' = updates + 1
  /\ task' = "filling"
  /\ UNCHANGED <<process, main, desktop, mapping, resizes, memoryVars, messages, commands,
                 hostVars, events, tabVars>>

\* read_message returns an update with a new size: Frames::fit keeps a
\* mapping that is big enough and replaces one that is not.
ServerResizes(size) ==
  /\ process = "running" /\ task = "reading"
  /\ updates < MaxUpdates /\ resizes < MaxResizes
  /\ updates' = updates + 1
  /\ resizes' = resizes + 1
  /\ desktop' = size
  /\ task' = "announcing"
  /\ IF size <= slotSize[mapping]
     THEN UNCHANGED <<mapping, memoryVars, messages>>
     ELSE /\ CreateMapping(size)
          /\ messages' = Append(messages, Ready(mapping + 1))
  /\ UNCHANGED <<process, main, commands, hostVars, events, tabVars>>

\* Frames::fit cannot create the mapping.  The task ends without a word.
FitFails(size) ==
  /\ process = "running" /\ task = "reading"
  /\ updates < MaxUpdates /\ resizes < MaxResizes
  /\ size > slotSize[mapping]
  /\ updates' = updates + 1
  /\ resizes' = resizes + 1
  /\ desktop' = size
  /\ TaskEnds
  /\ UNCHANGED <<process, mapping, slotSize, published, messages, commands,
                 hostVars, events, tabVars>>

\* The connection to the server breaks: said, and the task ends.
ServerFails ==
  /\ process = "running" /\ task = "reading"
  /\ messages' = Append(messages, Closed)
  /\ TaskEnds
  /\ UNCHANGED <<process, desktop, mapping, updates, resizes, slotSize, published, commands,
                 hostVars, events, tabVars>>

Announce ==
  /\ process = "running" /\ task = "announcing"
  /\ messages' = Append(messages, Resized(desktop))
  /\ task' = "filling"
  /\ UNCHANGED <<process, main, desktop, mapping, updates, resizes, memoryVars, commands,
                 hostVars, events, tabVars>>

\* Frames::publish: while filling, the words of the next generation land in
\* its slot, and then the counter moves; or there is no such slot, and the task
\* ends without a word.
PublishFrame ==
  /\ process = "running" /\ task = "filling"
  /\ published' = [published EXCEPT ![mapping] = @ + 1]
  /\ task' = "telling"
  /\ UNCHANGED <<process, main, desktop, mapping, updates, resizes, slotSize, files,
                 messages, commands, hostVars, events, tabVars>>

PublishFails ==
  /\ process = "running" /\ task = "filling"
  /\ TaskEnds
  /\ UNCHANGED <<process, desktop, mapping, updates, resizes, slotSize, published,
                 messages, commands, hostVars, events, tabVars>>

\* The host is told, and the server asked for the next update.
TellFrame ==
  /\ process = "running" /\ task = "telling"
  /\ messages' = Append(messages, Frame(published[mapping], desktop))
  /\ task' = "reading"
  /\ UNCHANGED <<process, main, desktop, mapping, updates, resizes, memoryVars, commands,
                 hostVars, events, tabVars>>

\* Nobody is left to ask the server, after a frame that was told or an update that
\* drew nothing: the task ends without a word.
AskFails ==
  /\ process = "running" /\ task \in {"reading", "telling"}
  /\ messages' = IF task = "telling" THEN Append(messages, Frame(published[mapping], desktop))
                                     ELSE messages
  /\ TaskEnds
  /\ UNCHANGED <<process, desktop, mapping, updates, resizes, slotSize, published, commands,
                 hostVars, events, tabVars>>

\* serve's select takes a command.  Shutdown is answered and obeyed; input
\* is turned into RFB and queued for the writer.
TakeCommand ==
  /\ process = "running" /\ main = "parked"
  /\ commands # <<>>
  /\ commands' = Tail(commands)
  /\ IF Head(commands) = "Shutdown"
     THEN /\ main' = "leaving"
          /\ messages' = Append(messages, Closed)
     ELSE /\ main' = "handling"
          /\ UNCHANGED messages
  /\ UNCHANGED <<process, task, desktop, mapping, updates, resizes, memoryVars,
                 hostVars, events, tabVars>>

FinishCommand ==
  /\ process = "running" /\ main = "handling"
  /\ main' = "parked"
  /\ UNCHANGED <<process, task, desktop, mapping, updates, resizes, memoryVars, messages, commands,
                 hostVars, events, tabVars>>

\* A process that is gone has no tasks and reads no commands; a fill it was
\* in the middle of stays as it was in memory.
EndProcess ==
  /\ process' = "ended"
  /\ main' = "leaving"
  /\ task' = IF task = "filling" THEN task ELSE "ended"
  /\ commands' = <<>>

\* run returns: the runtime drops the tasks, the mapping removes its file.
Leave ==
  /\ process = "running" /\ main = "leaving"
  /\ EndProcess
  /\ files' = files \ {mapping}
  /\ UNCHANGED <<desktop, mapping, updates, resizes, slotSize, published, messages,
                 hostVars, events, tabVars>>

\* Killed from outside, or a panic that takes the process down.
Crash ==
  /\ process = "running"
  /\ EndProcess
  /\ UNCHANGED <<desktop, mapping, updates, resizes, memoryVars, messages,
                 hostVars, events, tabVars>>

------------------------------------------------------------------------------
(* The host's reader thread: read_from_helper                              *)

\* events.send: fails once the tab, and with it the receiver, is gone.
Send(event) ==
  IF tab = "gone"
  THEN /\ host' = "ended"
       /\ UNCHANGED events
  ELSE /\ host' = "waking"
       /\ events' = Append(events, event)

\* A Ready: open the mapping by its name, or give up.
TakeReady ==
  /\ host = "reading" /\ messages # <<>> /\ Head(messages).type = "Ready"
  /\ messages' = Tail(messages)
  /\ IF Head(messages).mapping \in files
     THEN /\ opened' = Head(messages).mapping
          /\ UNCHANGED host
     ELSE /\ host' = "closing"
          /\ UNCHANGED opened
  /\ UNCHANGED <<helperVars, memoryVars, commands, copying, meta, pixels, events, tabVars>>

\* A Frame: lock, load the counter and start copying.  One that arrives
\* before any mapping is skipped.
TakeFrame ==
  /\ host = "reading" /\ messages # <<>> /\ Head(messages).type = "Frame"
  /\ messages' = Tail(messages)
  /\ IF opened = 0
     THEN UNCHANGED <<host, copying>>
     ELSE /\ copying' = [kind |-> "copy", message |-> Head(messages),
                         started |-> published[opened]]
          /\ host' = "copying"
  /\ UNCHANGED <<helperVars, memoryVars, commands, opened, meta, pixels, events, tabVars>>

\* The newest generation of a mapping any of whose words may be in memory.
Reach(m) == published[m] + (IF m = mapping /\ task = "filling" THEN 1 ELSE 0)

\* What a finished copy may hold: its generation, and once the writer is back
\* in the slot possibly words of two.
Copied == {Picture(opened, copying.started)} \cup
          IF copying.started + SLOT_COUNT > Reach(opened) THEN {} ELSE {Torn}

\* The copy goes straight into Frame.pixels, whatever becomes of it; the
\* metadata follows only when the copy is intact, and the lock is released.
FinishCopy ==
  /\ host = "copying"
  /\ \E content \in Copied :
       pixels' = [content |-> content, length |-> copying.message.size]
  /\ IF CopyIsIntact(copying.started, published[opened])
     THEN /\ meta' = copying.message
          /\ host' = "sending"
          /\ UNCHANGED copying
     ELSE /\ host' = "reading"
          /\ copying' = None
          /\ UNCHANGED meta
  /\ UNCHANGED <<helperVars, memoryVars, messages, commands, opened, events, tabVars>>

\* The tab is told of an intact copy after the lock, which it may hold by now.
SendFrame ==
  /\ host = "sending"
  /\ Send(copying.message)
  /\ copying' = None
  /\ UNCHANGED <<helperVars, memoryVars, messages, commands, opened, meta, pixels, tabVars>>

TakeResized ==
  /\ host = "reading" /\ messages # <<>> /\ Head(messages).type = "Resized"
  /\ messages' = Tail(messages)
  /\ Send(Head(messages))
  /\ UNCHANGED <<helperVars, memoryVars, commands, opened, copying, meta, pixels, tabVars>>

\* The helper said it is over, or its pipe is at its end.
TakeEnd ==
  /\ host = "reading"
  /\ \/ /\ messages # <<>> /\ Head(messages).type = "Closed"
        /\ messages' = Tail(messages)
     \/ /\ messages = <<>> /\ process = "ended"
        /\ UNCHANGED messages
  /\ host' = "closing"
  /\ UNCHANGED <<helperVars, memoryVars, commands, opened, copying, meta, pixels,
                 events, tabVars>>

\* The waker, after every event.
Wake ==
  /\ host = "waking"
  /\ host' = "reading"
  /\ repaint' = TRUE
  /\ UNCHANGED <<helperVars, memoryVars, messages, commands, opened, copying, meta, pixels,
                 events, tab, ui, latest, texture, uploaded, closed, inputs, carried>>

\* "Always, whatever ended the loop": one last event, and its wake.
SendClosed ==
  /\ host = "closing"
  /\ events' = IF tab = "gone" THEN events ELSE Append(events, Closed)
  /\ host' = "lastWake"
  /\ UNCHANGED <<helperVars, memoryVars, messages, commands, opened, copying, meta, pixels,
                 tabVars>>

\* Mutant: the last event wakes nobody.
LastWakeMissing ==
  /\ host = "lastWake"
  /\ host' = "ended"
  /\ UNCHANGED <<helperVars, memoryVars, messages, commands, opened, copying, meta, pixels,
                 events, tabVars>>

LastWake ==
  /\ host = "lastWake"
  /\ host' = "ended"
  /\ repaint' = TRUE
  /\ UNCHANGED <<helperVars, memoryVars, messages, commands, opened, copying, meta, pixels,
                 events, tab, ui, latest, texture, uploaded, closed, inputs, carried>>

------------------------------------------------------------------------------
(* The tab                                                                 *)

\* A painted frame begins: SurfaceTab::pump.
BeginPump ==
  /\ tab = "open" /\ ui = "idle" /\ repaint
  /\ ui' = "pumping"
  /\ repaint' = FALSE
  /\ latest' = None
  /\ UNCHANGED <<helperVars, memoryVars, messages, commands, hostVars, events,
                 tab, texture, uploaded, closed, inputs, carried>>

\* Mutant: a change of size drops the texture, and the number it had is kept.
TakeEventKeepsCount ==
  /\ ui = "pumping" /\ events # <<>>
  /\ events' = Tail(events)
  /\ latest' = IF Head(events).type = "Frame" THEN Head(events) ELSE latest
  /\ texture' = IF Head(events).type = "Resized" THEN None ELSE texture
  /\ closed' = (closed \/ Head(events) = Closed)
  /\ UNCHANGED <<helperVars, memoryVars, messages, commands, hostVars,
                 tab, ui, repaint, uploaded, inputs, carried>>

\* try_recv, and what each event does.
TakeEvent ==
  /\ ui = "pumping" /\ events # <<>>
  /\ events' = Tail(events)
  /\ CASE Head(events).type = "Frame" ->
            /\ latest' = Head(events)
            /\ carried' = (carried /\ texture # None)
            /\ UNCHANGED <<texture, uploaded, closed>>
       [] Head(events).type = "Resized" ->
            /\ texture' = None
            /\ uploaded' = 0
            /\ carried' = (latest # None)
            /\ UNCHANGED <<latest, closed>>
       [] Head(events).type = "Closed" ->
            /\ closed' = TRUE
            /\ UNCHANGED <<latest, texture, uploaded, carried>>
  /\ UNCHANGED <<helperVars, memoryVars, messages, commands, hostVars, tab, ui, repaint, inputs>>

\* upload: nothing for a generation already counted, and nothing when the
\* pixels under the lock are not the ones the event was about.
Uploadable ==
  /\ latest # None
  /\ latest.generation # uploaded
  /\ meta # None
  /\ meta.generation = latest.generation
  /\ meta.size = latest.size
  /\ latest.size <= pixels.length

\* The channel is empty: upload the newest frame, under the lock.
EndPump ==
  /\ ui = "pumping" /\ events = <<>>
  /\ latest # None => host # "copying"
  /\ ui' = "idle"
  /\ latest' = None
  /\ IF Uploadable
     THEN /\ texture' = pixels.content
          /\ uploaded' = latest.generation
          /\ carried' = (carried /\ texture = None)
     ELSE UNCHANGED <<texture, uploaded, carried>>
  /\ UNCHANGED <<helperVars, memoryVars, messages, commands, hostVars, events,
                 tab, repaint, closed, inputs>>

\* Input over the picture; egui paints a frame for it.
UserInput ==
  /\ tab = "open" /\ ui = "idle"
  /\ texture # None /\ ~closed
  /\ inputs < MaxInputs
  /\ inputs' = inputs + 1
  /\ commands' = IF process = "running" THEN Append(commands, "Input") ELSE commands
  /\ repaint' = TRUE
  /\ UNCHANGED <<helperVars, memoryVars, messages, hostVars, events,
                 tab, ui, latest, texture, uploaded, closed, carried>>

\* close_tab: the tab leaves the window, and shutdown tells the helper...
CloseTab ==
  /\ tab = "open" /\ ui = "idle"
  /\ tab' = "closing"
  /\ commands' = IF process = "running" THEN Append(commands, "Shutdown") ELSE commands
  /\ UNCHANGED <<helperVars, memoryVars, messages, hostVars, events,
                 ui, repaint, latest, texture, uploaded, closed, inputs, carried>>

\* Mutant: the helper is only asked to go.
DropTabWithoutKill ==
  /\ tab = "closing"
  /\ tab' = "gone"
  /\ events' = <<>>
  /\ latest' = None
  /\ texture' = None
  /\ uploaded' = 0
  /\ carried' = FALSE
  /\ UNCHANGED <<helperVars, memoryVars, messages, commands, hostVars,
                 ui, repaint, closed, inputs>>

\* ...and drop kills a helper that has not gone by itself.  Its file stays.
DropTab ==
  /\ tab = "closing"
  /\ tab' = "gone"
  /\ IF process = "running"
     THEN EndProcess
     ELSE UNCHANGED <<process, main, task, commands>>
  /\ events' = <<>>
  /\ latest' = None
  /\ texture' = None
  /\ uploaded' = 0
  /\ carried' = FALSE
  /\ UNCHANGED <<desktop, mapping, updates, resizes, memoryVars, messages, hostVars,
                 ui, repaint, closed, inputs>>

------------------------------------------------------------------------------

\* What the server, the user and the operating system may do or not do.
Environment ==
  \/ Connects \/ ConnectFails
  \/ ServerDraws
  \/ \E size \in Sizes : ServerResizes(size) \/ FitFails(size)
  \/ ServerFails \/ PublishFails \/ AskFails
  \/ Crash
  \/ UserInput
  \/ CloseTab

ReadingTask == Announce \/ PublishFrame \/ TellFrame
MainTask == TakeCommand \/ FinishCommand \/ Leave
ReaderThread == \/ TakeReady \/ TakeFrame \/ FinishCopy \/ SendFrame \/ TakeResized \/ TakeEnd
                \/ Wake \/ SendClosed \/ LastWake
Tab == BeginPump \/ TakeEvent \/ EndPump \/ DropTab

Next == Environment \/ ReadingTask \/ MainTask \/ ReaderThread \/ Tab

\* Tasks and threads are scheduled; a repaint that was asked for is painted.
\* Nothing is assumed of the server, of the user or of crashes.
Fairness ==
  /\ WF_vars(ReadingTask)
  /\ WF_vars(MainTask)
  /\ WF_vars(ReaderThread)
  /\ WF_vars(Tab)

Spec == Init /\ [][Next]_vars /\ Fairness

------------------------------------------------------------------------------
(* Properties                                                              *)

AllSizes == Sizes \cup {FirstSize}
Generations == 0 .. MaxUpdates
FrameMessages == [type : {"Frame"}, generation : Generations, size : AllSizes]
Pictures == {None, Torn} \cup {Picture(m, g) : m \in Mappings, g \in Generations}
MessagesOf == {Closed} \cup {Ready(m) : m \in Mappings}
                 \cup {Resized(size) : size \in AllSizes} \cup FrameMessages
EventsOf == {m \in MessagesOf : m.type # "Ready"}

\* Every variable stays in its domain; in particular no Ready ever reaches
\* the tab and the host never copies out of a mapping it has not opened.
TypeOK ==
  /\ process \in {"running", "ended"}
  /\ main \in {"connecting", "parked", "handling", "leaving"}
  /\ task \in {"unborn", "reading", "announcing", "filling", "telling", "ended"}
  /\ desktop \in AllSizes
  /\ mapping \in 0 .. MaxUpdates + 1
  /\ updates \in 0 .. MaxUpdates
  /\ resizes \in 0 .. MaxResizes
  /\ slotSize \in [Mappings -> AllSizes \cup {0}]
  /\ published \in [Mappings -> Generations]
  /\ files \subseteq Mappings
  /\ messages \in Seq(MessagesOf)
  /\ commands \in Seq({"Input", "Shutdown"})
  /\ host \in {"reading", "copying", "sending", "waking", "closing", "lastWake", "ended"}
  /\ opened \in 0 .. mapping
  /\ host \in {"copying", "sending"} => copying.message \in FrameMessages /\ opened > 0
  /\ meta \in FrameMessages \cup {None}
  /\ pixels \in [content : Pictures, length : AllSizes \cup {0}]
  /\ events \in Seq(EventsOf)
  /\ tab \in {"open", "closing", "gone"}
  /\ ui \in {"idle", "pumping"}
  /\ {repaint, closed, carried} \subseteq BOOLEAN
  /\ latest \in FrameMessages \cup {None}
  /\ texture \in Pictures
  /\ uploaded \in Generations
  /\ inputs \in 0 .. MaxInputs

\* A session ends once: the tab is told at most once, nothing is reported
\* after it, and the thread that reports is finished by then.
ClosedIsLast ==
  /\ closed => events = <<>> /\ host \in {"lastWake", "ended"}
  /\ \A i \in DOMAIN events : events[i] = Closed =>
       i = Len(events) /\ host \in {"lastWake", "ended"}

\* A picture on screen is only ever replaced by a later one, or by none:
\* a later generation of the same mapping or any of a later mapping.
NeverBackInTime ==
  [][texture.kind = "picture" /\ texture'.kind = "picture" =>
       \/ texture'.mapping > texture.mapping
       \/ /\ texture'.mapping = texture.mapping
          /\ texture'.generation >= texture.generation]_texture

\* Both ends are up, the server is read, the tab has not been told otherwise.
Live == /\ process = "running" /\ task # "ended"
        /\ tab = "open" /\ ~closed /\ host \notin {"closing", "lastWake", "ended"}

\* The picture on screen is of the mapping the helper writes, and no older than
\* the number the tab counts.
UpToDate == /\ texture.kind = "picture"
            /\ texture.mapping = mapping /\ texture.generation >= uploaded

\* Once the server is quiet, the tab has counted the last frame, and shows that
\* picture, or a newer one, of the mapping in use: no frame is left in memory, in a
\* pipe or in the channel for want of a wake-up, although pictures come through one
\* way and their numbers through another, and numbers start again with a mapping.
\* The exception is a picture told before a change of size and uploaded after it,
\* in the same pump: the tab counts its number, which may hide the same number of
\* the new mapping.  NewestIsShown is without it.
CountCatchesUp ==
  <>[](Live /\ mapping > 0 =>
          /\ uploaded = published[mapping]
          /\ uploaded > 0 => texture = Torn \/ UpToDate \/ carried)

\* A helper that ends, however it ends, is noticed, once and after everything
\* else: a tab never goes quiet without saying so because its helper is gone.
EndIsShown ==
  /\ []ClosedIsLast
  /\ (process = "ended") ~> (closed \/ tab = "gone")

\* A closed tab leaves neither a helper nor a thread behind.
NothingLeftRunning == (tab = "closing") ~> (process = "ended" /\ host = "ended")

------------------------------------------------------------------------------
(* What comments promise and the code does not keep.                       *)

\* surface_tab.rs: "Only the newest is worth uploading".
NewestIsShown == <>[](Live /\ uploaded > 0 => texture = Torn \/ UpToDate)

\* surface_tab.rs: the texture is dropped "so a frame is never drawn stretched
\* across a resize it predates".
NeverAcrossAResize == texture # None => ~carried

\* helper-surface: "showing a torn frame is worse than skipping one".
TornIsNeverShown == texture # Torn

\* apps/bestterm-vnc: "The reading task ended, which means the session did.
\* It has already reported why".
EndOfReadingIsShown == (process = "running" /\ task = "ended") ~> (closed \/ tab = "gone")

==============================================================================
