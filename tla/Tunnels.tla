------------------------------- MODULE Tunnels -------------------------------
(***************************************************************************)
(* Port forwarding over the SSH connections the application holds:         *)
(*                                                                         *)
(*   crates/app-ui/tunnels.rs      the window: what is running, over which *)
(*                                 connection, and how it is stopped;      *)
(*   crates/app-ui/lib.rs          the tabs and the connections they hold; *)
(*   crates/proto-ssh/forward.rs   the listeners, the tasks that carry     *)
(*                                 connections, and the registry that      *)
(*                                 routes what the server hands back.      *)
(*                                                                         *)
(* The interface is one thread and waits, inside start and close, for what *)
(* it asked of the server; the forwards' tasks and the sessions run on the *)
(* runtime meanwhile.  A connection is an Arc: its session ends when the   *)
(* last holder lets go of it.                                              *)
(***************************************************************************)
EXTENDS Naturals

CONSTANTS Connections,   \* ConnectionId, one for each session that is opened
          Ports,         \* port numbers, here and on the servers
          Addresses,     \* what a remote forward may bind on the server
          None,          \* nothing
          MaxTunnels     \* bound: forwards started

ASSUME MaxTunnelsAssumption == MaxTunnels \in Nat
ASSUME NoneAssumption == None \notin Connections

\* A forward, whatever became of it.  A local and a dynamic one differ in who
\* names the destination, which is nobody's business here.
Tunnel == [number : 1 .. MaxTunnels, kind : {"local", "remote"}, over : Connections,
           address : Addresses, port : Ports]

VARIABLES
  \* the interface
  tabs,        \* the connections with a window
  connections, \* BestTermApp::connections
  opened,      \* those that ever were: an id is never reused
  over,        \* TunnelForm::over
  running,     \* TunnelState::running
  requesting,  \* the remote forward open_remote_forward is waiting about
  closing,     \* the forwards being closed, one after the other
  leaving,     \* the connection whose last window close_tab is closing
  started,     \* how many forwards were ever started
  \* the runtime
  alive,       \* the connections whose session is up
  listeners,   \* the forwards whose task holds a listening socket
  claims,      \* ForwardRegistry, per connection and port
  flows,       \* the forwards with a connection in flight
  \* the servers
  serving      \* the remote forwards they listen for

uiVars == <<tabs, connections, opened, over, running, requesting, closing, leaving, started>>
runtimeVars == <<alive, listeners, claims, flows>>
vars == <<tabs, connections, opened, over, running, requesting, closing, leaving, started,
          alive, listeners, claims, flows, serving>>

Init ==
  /\ tabs = {}
  /\ connections = {}
  /\ opened = {}
  /\ over = None
  /\ running = {}
  /\ requesting = {}
  /\ closing = {}
  /\ leaving = None
  /\ started = 0
  /\ alive = {}
  /\ listeners = {}
  /\ claims = [c \in Connections |-> [p \in Ports |-> {}]]
  /\ flows = {}
  /\ serving = {}

\* The interface thread does nothing else while it waits for the server.
Idle == requesting = {} /\ closing = {} /\ leaving = None

\* Two sockets of this machine, or two of one server, have no address in common.
SamePlace(t, u) ==
  /\ t.kind = u.kind
  /\ t.port = u.port
  /\ t.kind = "remote" => t.over = u.over /\ t.address = u.address

Free(t) == \A u \in listeners \cup serving : ~SamePlace(t, u)

------------------------------------------------------------------------------
(* The interface                                                           *)

\* drain_sessions: a session was opened, and has its tab.
OpenTab(c) ==
  /\ Idle
  /\ c \notin opened
  /\ opened' = opened \cup {c}
  /\ tabs' = tabs \cup {c}
  /\ connections' = connections \cup {c}
  /\ alive' = alive \cup {c}
  /\ UNCHANGED <<over, running, requesting, closing, leaving, started, listeners, claims, flows, serving>>

\* The form's choice of session; it stays when the session goes.
Choose(c) ==
  /\ Idle
  /\ c \in connections
  /\ over' = c
  /\ UNCHANGED <<tabs, connections, opened, running, requesting, closing, leaving, started,
                 runtimeVars, serving>>

\* The window is opened, and there is only one to choose from.
Preselect(c) ==
  /\ Idle
  /\ over = None
  /\ connections = {c}
  /\ over' = c
  /\ UNCHANGED <<tabs, connections, opened, running, requesting, closing, leaving, started,
                 runtimeVars, serving>>

\* Mutant: the connection the form names is taken at its word.
AskedOfAnything(t) ==
  /\ Idle
  /\ started < MaxTunnels
  /\ t.number = started + 1
  /\ t.over = over
  /\ started' = started + 1

\* tunnel_window looks the connection up again before it starts anything.
Asked(t) ==
  /\ Idle
  /\ started < MaxTunnels
  /\ t.number = started + 1
  /\ t.over = over
  /\ over \in connections
  /\ started' = started + 1

\* open_local_forward and open_dynamic_forward: nothing but a socket here.
StartLocal(t) ==
  /\ t.kind = "local"
  /\ Asked(t)
  /\ Free(t)
  /\ listeners' = listeners \cup {t}
  /\ running' = running \cup {t}
  /\ UNCHANGED <<tabs, connections, opened, over, requesting, closing, leaving,
                 alive, claims, flows, serving>>

\* Mutant: the registry is left as it was.
KeepClaim(t) == claims' = claims

\* ForwardRegistry::register and deregister.
Register(t) == claims' = [claims EXCEPT ![t.over][t.port] = {t}]
Deregister(t) == claims' = [claims EXCEPT ![t.over][t.port] = {}]

\* open_remote_forward claims the port, and asks.
RequestRemote(t) ==
  /\ t.kind = "remote"
  /\ Asked(t)
  /\ requesting' = {t}
  /\ Register(t)
  /\ UNCHANGED <<tabs, connections, opened, over, running, closing, leaving,
                 alive, listeners, flows, serving>>

\* The server listens.
Granted(t) ==
  /\ t \in requesting
  /\ t.over \in alive
  /\ Free(t)
  /\ serving' = serving \cup {t}
  /\ running' = running \cup {t}
  /\ requesting' = requesting \ {t}
  /\ UNCHANGED <<tabs, connections, opened, over, closing, leaving, started, runtimeVars>>

\* It will not, or is gone: the port is given up.
Denied(t) ==
  /\ t \in requesting
  /\ requesting' = requesting \ {t}
  /\ Deregister(t)
  /\ UNCHANGED <<tabs, connections, opened, over, running, closing, leaving, started,
                 alive, listeners, flows, serving>>

\* TunnelState::stop.
Stop(t) ==
  /\ Idle
  /\ t \in running
  /\ running' = running \ {t}
  /\ closing' = {t}
  /\ UNCHANGED <<tabs, connections, opened, over, requesting, leaving, started, runtimeVars, serving>>

\* close: dropping a local forward aborts its task, and that is all; the
\* server is asked to cancel a remote one before its port is given up.
CloseOne(t) ==
  /\ t \in closing
  /\ \A u \in closing : t.number <= u.number
  /\ closing' = closing \ {t}
  /\ \/ /\ t.kind = "local"
        /\ UNCHANGED <<claims, serving>>
     \/ /\ t.kind = "remote"
        /\ Deregister(t)
        /\ serving' = serving \ {t}
     \/ /\ t.kind = "remote"      \* the server would not cancel
        /\ Deregister(t)
        /\ UNCHANGED serving
  /\ UNCHANGED <<tabs, connections, opened, over, running, requesting, leaving, started,
                 alive, listeners, flows>>

\* Mutant: only the listeners of this machine are stopped.
StopLocalOver(c) ==
  /\ closing' = {t \in running : t.over = c /\ t.kind = "local"}
  /\ running' = {t \in running : t.over # c \/ t.kind = "remote"}

\* stop_all_over: what runs over c, and what does not.
StopAllOver(c) ==
  /\ closing' = {t \in running : t.over = c}
  /\ running' = {t \in running : t.over # c}

\* close_tab, on the one tab of a connection ...
CloseTab(c) ==
  /\ Idle
  /\ c \in tabs
  /\ tabs' = tabs \ {c}
  /\ leaving' = c
  /\ StopAllOver(c)
  /\ UNCHANGED <<connections, opened, over, requesting, started, runtimeVars, serving>>

\* ... which leaves the list once nothing is left to close.
Retire(c) ==
  /\ c = leaving
  /\ closing = {}
  /\ leaving' = None
  /\ connections' = connections \ {c}
  /\ UNCHANGED <<tabs, opened, over, running, requesting, closing, started, runtimeVars, serving>>

------------------------------------------------------------------------------
(* The runtime, and the servers                                            *)

\* An aborted task is dropped, and its socket with it.
Release(t) ==
  /\ t \in listeners
  /\ t \notin running \cup closing
  /\ listeners' = listeners \ {t}
  /\ UNCHANGED <<uiVars, alive, claims, flows, serving>>

\* A connection to a listener of this machine gets a task of its own, and a
\* channel if the session is still up.
AcceptLocal(t) ==
  /\ t \in listeners
  /\ t.over \in alive
  /\ flows' = flows \cup {t}
  /\ UNCHANGED <<uiVars, alive, listeners, claims, serving>>

\* server_channel_open_forwarded_tcpip: whoever has claimed the port.
AcceptRemote(s) ==
  /\ s \in serving
  /\ \E t \in claims[s.over][s.port] \cap (running \cup closing) : flows' = flows \cup {t}
  /\ UNCHANGED <<uiVars, alive, listeners, claims, serving>>

\* Either end closes.
FlowEnds(t) ==
  /\ t \in flows
  /\ flows' = flows \ {t}
  /\ UNCHANGED <<uiVars, alive, listeners, claims, serving>>

\* Who has a share in a connection: its tab, the list, a remote forward, the
\* task of a local one, and every connection that task carries.
Held(c) ==
  \/ c \in tabs \cup connections
  \/ \E t \in running \cup closing \cup requesting : t.over = c /\ t.kind = "remote"
  \/ \E t \in listeners \cup flows : t.over = c /\ t.kind = "local"

\* A session ends: nothing is forwarded over it any more, in either direction.
End(c) ==
  /\ c \in alive
  /\ alive' = alive \ {c}
  /\ flows' = {t \in flows : t.over # c}
  /\ serving' = {t \in serving : t.over # c}
  /\ UNCHANGED <<uiVars, listeners, claims>>

LetGo(c) == ~Held(c) /\ End(c)

------------------------------------------------------------------------------

Next ==
  \/ \E c \in Connections :
       OpenTab(c) \/ Choose(c) \/ Preselect(c) \/ CloseTab(c) \/ Retire(c) \/ End(c)
  \/ \E t \in Tunnel :
       \/ StartLocal(t) \/ RequestRemote(t) \/ Granted(t) \/ Denied(t) \/ Stop(t) \/ CloseOne(t)
       \/ Release(t) \/ AcceptLocal(t) \/ AcceptRemote(t) \/ FlowEnds(t)

\* What the interface and the runtime get done: a server answers or its
\* session ends (start and close have no timeout of their own), an aborted
\* task is dropped, and so is a session nobody holds.  Nothing makes a
\* connection in flight end.
Fairness ==
  /\ WF_vars(\E t \in Tunnel : CloseOne(t))
  /\ WF_vars(\E c \in Connections : Retire(c))
  /\ WF_vars(\E t \in Tunnel : Granted(t) \/ Denied(t))
  /\ \A t \in Tunnel : WF_vars(Release(t))
  /\ \A c \in Connections : WF_vars(LetGo(c))

Spec == Init /\ [][Next]_vars /\ Fairness

------------------------------------------------------------------------------
(* What should hold                                                        *)

\* Every variable keeps to the values the code can give it.
TypeOK ==
  /\ {tabs, connections, opened, alive} \subseteq SUBSET Connections
  /\ {running, requesting, closing, listeners, flows, serving} \subseteq SUBSET Tunnel
  /\ claims \in [Connections -> [Ports -> SUBSET Tunnel]]
  /\ {over, leaving} \subseteq Connections \cup {None}
  /\ started \in 0 .. MaxTunnels

\* A forward in the list runs over a connection that has a window: the form
\* remembers a connection long after its tab, and close_tab stops what runs.
TunnelsHaveAWindow == \A t \in running : t.over \in tabs

\* What a server hands back is never routed to a forward that was stopped or
\* never granted, nor across connections, whichever forwards came and went on
\* the port.
ClaimsAreLive ==
  \A c \in Connections, p \in Ports : \A t \in claims[c][p] :
    /\ t.over = c /\ t.port = p /\ t.kind = "remote"
    /\ t \in running \cup closing \cup requesting

\* Once its window is closed a session ends, unless it is still carrying a
\* connection that was open by then.
ClosedIsLetGo ==
  \A c \in Connections :
    (c \in opened \ tabs) ~> (c \notin alive \/ \E t \in flows : t.over = c)

\* What register's comment promises, that "a second claim means the first is
\* gone": a forward that is listed, and that the server does listen for, has
\* its connections delivered to it.
ListedIsRouted ==
  Idle => \A t \in running \cap serving : claims[t.over][t.port] = {t}

==============================================================================
