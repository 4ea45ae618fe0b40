------------------------------ MODULE Ssh_proofs ------------------------------
(***************************************************************************)
(* The way to a server, and what runs over it once it is open.             *)
(*                                                                         *)
(* Logging in: a login tells every secret to its own hop only, whatever    *)
(* the plan, its ways in and the number of rounds.                         *)
(*                                                                         *)
(* Tunnels: for any number of connections, ports and forwards, what is     *)
(* listed runs over a connection with a window, and the registry routes    *)
(* nothing to a forward that was stopped.                                  *)
(***************************************************************************)
EXTENDS SshLogin, Tunnels, TLAPS

------------------------------------------------------------------------------
(* Logging in (SshLogin)                                                   *)

\* Opening a hop, once it has said yes, keeps what the invariant says of hops.
LEMMA AdmittedKeeps ==
  ASSUME LoginIInv, stage = "auth", Admitted,
         plan' = plan, accepted' = accepted, last' \in Refusals \cup {"none"},
         \A t \in told' : t \in told \/ t = [secret |-> plan[at].secret, to |-> at]
  PROVE  LoginIInv'
<1>1. at \in Nat /\ Len(plan) \in Nat
  BY PlansAssumption DEF LoginIInv
<1>2. CASE at < Len(plan)
  <2>1. at' = at + 1 /\ stage' = "dial" /\ outcome' = outcome /\ admitted' = admitted \cup {at}
    BY <1>2 DEF Admitted
  <2>2. at' \in 1 .. Len(plan) /\ 1 .. at' - 1 \subseteq admitted' /\ admitted' \subseteq 1 .. at'
        /\ accepted \subseteq 1 .. at' /\ at' \notin admitted'
    BY <1>1, <1>2, <2>1 DEF LoginIInv
  <2>3. outcome = "none"
    BY DEF LoginIInv
  <2>4. \A t \in told' : t.to \in accepted' /\ t.secret = plan'[t.to].secret
    BY DEF LoginIInv
  <2> QED
    BY <2>1, <2>2, <2>3, <2>4 DEF LoginIInv, Refusals
<1>3. CASE ~(at < Len(plan))
  <2>1. at' = at /\ at = Len(plan) /\ stage' = "over" /\ outcome' = "connected"
        /\ admitted' = admitted \cup {at}
    BY <1>1, <1>3 DEF Admitted, LoginIInv
  <2>2. \A t \in told' : t.to \in accepted' /\ t.secret = plan'[t.to].secret
    BY DEF LoginIInv
  <2> QED
    BY <1>1, <2>1, <2>2 DEF LoginIInv, Refusals
<1> QED
  BY <1>2, <1>3

\* Whoever is told the secret of the hop being opened is that hop.
LEMMA ToldAtMost ==
  ASSUME LoginIInv, Tell \/ UNCHANGED told
  PROVE  \A t \in told' : t \in told \/ t = [secret |-> plan[at].secret, to |-> at]
BY DEF Tell, SecretOf

\* What a hop was told stays right while its key stays accepted.
LEMMA ToldStaysRight ==
  ASSUME LoginIInv, stage = "auth", plan' = plan, accepted' = accepted,
         \A t \in told' : t \in told \/ t = [secret |-> plan[at].secret, to |-> at]
  PROVE  \A t \in told' : t.to \in accepted' /\ t.secret = plan'[t.to].secret
BY DEF LoginIInv

\* Hops are opened in order, each after its key was accepted, and none is told
\* anything but its own secret.
THEOREM LoginInvariance == LoginSpec => []LoginIInv
<1>1. LoginInit => LoginIInv
  BY PlansAssumption DEF LoginInit, LoginIInv, Refusals
<1>2. LoginIInv /\ [LoginNext]_loginVars => LoginIInv'
  <2> SUFFICES ASSUME LoginIInv, [LoginNext]_loginVars PROVE LoginIInv'
    OBVIOUS
  <2>0. at \in Nat /\ Len(plan) \in Nat
    BY PlansAssumption DEF LoginIInv
  <2>1. CASE Unreachable \/ KeyRejected
    BY <2>1 DEF Unreachable, KeyRejected, Fail, LoginIInv, Refusals
  <2>2. CASE KeyAccepted
    <3>1. /\ stage' = "auth" /\ at' = at /\ plan' = plan /\ told' = told /\ admitted' = admitted
          /\ accepted' = accepted \cup {at} /\ last' = "none" /\ outcome' = outcome
          /\ stage = "dial"
      BY <2>2 DEF KeyAccepted
    <3>2. accepted' \subseteq 1 .. at'
      <4>1. at \in 1 .. at
        BY <2>0 DEF LoginIInv
      <4>2. accepted \subseteq 1 .. at
        BY DEF LoginIInv
      <4> QED
        BY <3>1, <4>1, <4>2
    <3>3. \A s \in told' : s.to \in accepted' /\ s.secret = plan'[s.to].secret
      BY <3>1 DEF LoginIInv
    <3>4. at \notin admitted /\ outcome = "none"
      BY <3>1 DEF LoginIInv
    <3>5. at' \in accepted'
      BY <3>1
    <3> QED
      BY <3>1, <3>2, <3>3, <3>4, <3>5 DEF LoginIInv, Refusals
  <2>3. CASE Offer
    <3>1. \A t \in told' : t \in told \/ t = [secret |-> plan[at].secret, to |-> at]
      BY <2>3, ToldAtMost DEF Offer
    <3>2. CASE Admitted
      BY <2>3, <3>1, <3>2, AdmittedKeeps DEF Offer, LoginIInv
    <3>3. CASE UNCHANGED admitted /\ \E answer \in Refusals : Fail(answer)
      BY <2>3, <3>1, <3>3, ToldStaysRight DEF Offer, Fail, LoginIInv, Refusals
    <3> QED
      BY <2>3, <3>2, <3>3 DEF Offer
  <2>4. CASE KeyUnreadable
    BY <2>4 DEF KeyUnreadable, Fail, LoginIInv, Refusals
  <2>5. CASE AgentEmpty
    BY <2>5 DEF AgentEmpty, Fail, LoginIInv, Refusals
  <2>6. CASE SkipCertificate
    BY <2>6 DEF SkipCertificate, LoginIInv
  <2>7. CASE OfferIdentity
    <3>1. \A t \in told' : t \in told \/ t = [secret |-> plan[at].secret, to |-> at]
      BY <2>7, ToldAtMost DEF OfferIdentity
    <3>2. CASE Admitted /\ UNCHANGED last
      BY <2>7, <3>1, <3>2, AdmittedKeeps DEF OfferIdentity, LoginIInv
    <3>3. CASE last' \in Refusals /\ UNCHANGED <<at, stage, admitted, outcome>>
      BY <2>7, <3>1, <3>3, ToldStaysRight DEF OfferIdentity, LoginIInv
    <3> QED
      BY <2>7, <3>2, <3>3 DEF OfferIdentity
  <2>8. CASE Settled
    <3>1. CASE Admitted
      BY <2>8, <3>1, AdmittedKeeps DEF Settled, Asking, LoginIInv
    <3>2. CASE UNCHANGED admitted /\ \E answer \in Refusals : Fail(answer)
      BY <2>8, <3>2 DEF Settled, Asking, Fail, LoginIInv, Refusals
    <3> QED
      BY <2>8, <3>1, <3>2 DEF Settled
  <2>9. CASE Answered
    <3>1. \A t \in told' : t.to \in accepted' /\ t.secret = plan'[t.to].secret
      BY <2>9, ToldAtMost, ToldStaysRight DEF Answered, Asking
    <3> QED
      BY <2>9, <3>1 DEF Answered, Asking, LoginIInv
  <2>10. CASE NotAnswered
    BY <2>10 DEF NotAnswered, Asking, Fail, LoginIInv, Refusals
  <2>11. CASE TooManyRounds
    BY <2>0, <2>11 DEF TooManyRounds, Asking, Fail, LoginIInv, Refusals
  <2>12. CASE HungUp
    BY <2>0, <2>12 DEF HungUp, Fail, LoginIInv, Refusals
  <2>13. CASE UNCHANGED loginVars
    BY <2>13 DEF loginVars, LoginIInv
  <2> QED
    BY <2>1, <2>2, <2>3, <2>4, <2>5, <2>6, <2>7, <2>8, <2>9, <2>10, <2>11, <2>12, <2>13 DEF LoginNext
<1> QED
  BY <1>1, <1>2, PTL DEF LoginSpec

\* No server hears a secret that is another's, or before its key was accepted or
\* the way to it was logged in to; and no yes is reported as a refusal.
THEOREM NothingIsToldToOthers == LoginSpec => []SecretsStayWithTheirHop
<1>1. LoginIInv => SecretsStayWithTheirHop
  <2> SUFFICES ASSUME LoginIInv PROVE SecretsStayWithTheirHop
    OBVIOUS
  <2>1. at \in Nat /\ Len(plan) \in Nat /\ DOMAIN plan = 1 .. Len(plan)
    BY PlansAssumption DEF LoginIInv
  <2>2. \A t \in told : t.to \in 1 .. at /\ 1 .. t.to - 1 \subseteq 1 .. at - 1
    <3> TAKE t \in told
    <3>1. t.to \in 1 .. at
      BY DEF LoginIInv
    <3> QED
      BY <2>1, <3>1
  <2>3. outcome = "connected" => admitted = DOMAIN plan
    <3> SUFFICES ASSUME outcome = "connected" PROVE admitted = 1 .. Len(plan)
      BY <2>1
    <3>1. at = Len(plan) /\ at \in admitted /\ admitted \subseteq 1 .. at
      BY DEF LoginIInv
    <3>2. \A n \in 1 .. at : n = at \/ n \in 1 .. at - 1
      BY <2>1
    <3>3. 1 .. at - 1 \subseteq admitted
      BY DEF LoginIInv
    <3> QED
      BY <3>1, <3>2, <3>3
  <2> QED
    BY <2>2, <2>3 DEF LoginIInv, SecretsStayWithTheirHop
<1> QED
  BY <1>1, LoginInvariance, PTL

------------------------------------------------------------------------------
(* Tunnels                                                                 *)

\* The list of connections is the windows there are, and the one that is
\* being closed; what is asked for runs over a connection with a window,
\* which cannot close while the interface waits for the answer.
WindowsAreListed ==
  /\ connections \subseteq tabs \cup {leaving}
  /\ \A t \in requesting : t.over \in tabs

IInv == TypeOK /\ WindowsAreListed /\ TunnelsHaveAWindow /\ ClaimsAreLive

LEMMA InitIInv == Init => IInv
  <1> SUFFICES ASSUME Init PROVE IInv
    OBVIOUS
  <1>1. TypeOK
    BY MaxTunnelsAssumption DEF Init, TypeOK
  <1> QED
    BY <1>1 DEF Init, IInv, WindowsAreListed, TunnelsHaveAWindow, ClaimsAreLive

\* What the registry holds after a port was claimed, or given up.
LEMMA RegistryAfter ==
  ASSUME claims \in [Connections -> [Ports -> SUBSET Tunnel]], NEW t \in Tunnel,
         Register(t) \/ Deregister(t)
  PROVE  /\ claims' \in [Connections -> [Ports -> SUBSET Tunnel]]
         /\ claims'[t.over][t.port] = IF Register(t) THEN {t} ELSE {}
         /\ \A c \in Connections, p \in Ports :
              c # t.over \/ p # t.port => claims'[c][p] = claims[c][p]
  <1>1. t.over \in Connections /\ t.port \in Ports
    BY DEF Tunnel
  <1>2. CASE Register(t)
    BY <1>1, <1>2 DEF Register
  <1>3. CASE Deregister(t) /\ ~Register(t)
    BY <1>1, <1>3 DEF Deregister
  <1> QED
    BY <1>2, <1>3

\* Giving up the port of t leaves no claim of t, wherever one might be.
LEMMA NoClaimIsLeft ==
  ASSUME TypeOK, ClaimsAreLive, NEW t \in Tunnel, Deregister(t)
  PROVE  \A c \in Connections, p \in Ports : \A u \in claims'[c][p] :
           /\ u # t
           /\ u \in claims[c][p]
  <1>1. /\ claims'[t.over][t.port] = {}
        /\ \A c \in Connections, p \in Ports :
             c # t.over \/ p # t.port => claims'[c][p] = claims[c][p]
    <2>1. t.over \in Connections /\ t.port \in Ports
      BY DEF Tunnel
    <2> QED
      BY <2>1 DEF Deregister, TypeOK
  <1> QED
    BY <1>1 DEF ClaimsAreLive

\* Every step keeps to the types.
LEMMA TypeStep == TypeOK /\ [Next]_vars => TypeOK'
  <1> SUFFICES ASSUME TypeOK, [Next]_vars PROVE TypeOK'
    OBVIOUS
  <1> USE MaxTunnelsAssumption DEF TypeOK, uiVars, runtimeVars
  <1>1. ASSUME NEW c \in Connections,
               OpenTab(c) \/ Choose(c) \/ Preselect(c) \/ CloseTab(c) \/ Retire(c) \/ End(c)
        PROVE  TypeOK'
    <2>1. /\ {tabs, connections, opened, alive}' \subseteq SUBSET Connections
          /\ {over, leaving}' \subseteq Connections \cup {None}
      BY <1>1 DEF OpenTab, Choose, Preselect, CloseTab, StopAllOver, Retire, End
    <2>2. {running, requesting, closing, listeners, flows, serving}' \subseteq SUBSET Tunnel
      BY <1>1 DEF OpenTab, Choose, Preselect, CloseTab, StopAllOver, Retire, End
    <2>3. claims' = claims /\ started' = started
      BY <1>1 DEF OpenTab, Choose, Preselect, CloseTab, StopAllOver, Retire, End
    <2> QED
      BY <2>1, <2>2, <2>3
  <1>2. ASSUME NEW t \in Tunnel, StartLocal(t) \/ RequestRemote(t) \/ Denied(t) \/ CloseOne(t)
        PROVE  TypeOK'
    <2>1. claims' \in [Connections -> [Ports -> SUBSET Tunnel]]
      BY <1>2, RegistryAfter
         DEF StartLocal, RequestRemote, Denied, CloseOne
    <2> QED
      BY <1>2, <2>1 DEF StartLocal, RequestRemote, Denied, CloseOne, Asked
  <1>3. ASSUME NEW t \in Tunnel,
               \/ Granted(t) \/ Stop(t) \/ Release(t)
               \/ AcceptLocal(t) \/ AcceptRemote(t) \/ FlowEnds(t)
        PROVE  TypeOK'
    <2>1. flows' \in SUBSET Tunnel
      BY <1>3 DEF Granted, Stop, Release, AcceptLocal, AcceptRemote, FlowEnds
    <2> QED
      BY <1>3, <2>1 DEF Granted, Stop, Release, AcceptLocal, AcceptRemote, FlowEnds
  <1>4. CASE UNCHANGED vars
    BY <1>4 DEF vars
  <1> QED
    BY <1>1, <1>2, <1>3, <1>4 DEF Next

\* Every step keeps the windows in the list, and the list to the windows.
LEMMA WindowStep == IInv /\ [Next]_vars => (WindowsAreListed /\ TunnelsHaveAWindow)'
  <1> SUFFICES ASSUME IInv, [Next]_vars PROVE (WindowsAreListed /\ TunnelsHaveAWindow)'
    OBVIOUS
  <1> USE DEF IInv, WindowsAreListed, TunnelsHaveAWindow, uiVars, runtimeVars
  <1>1. ASSUME NEW c \in Connections, OpenTab(c) \/ Choose(c) \/ Preselect(c) \/ Retire(c) \/ End(c)
        PROVE  (WindowsAreListed /\ TunnelsHaveAWindow)'
    BY <1>1 DEF OpenTab, Choose, Preselect, Retire, End, Idle
  <1>2. ASSUME NEW c \in Connections, CloseTab(c)
        PROVE  (WindowsAreListed /\ TunnelsHaveAWindow)'
    <2>1. leaving = None /\ None \notin connections /\ requesting = {}
      BY <1>2, NoneAssumption DEF CloseTab, Idle, TypeOK
    <2>2. connections' \subseteq tabs' \cup {leaving'}
      BY <1>2, <2>1 DEF CloseTab
    <2> QED
      BY <1>2, <2>1, <2>2 DEF CloseTab, StopAllOver
  <1>3. ASSUME NEW t \in Tunnel, StartLocal(t) \/ RequestRemote(t)
        PROVE  (WindowsAreListed /\ TunnelsHaveAWindow)'
    <2>1. t.over \in tabs
      BY <1>3, NoneAssumption DEF StartLocal, RequestRemote, Asked, Idle, TypeOK, Tunnel
    <2> QED
      BY <1>3, <2>1 DEF StartLocal, RequestRemote
  <1>4. ASSUME NEW t \in Tunnel,
               \/ Granted(t) \/ Denied(t) \/ Stop(t) \/ CloseOne(t) \/ Release(t)
               \/ AcceptLocal(t) \/ AcceptRemote(t) \/ FlowEnds(t)
        PROVE  (WindowsAreListed /\ TunnelsHaveAWindow)'
    BY <1>4 DEF Granted, Denied, Stop, CloseOne, Release, AcceptLocal, AcceptRemote, FlowEnds
  <1>5. CASE UNCHANGED vars
    BY <1>5 DEF vars
  <1> QED
    BY <1>1, <1>2, <1>3, <1>4, <1>5 DEF Next

\* Every step keeps the registry to the forwards that may be delivered to.
LEMMA ClaimStep == IInv /\ [Next]_vars => ClaimsAreLive'
  <1> SUFFICES ASSUME IInv, [Next]_vars PROVE ClaimsAreLive'
    OBVIOUS
  <1> USE DEF IInv, uiVars, runtimeVars
  <1>1. ASSUME NEW c \in Connections,
               OpenTab(c) \/ Choose(c) \/ Preselect(c) \/ CloseTab(c) \/ Retire(c) \/ End(c)
        PROVE  ClaimsAreLive'
    <2>1. claims' = claims /\ running \cup closing \cup requesting
                               \subseteq (running \cup closing \cup requesting)'
      BY <1>1 DEF OpenTab, Choose, Preselect, CloseTab, StopAllOver, Retire, End, Idle
    <2> QED
      BY <2>1 DEF ClaimsAreLive
  <1>2. ASSUME NEW t \in Tunnel,
               \/ StartLocal(t) \/ Granted(t) \/ Stop(t) \/ Release(t)
               \/ AcceptLocal(t) \/ AcceptRemote(t) \/ FlowEnds(t)
        PROVE  ClaimsAreLive'
    <2>1. claims' = claims /\ running \cup closing \cup requesting
                               \subseteq (running \cup closing \cup requesting)'
      BY <1>2 DEF StartLocal, Granted, Stop, Release, AcceptLocal, AcceptRemote, FlowEnds, Idle
    <2> QED
      BY <2>1 DEF ClaimsAreLive
  <1>3. ASSUME NEW t \in Tunnel, RequestRemote(t)
        PROVE  ClaimsAreLive'
    <2>1. /\ claims'[t.over][t.port] = {t}
          /\ \A c \in Connections, p \in Ports :
               c # t.over \/ p # t.port => claims'[c][p] = claims[c][p]
      BY <1>3, RegistryAfter DEF RequestRemote, TypeOK
    <2>2. requesting = {} /\ requesting' = {t} /\ t.kind = "remote"
          /\ running' = running /\ closing' = closing
      BY <1>3 DEF RequestRemote, Asked, Idle
    <2> QED
      BY <2>1, <2>2 DEF ClaimsAreLive
  <1>4. ASSUME NEW t \in Tunnel, Denied(t)
        PROVE  ClaimsAreLive'
    <2>1. \A c \in Connections, p \in Ports : \A u \in claims'[c][p] : u # t /\ u \in claims[c][p]
      BY <1>4, NoClaimIsLeft DEF Denied
    <2>2. running' = running /\ closing' = closing /\ requesting' = requesting \ {t}
      BY <1>4 DEF Denied
    <2> QED
      BY <2>1, <2>2 DEF ClaimsAreLive
  <1>5. ASSUME NEW t \in Tunnel, CloseOne(t)
        PROVE  ClaimsAreLive'
    <2>1. running' = running /\ requesting' = requesting /\ closing' = closing \ {t}
      BY <1>5 DEF CloseOne
    <2>2. CASE t.kind = "local" /\ claims' = claims
      BY <2>1, <2>2 DEF ClaimsAreLive
    <2>3. CASE Deregister(t)
      <3>1. \A c \in Connections, p \in Ports : \A u \in claims'[c][p] : u # t /\ u \in claims[c][p]
        BY <2>3, NoClaimIsLeft
      <3> QED
        BY <2>1, <3>1 DEF ClaimsAreLive
    <2> QED
      BY <1>5, <2>2, <2>3 DEF CloseOne
  <1>6. CASE UNCHANGED vars
    BY <1>6 DEF vars, ClaimsAreLive
  <1> QED
    BY <1>1, <1>2, <1>3, <1>4, <1>5, <1>6 DEF Next

\* The strengthening is an invariant of the specification: no order of clicks,
\* of the server's answers and of sessions ending breaks it.
THEOREM Invariance == Spec => []IInv
  <1>1. IInv /\ [Next]_vars => IInv'
    BY TypeStep, WindowStep, ClaimStep DEF IInv
  <1> QED
    BY InitIInv, <1>1, PTL DEF Spec

\* The variables keep to their types (the state TunnelState, ForwardRegistry
\* and the connections of BestTermApp can be in).
THEOREM TypeCorrect == Spec => []TypeOK
  BY Invariance, PTL DEF IInv

\* close_tab stops what runs over the connection and tunnel_window starts
\* nothing over one that has gone, so that a listed forward has a window.
THEOREM ListedHaveAWindow == Spec => []TunnelsHaveAWindow
  BY Invariance, PTL DEF IInv

\* ForwardRegistry never routes to a forward that was stopped.
THEOREM RoutedToTheLiving == Spec => []ClaimsAreLive
  BY Invariance, PTL DEF IInv

===============================================================================
