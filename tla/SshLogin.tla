------------------------------ MODULE SshLogin ------------------------------
(***************************************************************************)
(* Logging in to a server, through others on the way                       *)
(* (crates/proto-ssh/src: transport.rs connect, connect_via; auth.rs).     *)
(* Each hop is a connection of its own inside the one before: its own key  *)
(* to be accepted and its own way in.  The servers, the agent and whoever  *)
(* answers the questions may do as they like, and hang up.                 *)
(***************************************************************************)
EXTENDS Naturals, Sequences

CONSTANTS
  Plans,        \* the hops of a connection, each with its way in, the last of them the destination
  MaxRounds     \* MAX_INTERACTIVE_ROUNDS, 32 in the program

ASSUME LoginAssumption == MaxRounds \in Nat \ {0}
\* There is a destination, which may be all there is.
ASSUME PlansAssumption ==
  \A p \in Plans : Len(p) \in Nat \ {0} /\ DOMAIN p = 1 .. Len(p)

NoAuth == [kind |-> "none"]
Password == [kind |-> "password"]
KeyFile(readable) == [kind |-> "key", readable |-> readable]
\* What the agent holds: keys, and certificates, which are not offered.
AgentWith(identities) == [kind |-> "agent", identities |-> identities]
Interactive == [kind |-> "interactive"]

VARIABLES
  plan,
  at,         \* the hop that is being opened; those before it are held open
  stage,      \* "dial", "auth" or "over"
  accepted,   \* hops whose key was accepted
  admitted,   \* hops whose server said yes
  told,       \* what each server was told: whose secret, and to which hop
  offers,     \* identities of the agent not offered yet
  rounds,     \* rounds of questions answered
  last,       \* the last refusal
  outcome
loginVars == <<plan, at, stage, accepted, admitted, told, offers, rounds, last, outcome>>

Refusals == {"failed", "further"}

LoginInit ==
  /\ plan \in Plans /\ at = 1 /\ stage = "dial"
  /\ accepted = {} /\ admitted = {} /\ told = {}
  /\ offers = <<>> /\ rounds = 0 /\ last = "none" /\ outcome = "none"

Auth == plan[at].auth

\* The first error is the answer, and every connection that was open is let go of.
Fail(error) == stage' = "over" /\ outcome' = error /\ UNCHANGED at

\* Mutant: the credentials are the destination's, whatever the hop.
DestinationAuth(hop) == plan[Len(plan)].secret

SecretOf(hop) == plan[hop].secret

\* The socket, or a channel through the hop before, and then the key.
Unreachable ==
  /\ stage = "dial" /\ Fail("io")
  /\ UNCHANGED <<plan, accepted, admitted, told, offers, rounds, last>>
KeyRejected ==
  /\ stage = "dial" /\ Fail("key rejected")
  /\ UNCHANGED <<plan, accepted, admitted, told, offers, rounds, last>>
KeyAccepted ==
  /\ stage = "dial"
  /\ stage' = "auth" /\ accepted' = accepted \cup {at}
  /\ rounds' = 0 /\ last' = "none"
  /\ offers' = IF Auth.kind = "agent" THEN Auth.identities ELSE <<>>
  /\ UNCHANGED <<plan, at, admitted, told, outcome>>

\* The hop is open: on to the next, or done.
Admitted ==
  /\ admitted' = admitted \cup {at}
  /\ IF at < Len(plan)
     THEN at' = at + 1 /\ stage' = "dial" /\ UNCHANGED outcome
     ELSE stage' = "over" /\ outcome' = "connected" /\ UNCHANGED at

Tell == told' = told \cup {[secret |-> SecretOf(at), to |-> at]}

\* Nothing, a password or a key of one's own: one answer settles it.
Offer ==
  /\ stage = "auth" /\ Auth.kind \in {"none", "password", "key"}
  /\ Auth.kind = "key" => Auth.readable
  /\ IF Auth.kind = "none" THEN UNCHANGED told ELSE Tell
  /\ Admitted \/ (UNCHANGED admitted /\ \E answer \in Refusals : Fail(answer))
  /\ UNCHANGED <<plan, accepted, offers, rounds, last>>
KeyUnreadable ==
  /\ stage = "auth" /\ Auth.kind = "key" /\ ~Auth.readable
  /\ Fail("private key")
  /\ UNCHANGED <<plan, accepted, admitted, told, offers, rounds, last>>

\* The agent's keys, one after another; the last refusal is what is said.
AgentEmpty ==
  /\ stage = "auth" /\ Auth.kind = "agent" /\ offers = <<>>
  /\ Fail(IF last = "none" THEN "no keys" ELSE last)
  /\ UNCHANGED <<plan, accepted, admitted, told, offers, rounds, last>>
SkipCertificate ==
  /\ stage = "auth" /\ Auth.kind = "agent" /\ offers # <<>> /\ Head(offers) = "certificate"
  /\ offers' = Tail(offers)
  /\ UNCHANGED <<plan, at, stage, accepted, admitted, told, rounds, last, outcome>>
OfferIdentity ==
  /\ stage = "auth" /\ Auth.kind = "agent" /\ offers # <<>> /\ Head(offers) = "key"
  /\ Tell /\ offers' = Tail(offers)
  /\ \/ Admitted /\ UNCHANGED last
     \/ last' \in Refusals /\ UNCHANGED <<at, stage, admitted, outcome>>
  /\ UNCHANGED <<plan, accepted, rounds>>

\* Questions.  What the server says to the last round of answers is not heard.
Asking == stage = "auth" /\ Auth.kind = "interactive"
Settled ==
  /\ Asking /\ rounds < MaxRounds
  /\ Admitted \/ (UNCHANGED admitted /\ \E answer \in Refusals : Fail(answer))
  /\ UNCHANGED <<plan, accepted, told, offers, rounds, last>>
Answered ==
  /\ Asking /\ rounds < MaxRounds
  /\ Tell /\ rounds' = rounds + 1
  /\ UNCHANGED <<plan, at, stage, accepted, admitted, offers, last, outcome>>
NotAnswered ==
  /\ Asking /\ rounds < MaxRounds
  /\ \E error \in {"cancelled", "answer count"} : Fail(error)
  /\ UNCHANGED <<plan, accepted, admitted, told, offers, rounds, last>>
TooManyRounds ==
  /\ Asking /\ rounds = MaxRounds
  /\ \/ UNCHANGED admitted
     \/ admitted' = admitted \cup {at}      \* and nobody hears of it
  /\ Fail("rounds")
  /\ UNCHANGED <<plan, accepted, told, offers, rounds, last>>

\* The server, one on the way to it, or the agent goes, and with it perhaps a yes.
HungUp ==
  /\ stage = "auth"
  /\ UNCHANGED admitted \/ admitted' = admitted \cup {at}
  /\ Fail("broken")
  /\ UNCHANGED <<plan, accepted, told, offers, rounds, last>>

LoginNext ==
  \/ Unreachable \/ KeyRejected \/ KeyAccepted
  \/ Offer \/ KeyUnreadable \/ AgentEmpty \/ SkipCertificate \/ OfferIdentity
  \/ Settled \/ Answered \/ NotAnswered \/ TooManyRounds \/ HungUp

LoginSpec == LoginInit /\ [][LoginNext]_loginVars

-----------------------------------------------------------------------------
\* A secret is told only to the hop it is for, after its key was accepted, and
\* through hops that were all logged in to; connected means that every server on
\* the way said yes; and a server is reported as having refused only where it did
\* not say yes (transport.rs, connect_via; auth.rs).
SecretsStayWithTheirHop ==
  /\ \A t \in told : /\ t.secret = plan[t.to].secret
                     /\ t.to \in accepted /\ 1 .. t.to - 1 \subseteq admitted
  /\ outcome = "connected" => admitted = DOMAIN plan
  /\ outcome \in Refusals => at \notin admitted

\* What makes it so at every step: hops are opened one after another, and the one
\* being opened has not said yes.
LoginIInv ==
  /\ plan \in Plans /\ at \in 1 .. Len(plan) /\ stage \in {"dial", "auth", "over"}
  /\ 1 .. at - 1 \subseteq admitted /\ admitted \subseteq 1 .. at /\ accepted \subseteq 1 .. at
  /\ last \in Refusals \cup {"none"}
  /\ stage # "over" => at \notin admitted /\ outcome = "none"
  /\ stage = "auth" => at \in accepted
  /\ \A t \in told : t.to \in accepted /\ t.secret = plan[t.to].secret
  /\ outcome = "connected" => at = Len(plan) /\ at \in admitted
  /\ outcome \in Refusals => at \notin admitted
=============================================================================
