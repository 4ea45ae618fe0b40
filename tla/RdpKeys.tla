------------------------------- MODULE RdpKeys -------------------------------
(***************************************************************************)
(* The keys of RDP servers: the file the host keeps (known_servers, read   *)
(* and appended to by app-ui), the store of one entry the helper builds    *)
(* from what it is handed, and what proto-rdp's server_key.rs makes of a   *)
(* key a server presents.                                                  *)
(*                                                                         *)
(* A line of the file is the address it is under, its key and whether it   *)
(* revokes.  `by` is not in the file: it is the attempt that wrote the     *)
(* line, and 0 for one that was there before.                              *)
(***************************************************************************)
EXTENDS Naturals, Sequences

CONSTANTS Hosts,        \* names of servers
          NumericTail,  \* the port each would be taken to have if its name were
                        \* split at its last colon, 0 when it cannot be: IPv6
          OtherPort,    \* a port that is not RDP's own
          Keys

DefaultPort == 3389
NoKey == "none"

ASSUME HostsAssumption == NumericTail \in [Hosts -> Nat]
ASSUME PortAssumption == OtherPort \in Nat \ {DefaultPort}
ASSUME KeysAssumption == NoKey \notin Keys

Addresses == [host : Hosts, port : {DefaultPort, OtherPort}]

\* Mutant: a title is split into a host and no port at all.
SplitTitleNoPort(host) == [host |-> host, port |-> 0]

\* label_for and connect_rdp: the title is the user and the host, no port.
\* split_host_port takes what follows a last colon for one if it is a number.
SplitTitle(host) ==
  IF NumericTail[host] # 0
  THEN [host |-> <<"cut", host>>, port |-> NumericTail[host]]
  ELSE [host |-> host, port |-> DefaultPort]

Line(revokes, address, key, by) ==
  [revokes |-> revokes, address |-> address, key |-> key, by |-> by]
Lines(by) == [revokes : BOOLEAN, address : Addresses \cup {SplitTitle(host) : host \in Hosts},
              key : Keys, by : by]

\* known_server_key: the first line for the address.  A line that revokes
\* begins with a word that is no address, and is passed over.
KnownKey(file, address) ==
  LET at == {n \in 1 .. Len(file) : ~file[n].revokes /\ file[n].address = address}
  IN IF at = {} THEN NoKey ELSE file[CHOOSE n \in at : \A k \in at : n <= k].key

\* record_server_key, as server_key_prompt calls it: under the address that
\* was made of the title.
RecordedLine(attempt, host, key) == Line(FALSE, SplitTitle(host), key, attempt)

\* KnownServers::verify over the one entry that `connect` puts there for the
\* address it dials, if it was handed a key for it.
Verdict(given, presented) ==
  IF given = NoKey THEN "Unknown" ELSE IF given = presented THEN "Trusted" ELSE "Changed"

\* ServerKeyChecker::check asks the verifier unless the store has settled it.
Asks(verdict) == verdict # "Trusted"

\* Outcome::should_store, after AskingVerifier::decide: a yes is kept.
ShouldStore(verdict) == Asks(verdict)

==============================================================================
