------------------------------- MODULE HostKeys -------------------------------
(***************************************************************************)
(* What a known_hosts file says about a server's key                       *)
(* (crates/proto-ssh/known_hosts.rs).  A line is the hosts its patterns    *)
(* match, its key and its marker; lines that cannot be parsed are not in   *)
(* the file as far as this program is concerned.                           *)
(***************************************************************************)
EXTENDS Sequences, Naturals

CONSTANTS Hosts,        \* host and port, as they are typed
          Keys,         \* host keys
          Algorithm     \* the algorithm of each

Markers == {"none", "revoked", "cert-authority"}

Line(hosts, key, marker) == [hosts |-> hosts, key |-> key, marker |-> marker]

Lines == [hosts : SUBSET Hosts, key : Keys, marker : Markers]

\* The lines that speak of a host's key.  A certificate authority's do not.
Applies(file, host) ==
  {i \in DOMAIN file : host \in file[i].hosts /\ file[i].marker # "cert-authority"}

\* The lines of a host with this very key.
Same(file, host, key) == {i \in Applies(file, host) : file[i].key = key}

\* The first of them decides.
Decides(file, host, key, i) ==
  /\ i \in Same(file, host, key)
  /\ \A j \in Same(file, host, key) : i <= j

\* Mutant: a line that has the key is enough.
IsTrustedByAny(file, host, key) == Same(file, host, key) # {}

IsTrusted(file, host, key) ==
  \E i \in DOMAIN file : Decides(file, host, key, i) /\ file[i].marker = "none"

IsRevoked(file, host, key) ==
  \E i \in DOMAIN file : Decides(file, host, key, i) /\ file[i].marker = "revoked"

\* The host is recorded with another key of the same algorithm.
IsChanged(file, host, key) ==
  /\ Same(file, host, key) = {}
  /\ \E i \in Applies(file, host) :
       file[i].marker = "none" /\ Algorithm[file[i].key] = Algorithm[key]

\* KnownHosts::verify
Verify(file, host, key) ==
  IF IsTrusted(file, host, key) THEN "trusted"
  ELSE IF IsRevoked(file, host, key) THEN "revoked"
  ELSE IF IsChanged(file, host, key) THEN "changed"
  ELSE "unknown"

\* KnownHosts::add: the line that records a key.
Record(host, key) == Line({host}, key, "none")
===============================================================================
