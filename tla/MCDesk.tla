-------------------------------- MODULE MCDesk --------------------------------
(* The desk as TLC checks it: one host, a key known_hosts has, one it has  *)
(* revoked and two it has not, and two attempts at a time.               *)
EXTENDS Desk, TLC

CONSTANTS server, trusted, revoked, other, another

MCAlgorithm == [k \in {trusted, revoked, other, another} |-> "ed25519"]

\* The revoked key is listed again below, as a file kept by hand may have it.
MCKnownBefore == <<Line({server}, trusted, "none"), Line({server}, revoked, "revoked"),
                   Line({server}, revoked, "none"), Line({server}, other, "cert-authority")>>

\* A shell with a key of its own, and a file browser with a stored password.
MCSaved == {[host |-> server, stored |-> FALSE, files |-> FALSE],
            [host |-> server, stored |-> TRUE, files |-> TRUE]}
===============================================================================
