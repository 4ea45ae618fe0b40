----------------------------- MODULE MCRdpSession -----------------------------
(* A name and an IPv6 address, and a file that revokes a key of one port and *)
(* trusts another there, and has nothing for the usual one.                 *)
EXTENDS RdpSession, TLC

CONSTANTS name, v6, k1, k2

MCNumericTail == [host \in Hosts |-> IF host = v6 THEN 7 ELSE 0]
MCAddress == [host |-> name, port |-> OtherPort]
MCFirstFiles ==
  {<<Line(TRUE, MCAddress, k1, 0), Line(FALSE, MCAddress, k2, 0)>>}
MCPdus ==
  {[damage |-> TRUE, over |-> FALSE, resize |-> NoSize],
   [damage |-> TRUE, over |-> FALSE, resize |-> 3],
   [damage |-> FALSE, over |-> FALSE, resize |-> 9],
   [damage |-> TRUE, over |-> TRUE, resize |-> NoSize]}
===============================================================================
