----------------------------- MODULE MCWorkbench -----------------------------
EXTENDS Workbench

MCTyped == {"bastion"}
MCInventory ==
  {[SshDefault EXCEPT !.host = "web", !.jump = <<"n2">>], [RdpDefault EXCEPT !.host = "desk"]}
==============================================================================
