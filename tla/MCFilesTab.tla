------------------------------ MODULE MCFilesTab ------------------------------
(* Two files, the name of one within the name of the other, and a second   *)
(* directory whose path has that name in it as well.                       *)
EXTENDS FilesTab, TLC

CONSTANTS report, reportBak, home, reports

MCMentions == {<<report, report>>, <<reportBak, reportBak>>, <<reportBak, report>>,
               <<reports, report>>}
\* The first file is on both sides, cut short here; the second is on the server.
MCBefore ==
  {[local |-> (report :> <<1>> @@ reportBak :> None),
    remote |-> (report :> <<1, 1>> @@ reportBak :> <<2>>)]}

MCOthers == {<<2>>}
===============================================================================
