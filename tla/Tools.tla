------------------------------- MODULE Tools --------------------------------
(***************************************************************************)
(* The tools that convert texts.  A run is one of stringToName and         *)
(* nameToString, or of uoskey; they share nothing.                         *)
(***************************************************************************)
EXTENDS NameCodec, KeyText

VARIABLE tool

ToolsInit ==
  \/ tool = "name" /\ Init /\ Idle
  \/ tool = "uoskey" /\ Idle /\ text = << >> /\ name = 0 /\ ran = "none"

ToolsNext ==
  \/ tool = "name" /\ Next /\ UNCHANGED <<tool, keyvars>>
  \/ tool = "uoskey" /\ KeyNext /\ UNCHANGED <<tool, vars>>

ToolsSpec == ToolsInit /\ [][ToolsNext]_<<tool, vars, keyvars>>
=============================================================================
