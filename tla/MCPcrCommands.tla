--------------------------- MODULE MCPcrCommands ----------------------------
(* Three calls of any of the functions.                                    *)
EXTENDS PcrCommands
=============================================================================
