--------------------------- MODULE MCPauseControl ---------------------------
(* PauseControl for TLC: two networks, given in the configuration.         *)
EXTENDS PauseControl
=============================================================================
