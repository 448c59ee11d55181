--------------------------- MODULE MCNetworkSpace ---------------------------
(* NetworkSpace with addresses of a few bits, for TLC.                     *)
EXTENDS NetworkSpace
=============================================================================
