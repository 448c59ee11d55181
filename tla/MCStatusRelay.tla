---------------------------- MODULE MCStatusRelay ----------------------------
(* StatusRelay with one state for each way VpnStatus treats them, for TLC.  *)
EXTENDS StatusRelay

MCStates == {"NOPROCESS", "WAIT", "GET_CONFIG", "CONNECTED", "USER_INPUT"}
=============================================================================
