----------------------------- MODULE MCReliable -----------------------------
(* Reliable with a short stream and small windows, for TLC.                *)
EXTENDS Reliable

CONSTANTS d1, d2, d3

MCData == {d1, d2, d3}
MCStream == <<d1, d2, d3>>
=============================================================================
