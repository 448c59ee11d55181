----------------------------- MODULE MCPacketId -----------------------------
(* PacketId with few ids and a short time, for TLC.                        *)
EXTENDS PacketId
=============================================================================
