-------------------------------- MODULE MCSender --------------------------------
(***************************************************************************)
(* The sender node alone.  Packets 0 and 1 have as many sub-packets as a   *)
(* mask has bits, the last one of packet 0 short, that of packet 1 full;   *)
(* packet 2 is too large to be registered.                                 *)
(***************************************************************************)
EXTENDS Sender, TLC

MCPacketLen == (0 :> 5) @@ (1 :> 6) @@ (2 :> 7)
=============================================================================
