------------------------------- MODULE MCReceiver -------------------------------
(***************************************************************************)
(* The receiver node alone, on small packets.                              *)
(***************************************************************************)
EXTENDS Receiver, TLC

\* Packet 0 has as many sub-packets as a mask has bits, the last one short; packet 1 has two full
\* ones; packet 2, of a sender built with larger limits, has too many.
MCPacketLen == (0 :> 5) @@ (1 :> 4) @@ (2 :> 7)
=============================================================================
