-------------------------------- MODULE MCSystem --------------------------------
(***************************************************************************)
(* The two nodes on packets of two sub-packets, or of three.               *)
(***************************************************************************)
EXTENDS LargePacketSystem, TLC

\* The last sub-packet of packet 0 is short, that of packet 1 is full.
MCPacketLen  == (0 :> 3) @@ (1 :> 4)
MCThreeParts == (0 :> 5) @@ (1 :> 6)
=============================================================================
