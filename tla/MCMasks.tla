--------------------------------- MODULE MCMasks ---------------------------------
(***************************************************************************)
(* Words of 3 bits, and counts of up to 4 sub-packets.                     *)
(***************************************************************************)
EXTENDS MaskWords

MCPacketLen == [id \in 0..0 |-> 1]
=============================================================================
