---------------------------- MODULE LargePacketDefs ----------------------------
(***************************************************************************)
(* What both nodes share: the constants of common/large_packet.h, the      *)
(* arithmetic that cuts a large packet into sub-packets, the operations on *)
(* the 64-bit sub-packet masks, and the three kinds of message.            *)
(*                                                                         *)
(* A mask is the set of the indices of its bits at 1.  The bytes of a      *)
(* sub-packet are not kept: a body names the registered packet they were   *)
(* cut from, and NoBody stands for bytes of no registered packet.          *)
(***************************************************************************)
EXTENDS Integers, Sequences, FiniteSetsExt

CONSTANTS
    SubpacketMaxBytes,  \* LARGE_PACKET_SUBPACKET_MAX_BYTES (330 in the code)
    MaxSubpackets,      \* LARGE_PACKET_MAX_NUMBER_OF_SUBPACKETS (64)
    MaxPacketId,        \* largest packet id (UINT16_MAX)
    PacketLen,          \* bytes of the packet the application registers under an id
    NoBody              \* the contents of no registered packet

PacketIds == 0..MaxPacketId
Indices   == 0..(MaxSubpackets - 1)
Masks     == SUBSET Indices
Bodies    == PacketIds \cup {NoBody}

ASSUME SizeAssumption ==
    /\ SubpacketMaxBytes \in Nat \ {0}
    /\ MaxSubpackets \in Nat \ {0}
    /\ MaxPacketId \in Nat

ASSUME PacketAssumption ==
    /\ PacketLen \in [PacketIds -> Nat]
    /\ NoBody \notin PacketIds

(***************************************************************************)
(* Cutting a large packet.                                                 *)
(***************************************************************************)

\* large_packet_n_sub_packets_get, and the same division in large_packet_register_tx
NumSubPackets(n_bytes) ==
    (n_bytes \div SubpacketMaxBytes) + (IF n_bytes % SubpacketMaxBytes > 0 THEN 1 ELSE 0)

\* Slip: a last sub-packet of full size forgotten.
SubPacketRemainder(i, num, len) ==
    IF i = num - 1 THEN len % SubpacketMaxBytes ELSE SubpacketMaxBytes

\* the size pick_next_to_send gives to sub-packet i of num, of a packet of len bytes
SubPacketSize(i, num, len) ==
    IF i = num - 1 /\ len % SubpacketMaxBytes # 0
    THEN len % SubpacketMaxBytes
    ELSE SubpacketMaxBytes

(***************************************************************************)
(* Masks.                                                                  *)
(***************************************************************************)

\* the n low bits; n = 64 has a case of its own in the code, because 1 << 64 is undefined
LowBits(n) == { i \in Indices : i < n }

\* large_packet_send_whole_mask_get returns -1 when this does not hold
FitsMask(n) == n <= MaxSubpackets

\* Slip: the whole packet asked for again.
WholeMask(received, num) == LowBits(num)

\* Slip: the last sub-packet never asked for again.
MissingButLast(received, num) == LowBits(num - 1) \ received

\* request_for_missing_subpackets: the complement of what was received, cut to num bits
MissingMask(received, num) == LowBits(num) \ received

\* pick_next_to_send: the lowest index at 1 below num.  With none, the loop leaves the
\* zero-initialised sub_packet_t: index 0, no payload, no bytes.
PickNext(mask, num, len) ==
    IF mask \cap LowBits(num) = {}
    THEN [idx |-> 0, size |-> 0, empty |-> TRUE]
    ELSE LET i == Min(mask \cap LowBits(num))
         IN  [idx |-> i, size |-> SubPacketSize(i, num, len), empty |-> FALSE]

(***************************************************************************)
(* Messages: lp_signal, lp_request, lp_subpacket.                          *)
(***************************************************************************)

Signal(id, num) == [type |-> "signal", id |-> id, num |-> num]

Request(id, mask) == [type |-> "request", id |-> id, mask |-> mask]

SubPacket(id, idx, num, size, body) ==
    [type |-> "subpacket", id |-> id, idx |-> idx, num |-> num, size |-> size, body |-> body]

Signals    == [type : {"signal"}, id : PacketIds, num : Nat]
Requests   == [type : {"request"}, id : PacketIds, mask : Masks]
SubPackets == [type : {"subpacket"}, id : PacketIds, idx : Indices, num : Nat,
               size : 0..SubpacketMaxBytes, body : Bodies]

\* The signal and the sub-packets of the packet registered under id.
SignalOf(id) == Signal(id, NumSubPackets(PacketLen[id]))

SubPacketOf(id, i) ==
    SubPacket(id, i, NumSubPackets(PacketLen[id]),
              SubPacketSize(i, NumSubPackets(PacketLen[id]), PacketLen[id]), id)
=============================================================================
