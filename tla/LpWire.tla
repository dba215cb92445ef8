--------------------------------- MODULE LpWire ---------------------------------
(***************************************************************************)
(* The bytes of the three messages: the little-endian macros of            *)
(* common/utils.h and the packing and unpacking of common/lp_signal.c,     *)
(* lp_request.c and lp_subpacket.c.  A datagram is a sequence of bytes.    *)
(***************************************************************************)
EXTENDS Integers, Sequences

CONSTANTS
    MaskBytes,   \* sizeof(uint64_t), 8
    PayloadMax   \* LARGE_PACKET_SUBPACKET_MAX_BYTES, 330

Bytes == 0..255

(***************************************************************************)
(* Integers of any width, little endian.                                   *)
(***************************************************************************)

\* v >> 8 * i
Shifted(v, i) ==
    LET down[k \in 0..i] == IF k = 0 THEN v ELSE down[k - 1] \div 256
    IN  down[i]

\* LITTLE_ENDIAN_STORE of a variable of n bytes
Store(v, n) == [i \in 1..n |-> Shifted(v, i - 1) % 256]

\* LITTLE_ENDIAN_LOAD: the value of the last k bytes, for each k; the bits of two bytes never
\* meet, so the sum is the bitwise or.
Load(b) ==
    LET high[k \in 0..Len(b)] == IF k = 0 THEN 0 ELSE b[Len(b) + 1 - k] + 256 * high[k - 1]
    IN  high[Len(b)]

\* The n bytes at the given place of the buffer, the first place being 0.
Field(buffer, place, n) == SubSeq(buffer, place + 1, place + n)

Fits(v, n) == v \in Nat /\ Shifted(v, n) = 0

ASSUME WireAssumption ==
    /\ MaskBytes \in 1..8
    /\ Fits(PayloadMax, 2)

(***************************************************************************)
(* Messages and their packing.                                             *)
(***************************************************************************)

LP_HEADER_SIZE == 2

lpsig_header == <<\h54, \hab>>
lpreq_header == <<\hf2, \h2a>>
lpsp_header  == <<\h1f, \hb3>>

SignalMessages     == [kind : {"signal"}, id : Nat, num : Nat]
RequestMessages    == [kind : {"request"}, id : Nat, mask : Nat, period : Nat]
SubPacketMessages  == [kind : {"subpacket"}, id : Nat, idx : Nat, num : Nat, payload : Seq(Bytes)]

\* What the callers of lpsig_send, lpreq_send and lpsp_send can pass.
Sendable(m) ==
    \/ m \in SignalMessages /\ Fits(m.id, 2) /\ Fits(m.num, 1)
    \/ m \in RequestMessages /\ Fits(m.id, 2) /\ Fits(m.mask, MaskBytes) /\ Fits(m.period, 2)
    \/ /\ m \in SubPacketMessages /\ Fits(m.id, 2) /\ Fits(m.idx, 1) /\ Fits(m.num, 1)
       /\ Len(m.payload) <= PayloadMax

PackSignal(m) == lpsig_header \o Store(m.id, 2) \o Store(m.num, 1)

PackRequest(m) ==
    lpreq_header \o Store(m.id, 2) \o Store(m.mask, MaskBytes) \o Store(m.period, 2)

PackSubPacket(m) ==
    lpsp_header \o Store(m.id, 2) \o Store(m.idx, 1) \o Store(m.num, 1)
        \o Store(Len(m.payload), 2) \o m.payload

Pack(m) ==
    CASE m.kind = "signal"    -> PackSignal(m)
      [] m.kind = "request"   -> PackRequest(m)
      [] m.kind = "subpacket" -> PackSubPacket(m)

(***************************************************************************)
(* Is a datagram a message of a kind, and what does it say?                *)
(***************************************************************************)

\* memcmp(data, header, sizeof(header) != 0): one byte is compared.
HeaderIs(b, header) == b[1] = header[1]

\* The uint8_t in which lpsig_unpack_buffer and lpreq_unpack_buffer receive the length.
Narrowed(len) == len % 256

SignalSize == LP_HEADER_SIZE + 2 + 1

RequestSize == LP_HEADER_SIZE + 2 + MaskBytes + 2

SubPacketFront == LP_HEADER_SIZE + 2 + 1 + 1 + 2

TakesSignal(b) == HeaderIs(b, lpsig_header) /\ Narrowed(Len(b)) = SignalSize

TakesRequest(b) == HeaderIs(b, lpreq_header) /\ Narrowed(Len(b)) = RequestSize

PayloadLen(buffer) == Load(Field(buffer, 6, 2))

\* The length is read before it is known to be there: from a datagram too short for it, the
\* bytes behind the datagram are read.
TakesSubPacket(b, behind) ==
    HeaderIs(b, lpsp_header) /\ Len(b) = SubPacketFront + PayloadLen(b \o behind)

(***************************************************************************)
(* The event data made of a datagram: its fields and where it came from.   *)
(***************************************************************************)

\* Slip: n_sub_packets read from the last two bytes.
SignaledNumWide(b, node) ==
    [id |-> Load(Field(b, 2, 2)), num |-> Load(Field(b, 3, 2)), src |-> node]

SignaledData(b, node) ==
    [id |-> Load(Field(b, 2, 2)), num |-> Load(Field(b, 4, 1)), src |-> node]

RequestedData(b, node) ==
    [id     |-> Load(Field(b, 2, 2)),
     mask   |-> Load(Field(b, 4, MaskBytes)),
     period |-> Load(Field(b, 4 + MaskBytes, 2)),
     src    |-> node]

SubPacketData(b, node) ==
    [id  |-> Load(Field(b, 2, 2)), idx |-> Load(Field(b, 4, 1)), num |-> Load(Field(b, 5, 1)),
     len |-> PayloadLen(b), src |-> node]
=============================================================================
