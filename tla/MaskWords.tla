-------------------------------- MODULE MaskWords --------------------------------
(***************************************************************************)
(* The same masks as the code keeps them: unsigned words of MaxSubpackets  *)
(* bits, with the shifts and bitwise operations of common/large_packet.c.  *)
(* They implement MaskSets, whose sets the models of the nodes use.        *)
(***************************************************************************)
EXTENDS Integers, Bitwise

CONSTANTS
    SubpacketMaxBytes, MaxSubpackets, MaxPacketId, PacketLen, NoBody  \* of LargePacketDefs

VARIABLES
    received,  \* large_packet_rx.mask
    num,       \* large_packet_rx.num_sub_packets
    complete,  \* rx_done
    asked,     \* sub_packet_mask of the latest request
    left,      \* large_packet_tx.mask
    sent       \* index of the latest sub-packet sent

vars == <<received, num, complete, asked, left, sent>>

-----------------------------------------------------------------------------
(***************************************************************************)
(* Words.                                                                  *)
(***************************************************************************)

Width == MaxSubpackets

AllOnes == 2^Width - 1

\* The possible values of 1 << i: a shift by the width of the type or more is undefined, and a
\* processor gives no bit at all, or takes the count modulo the width.
ShiftedOnes(i) == IF i < Width THEN {2^i} ELSE {0, 2^(i % Width)}

Decremented(w) == (w - 1) % 2^Width

Complement(w) == AllOnes - w

Bit(w, i) == w & 2^i

\* Slip: a mask of all bits without a case of its own.
LowOnesShifted(n) == { Decremented(one) : one \in ShiftedOnes(n) }

\* A mask with the n low bits at 1
LowOnes(n) == IF n = Width THEN {AllOnes} ELSE { Decremented(one) : one \in ShiftedOnes(n) }

\* The bits request_for_missing_subpackets asks for
Missing(w, n) == { (w ^^ AllOnes) & cut : cut \in IF n < Width THEN LowOnes(n) ELSE {AllOnes} }

\* The index pick_next_to_send finds, 0 if none
Picked(w, n) ==
    LET index[i \in 0..Width] ==
            IF i = Width \/ i >= n THEN 0 ELSE IF Bit(w, i) # 0 THEN i ELSE index[i + 1]
    IN  index[0]

-----------------------------------------------------------------------------

Init ==
    /\ received = 0 /\ asked = 0 /\ left = 0
    /\ num = 0 /\ sent = 0
    /\ complete = FALSE

\* large_packet_send_whole_mask_get, and what signal_to_request_proc does with its result
AskWhole(n) ==
    /\ n <= Width
    /\ received' = 0
    /\ num' = n
    /\ asked' \in LowOnes(n)
    /\ UNCHANGED <<complete, left, sent>>

\* A sub-packet taken by large_packet_receive_proc
Mark(i, n) ==
    /\ \E one \in ShiftedOnes(i) : received' = received | one
    /\ \E all_done_mask \in LowOnes(n) : complete' = (received' = all_done_mask)
    /\ UNCHANGED <<num, asked, left, sent>>

\* request_for_missing_subpackets
AskMissing ==
    /\ asked' \in Missing(received, num)
    /\ UNCHANGED <<received, num, complete, left, sent>>

\* reply_to_request_proc
TakeRequest ==
    /\ left' = asked
    /\ UNCHANGED <<received, num, complete, asked, sent>>

\* next_sub_packet_send
SendNext(n) ==
    /\ left # 0
    /\ sent' = Picked(left, n)
    /\ left' = left & Complement(2^sent')
    /\ UNCHANGED <<received, num, complete, asked>>

\* Numbers of sub-packets: one too large is refused by the receiver, and so never in a sub-packet.
Counts == 0..(Width + 1)

Next ==
    \/ \E n \in Counts : AskWhole(n)
    \/ \E n \in 0..Width : SendNext(n) \/ \E i \in 0..(Width - 1) : Mark(i, n)
    \/ AskMissing
    \/ TakeRequest

Spec == Init /\ [][Next]_vars

-----------------------------------------------------------------------------

\* The indices of the bits at 1.
Ones(w) == { i \in 0..(Width - 1) : Bit(w, i) # 0 }

Sets == INSTANCE MaskSets WITH
            received <- Ones(received), asked <- Ones(asked), left <- Ones(left)

\* Every operation of the code on 64-bit words, the one with all bits at 1 and the shift by 64
\* included, does on the bits at 1 what the models of the nodes do on sets of indices.
WordsAreSets == Sets!Spec
=============================================================================
