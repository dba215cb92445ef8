--------------------------------- MODULE MaskSets ---------------------------------
(***************************************************************************)
(* The life of the sub-packet masks of a receiver and a sender, as sets of *)
(* indices: what the other modules do with masks, and nothing else.        *)
(***************************************************************************)
EXTENDS LargePacketDefs

VARIABLES
    received,  \* the receiver's mask: what it has
    num,       \* its number of sub-packets
    complete,  \* the outcome of the latest test for completion
    asked,     \* the mask of the latest request
    left,      \* the sender's mask: what is left to send
    sent       \* the index of the latest sub-packet sent

vars == <<received, num, complete, asked, left, sent>>

Init ==
    /\ received = {} /\ asked = {} /\ left = {}
    /\ num = 0 /\ sent = 0
    /\ complete = FALSE

\* A signal of n sub-packets
AskWhole(n) ==
    /\ FitsMask(n)
    /\ received' = {}
    /\ num' = n
    /\ asked' = LowBits(n)
    /\ UNCHANGED <<complete, left, sent>>

\* Sub-packet i of n
Mark(i, n) ==
    /\ received' = received \cup {i}
    /\ complete' = (received' = LowBits(n))
    /\ UNCHANGED <<num, asked, left, sent>>

\* A time-out
AskMissing ==
    /\ asked' = MissingMask(received, num)
    /\ UNCHANGED <<received, num, complete, left, sent>>

\* A request
TakeRequest ==
    /\ left' = asked
    /\ UNCHANGED <<received, num, complete, asked, sent>>

\* A frame of a packet of n sub-packets
SendNext(n) ==
    /\ left # {}
    /\ sent' = PickNext(left, n, 0).idx
    /\ left' = left \ {sent'}
    /\ UNCHANGED <<received, num, complete, asked>>

Counts == 0..MaxSubpackets

Next ==
    \/ \E n \in Counts : AskWhole(n) \/ SendNext(n) \/ \E i \in Indices : Mark(i, n)
    \/ AskMissing
    \/ TakeRequest

Spec == Init /\ [][Next]_vars
=============================================================================
