--------------------------- MODULE LargePacketLemmas ---------------------------
(***************************************************************************)
(* What the operators of LargePacketDefs and EventQueue return, for the    *)
(* proofs about the two nodes.                                             *)
(***************************************************************************)
EXTENDS LargePacketDefs, EventQueue, LeastElement

-----------------------------------------------------------------------------
(***************************************************************************)
(* The event queue of a node.                                              *)
(***************************************************************************)

\* Posting keeps a queue of events within its size.
LEMMA PostType ==
    ASSUME NEW Events, NEW q \in Seq(Events), Len(q) <= QueueSize, NEW e \in Events
    PROVE  Post(q, e) \in Seq(Events) /\ Len(Post(q, e)) <= QueueSize
BY QueueAssumption DEF Post

\* Posting leaves the events already in the queue where they are.
LEMMA PostKeeps ==
    ASSUME NEW Events, NEW q \in Seq(Events), NEW e \in Events, NEW k \in 1..Len(q)
    PROVE  k \in 1..Len(Post(q, e)) /\ Post(q, e)[k] = q[k]
BY DEF Post

\* Taking the head off keeps a queue of events within its size.
LEMMA TailType ==
    ASSUME NEW Events, NEW q \in Seq(Events), Len(q) <= QueueSize, q # <<>>
    PROVE  Tail(q) \in Seq(Events) /\ Len(Tail(q)) <= QueueSize
BY QueueAssumption

\* The copies of a datagram in a list are counted by a number, zero only for none.
LEMMA CopiesType ==
    ASSUME NEW X, NEW messages \in Seq(X), NEW m \in Datagrams(messages)
    PROVE  Copies(m, messages) \in Nat /\ Copies(m, messages) > 0
<1> DEFINE places == { k \in 1..Len(messages) : messages[k] = m }
<1>1. IsFiniteSet(1..Len(messages)) /\ places \subseteq 1..Len(messages)
    BY FS_Interval
<1>2. IsFiniteSet(places)
    BY <1>1, FS_Subset
<1>3. places # {}
    BY DEF Datagrams
<1>4. Cardinality(places) \in Nat /\ Cardinality(places) # 0
    BY <1>2, <1>3, FS_CardinalityType, FS_EmptySet
<1>5. QED
    BY <1>4 DEF Copies

-----------------------------------------------------------------------------
(***************************************************************************)
(* Packets, masks and messages.                                            *)
(***************************************************************************)

\* A number of bytes is so many full sub-packets, and a rest.
LEMMA DivisionByMaxBytes ==
    ASSUME NEW n \in Nat
    PROVE  /\ n \div SubpacketMaxBytes \in Nat /\ n % SubpacketMaxBytes \in Nat
           /\ n % SubpacketMaxBytes < SubpacketMaxBytes
           /\ n = SubpacketMaxBytes * (n \div SubpacketMaxBytes) + (n % SubpacketMaxBytes)
<1>1. n \div SubpacketMaxBytes \in Nat /\ n % SubpacketMaxBytes \in 0..(SubpacketMaxBytes - 1)
    BY SizeAssumption
<1>2. n = SubpacketMaxBytes * (n \div SubpacketMaxBytes) + (n % SubpacketMaxBytes)
    BY SizeAssumption
<1>3. QED
    BY <1>1, <1>2, SizeAssumption

\* The division of large_packet_n_sub_packets_get gives a number of sub-packets, zero only for
\* a packet of no bytes.
LEMMA NumSubPacketsType ==
    ASSUME NEW n \in Nat
    PROVE  /\ NumSubPackets(n) \in Nat
           /\ n # 0 => NumSubPackets(n) > 0
<1>1. n # 0 => n \div SubpacketMaxBytes # 0 \/ n % SubpacketMaxBytes # 0
    BY DivisionByMaxBytes, SizeAssumption
<1>2. QED
    BY <1>1, DivisionByMaxBytes DEF NumSubPackets

\* Every sub-packet pick_next_to_send cuts has at least one byte, and no more than fit.
LEMMA SubPacketSizeType ==
    ASSUME NEW i, NEW num, NEW len \in Nat
    PROVE  SubPacketSize(i, num, len) \in 1..SubpacketMaxBytes
<1>1. len % SubpacketMaxBytes \in 0..(SubpacketMaxBytes - 1)
    BY SizeAssumption
<1>2. QED
    BY <1>1, SizeAssumption DEF SubPacketSize

\* The low n bits are bits of a mask.
LEMMA LowBitsType ==
    ASSUME NEW n
    PROVE  LowBits(n) \in Masks
BY DEF LowBits, Masks

\* When large_packet_send_whole_mask_get accepts n, its mask has exactly the n low bits.
LEMMA LowBitsExact ==
    ASSUME NEW n \in Nat, FitsMask(n)
    PROVE  LowBits(n) = 0..(n - 1)
BY SizeAssumption DEF LowBits, FitsMask, Indices

\* The signal of a registered packet is a signal.
LEMMA SignalOfType ==
    ASSUME NEW p \in PacketIds
    PROVE  SignalOf(p) \in Signals
<1>1. PacketLen[p] \in Nat
    BY PacketAssumption
<1>2. QED
    BY <1>1, NumSubPacketsType DEF SignalOf, Signal, Signals

\* The sub-packets of a registered packet are sub-packets, and none is empty.
LEMMA SubPacketOfType ==
    ASSUME NEW p \in PacketIds, NEW i \in Indices
    PROVE  /\ SubPacketOf(p, i) \in SubPackets
           /\ SubPacketOf(p, i).size > 0
<1>1. PacketLen[p] \in Nat
    BY PacketAssumption
<1>2. NumSubPackets(PacketLen[p]) \in Nat
    BY <1>1, NumSubPacketsType
<1>3. SubPacketSize(i, NumSubPackets(PacketLen[p]), PacketLen[p]) \in 1..SubpacketMaxBytes
    BY <1>1, SubPacketSizeType
<1>4. QED
    BY <1>2, <1>3, SizeAssumption DEF SubPacketOf, SubPacket, SubPackets, Bodies

\* The lowest index at 1, where pick_next_to_send's loop stops, exists and is below the others.
LEMMA MinType ==
    ASSUME NEW S \in SUBSET Nat, S # {}
    PROVE  Min(S) \in S /\ \A y \in S : Min(S) <= y
BY Least DEF Min

\* pick_next_to_send returns a bit at 1 below num, with its sub-packet's size, or the
\* zero-initialised sub_packet_t.
LEMMA PickNextType ==
    ASSUME NEW mask \in Masks, NEW num \in Nat, NEW len \in Nat
    PROVE  LET p == PickNext(mask, num, len) IN
           /\ p.idx \in Indices
           /\ p.size \in 0..SubpacketMaxBytes
           /\ p.empty <=> mask \cap LowBits(num) = {}
           /\ ~p.empty => p.idx \in mask \cap LowBits(num) /\ p.size = SubPacketSize(p.idx, num, len)
<1> DEFINE low == mask \cap LowBits(num)
<1>1. CASE low = {}
    <2>1. PickNext(mask, num, len) = [idx |-> 0, size |-> 0, empty |-> TRUE]
        BY <1>1 DEF PickNext
    <2>2. 0 \in Indices /\ 0 \in 0..SubpacketMaxBytes
        BY SizeAssumption DEF Indices
    <2>3. QED
        BY <1>1, <2>1, <2>2
<1>2. CASE low # {}
    <2>1. low \in SUBSET Nat /\ low \subseteq Indices
        BY DEF LowBits, Indices
    <2>2. Min(low) \in low
        BY <1>2, <2>1, MinType
    <2>3. SubPacketSize(Min(low), num, len) \in 0..SubpacketMaxBytes
        BY SubPacketSizeType, SizeAssumption
    <2>4. PickNext(mask, num, len) =
              [idx |-> Min(low), size |-> SubPacketSize(Min(low), num, len), empty |-> FALSE]
        BY <1>2 DEF PickNext
    <2>5. QED
        BY <1>2, <2>1, <2>2, <2>3, <2>4
<1>3. QED
    BY <1>1, <1>2

\* The sub-packets of a packet tile it: each but the last is full, the last ends where the
\* packet ends, and none goes beyond.
LEMMA SubPacketsTile ==
    ASSUME NEW len \in Nat, NEW i \in LowBits(NumSubPackets(len))
    PROVE  LET num == NumSubPackets(len)
               size == SubPacketSize(i, num, len)
           IN  /\ i * SubpacketMaxBytes + size <= len
               /\ i = num - 1 => i * SubpacketMaxBytes + size = len
               /\ i # num - 1 => size = SubpacketMaxBytes
<1> DEFINE S == SubpacketMaxBytes
           q == len \div S
           r == len % S
           num == NumSubPackets(len)
           size == SubPacketSize(i, num, len)
<1>1. S \in Nat /\ S > 0 /\ q \in Nat /\ r \in Nat /\ len = S * q + r /\ i \in Nat /\ i < num
    BY SizeAssumption DEF LowBits, Indices
<1>2. num = q + (IF r > 0 THEN 1 ELSE 0)
    BY DEF NumSubPackets
<1>3. size = IF i = num - 1 /\ r # 0 THEN r ELSE S
    BY DEF SubPacketSize
<1> HIDE DEF S, q, r, num, size
<1>4. CASE i = num - 1 /\ r # 0
    <2>1. i = q /\ size = r
        BY <1>1, <1>2, <1>3, <1>4
    <2>2. QED
        BY <1>1, <1>4, <2>1 DEF S, num, size
<1>5. CASE ~(i = num - 1 /\ r # 0)
    <2>1. size = S /\ i + 1 <= q /\ (i = num - 1 => i + 1 = q /\ r = 0)
        BY <1>1, <1>2, <1>3, <1>5
    <2>2. PICK d \in Nat : q = (i + 1) + d
        <3>1. q - (i + 1) \in Nat /\ q = (i + 1) + (q - (i + 1))
            BY <1>1, <2>1
        <3>2. QED
            BY <3>1
    <2>3. S * q = S * i + S + S * d /\ S * d \in Nat
        BY <1>1, <2>2
    <2>4. i * S + S <= len
        BY <1>1, <2>3
    <2>5. i = num - 1 => d = 0 /\ i * S + S = len
        BY <1>1, <2>1, <2>2, <2>3
    <2>6. QED
        BY <2>1, <2>4, <2>5 DEF S, num, size
<1>6. QED
    BY <1>4, <1>5

-----------------------------------------------------------------------------
(***************************************************************************)
(* The bytes of a packet's sub-packets.                                    *)
(***************************************************************************)

\* How many bytes the sub-packets of a mask have: all are full but the last.
BytesOf(mask, id) ==
    LET last == NumSubPackets(PacketLen[id]) - 1
    IN  Cardinality(mask) * SubpacketMaxBytes
            - (IF last \in mask THEN SubpacketMaxBytes - SubPacketOf(id, last).size ELSE 0)

\* None.
LEMMA BytesOfNone ==
    ASSUME NEW id
    PROVE  BytesOf({}, id) = 0
BY FS_EmptySet, SizeAssumption DEF BytesOf

\* One more sub-packet adds its size, unless the mask has it.
LEMMA BytesOfOneMore ==
    ASSUME NEW id \in PacketIds, NEW mask \in Masks, NEW i \in LowBits(NumSubPackets(PacketLen[id]))
    PROVE  /\ BytesOf(mask, id) \in Int /\ BytesOf(mask \cup {i}, id) \in Int
           /\ BytesOf(mask \cup {i}, id) <= BytesOf(mask, id) + SubPacketOf(id, i).size
           /\ i \notin mask => BytesOf(mask \cup {i}, id) = BytesOf(mask, id) + SubPacketOf(id, i).size
<1> DEFINE last == NumSubPackets(PacketLen[id]) - 1
           size(j) == SubPacketOf(id, j).size
           short(S) == IF last \in S THEN SubpacketMaxBytes - size(last) ELSE 0
<1>1. PacketLen[id] \in Nat /\ NumSubPackets(PacketLen[id]) \in Nat
    BY PacketAssumption, NumSubPacketsType
<1>2. \A j : size(j) = SubPacketSize(j, NumSubPackets(PacketLen[id]), PacketLen[id])
    BY DEF SubPacketOf, SubPacket
<1>3. \A j : size(j) \in 1..SubpacketMaxBytes /\ (j # last => size(j) = SubpacketMaxBytes)
    <2>1. \A j : size(j) \in 1..SubpacketMaxBytes
        BY <1>1, <1>2, SubPacketSizeType
    <2>2. \A j : j # last => size(j) = SubpacketMaxBytes
        BY <1>2 DEF SubPacketSize
    <2>3. QED
        BY <2>1, <2>2
<1>4. IsFiniteSet(mask)
    <2>1. IsFiniteSet(Indices) /\ mask \subseteq Indices
        BY SizeAssumption, FS_Interval DEF Masks, Indices
    <2>2. QED
        BY <2>1, FS_Subset
<1>5. /\ Cardinality(mask) \in Nat
      /\ Cardinality(mask \cup {i}) = IF i \in mask THEN Cardinality(mask) ELSE Cardinality(mask) + 1
    BY <1>4, FS_CardinalityType, FS_AddElement
<1> HIDE DEF size, last
<1>6. /\ BytesOf(mask, id) = Cardinality(mask) * SubpacketMaxBytes - short(mask)
      /\ BytesOf(mask \cup {i}, id) =
              Cardinality(mask \cup {i}) * SubpacketMaxBytes - short(mask \cup {i})
    BY DEF BytesOf, size, last
<1>7. SubpacketMaxBytes \in Nat /\ (Cardinality(mask) + 1) * SubpacketMaxBytes
                                     = Cardinality(mask) * SubpacketMaxBytes + SubpacketMaxBytes
    BY <1>5, SizeAssumption
<1>8. Cardinality(mask) * SubpacketMaxBytes \in Nat
    BY <1>5, SizeAssumption
<1>9. CASE i \in mask
    <2>1. mask \cup {i} = mask
        BY <1>9
    <2>2. size(i) \in Nat /\ short(mask) \in Int
        BY <1>3, <1>7
    <2>3. BytesOf(mask, id) \in Int
        BY <1>6, <1>8, <2>2
    <2>4. BytesOf(mask \cup {i}, id) = BytesOf(mask, id)
        BY <2>1
    <2>5. BytesOf(mask, id) <= BytesOf(mask, id) + size(i)
        BY <2>2, <2>3
    <2>6. QED
        BY <1>9, <2>3, <2>4, <2>5 DEF size
<1>10. CASE i \notin mask
    <2>1. /\ short(mask) \in Int /\ short(mask \cup {i}) \in Int
          /\ short(mask \cup {i}) = IF i = last THEN SubpacketMaxBytes - size(i) ELSE short(mask)
        BY <1>3, <1>7, <1>10
    <2>2. CASE i = last
        <3>1. short(mask) = 0 /\ size(i) \in Int
            BY <1>3, <1>10, <2>2
        <3>2. QED
            BY <1>5, <1>6, <1>7, <1>8, <1>10, <2>1, <2>2, <3>1 DEF size
    <2>3. CASE i # last
        <3>1. size(i) = SubpacketMaxBytes
            BY <1>3, <2>3
        <3>2. QED
            BY <1>5, <1>6, <1>7, <1>8, <1>10, <2>1, <2>3, <3>1 DEF size
    <2>4. QED
        BY <2>2, <2>3
<1>11. QED
    BY <1>9, <1>10

\* A multiple of a number is no less.
LEMMA MultipleIsMore ==
    ASSUME NEW n \in Nat, NEW k \in Nat, k # 0
    PROVE  k * n >= n
<1>1. PICK j \in Nat : k = j + 1
    <2>1. k - 1 \in Nat /\ k = (k - 1) + 1
        OBVIOUS
    <2>2. QED
        BY <2>1
<1>2. k * n = j * n + n /\ j * n \in Nat
    BY <1>1
<1>3. QED
    BY <1>2

\* They are no more than the masks have places for.
LEMMA BytesOfBound ==
    ASSUME NEW id \in PacketIds, NEW mask \in Masks
    PROVE  /\ BytesOf(mask, id) \in Nat
           /\ BytesOf(mask, id) <= SubpacketMaxBytes * MaxSubpackets
           /\ mask # Indices =>
                  BytesOf(mask, id) + SubpacketMaxBytes <= SubpacketMaxBytes * MaxSubpackets
<1> DEFINE S == SubpacketMaxBytes
           M == MaxSubpackets
           last == NumSubPackets(PacketLen[id]) - 1
           short == IF last \in mask THEN S - SubPacketOf(id, last).size ELSE 0
           n == Cardinality(mask)
<1>1. S \in Nat /\ M \in Nat
    BY SizeAssumption
<1>2. n \in Nat /\ n <= M /\ (n = M => mask = Indices) /\ (n = 0 => mask = {})
    <2>1. IsFiniteSet(Indices) /\ Cardinality(Indices) = M /\ mask \in SUBSET Indices
        BY SizeAssumption, FS_Interval DEF Masks, Indices
    <2>2. IsFiniteSet(mask) /\ n <= M /\ (n = M => mask = Indices)
        BY <2>1, FS_Subset
    <2>3. QED
        BY <2>2, FS_CardinalityType, FS_EmptySet
<1>3. short \in 0..S /\ (n = 0 => short = 0)
    <2>1. SubPacketOf(id, last).size = SubPacketSize(last, NumSubPackets(PacketLen[id]), PacketLen[id])
        BY DEF SubPacketOf, SubPacket
    <2>2. PacketLen[id] \in Nat
        BY PacketAssumption
    <2>3. SubPacketOf(id, last).size \in 1..S
        BY <2>1, <2>2, SubPacketSizeType
    <2>4. short \in 0..S
        BY <1>1, <2>3
    <2>5. n = 0 => short = 0
        BY <1>2
    <2>6. QED
        BY <2>4, <2>5
<1>4. BytesOf(mask, id) = n * S - short
    BY DEF BytesOf
<1> HIDE DEF S, M, n, short
<1>5. n * S \in Nat /\ (n # 0 => n * S >= S)
    BY <1>1, <1>2, MultipleIsMore
<1>6. n * S <= S * M /\ (n # M => n * S + S <= S * M) /\ S * M \in Nat
    <2>1. PICK k \in Nat : M = n + k
        <3>1. M - n \in Nat /\ M = n + (M - n)
            BY <1>1, <1>2
        <3>2. QED
            BY <3>1
    <2>2. S * M = n * S + k * S /\ k * S \in Nat
        BY <1>1, <1>2, <2>1
    <2>3. k # 0 => k * S >= S
        BY <1>1, MultipleIsMore
    <2>4. QED
        BY <1>1, <1>2, <1>5, <2>1, <2>2, <2>3
<1>7. QED
    BY <1>1, <1>2, <1>3, <1>4, <1>5, <1>6 DEF S, M

\* All of them are the packet.
LEMMA BytesOfAll ==
    ASSUME NEW id \in PacketIds, NumSubPackets(PacketLen[id]) > 0,
           FitsMask(NumSubPackets(PacketLen[id]))
    PROVE  BytesOf(LowBits(NumSubPackets(PacketLen[id])), id) = PacketLen[id]
<1> DEFINE num == NumSubPackets(PacketLen[id])
           size == SubPacketOf(id, num - 1).size
<1>1. PacketLen[id] \in Nat /\ num \in Nat /\ num > 0
    BY PacketAssumption, NumSubPacketsType
<1>2. LowBits(num) = 0..(num - 1)
    BY <1>1, LowBitsExact
<1>3. Cardinality(LowBits(num)) = num /\ num - 1 \in LowBits(num)
    <2> HIDE DEF num
    <2>1. Cardinality(0..(num - 1)) = (num - 1) - 0 + 1
        BY <1>1, FS_Interval
    <2>2. QED
        BY <1>1, <1>2, <2>1
<1>4. size = SubPacketSize(num - 1, num, PacketLen[id]) /\ size \in Nat
    BY <1>1, SubPacketSizeType DEF SubPacketOf, SubPacket
<1>5. (num - 1) * SubpacketMaxBytes + size = PacketLen[id]
    BY <1>1, <1>3, <1>4, SubPacketsTile
<1>6. (num - 1) * SubpacketMaxBytes = num * SubpacketMaxBytes - SubpacketMaxBytes
    BY <1>1, SizeAssumption
<1>7. BytesOf(LowBits(num), id) = num * SubpacketMaxBytes - (SubpacketMaxBytes - size)
    BY <1>3 DEF BytesOf
<1> HIDE DEF num, size
<1>8. num * SubpacketMaxBytes \in Nat /\ SubpacketMaxBytes \in Nat
    BY <1>1, SizeAssumption
<1>9. BytesOf(LowBits(num), id) = PacketLen[id]
    BY <1>1, <1>4, <1>5, <1>6, <1>7, <1>8
<1>10. QED
    BY <1>9 DEF num

\* A step that sends one datagram sends one copy of it.
LEMMA CopiesOfOne ==
    ASSUME NEW m
    PROVE  Copies(m, <<m>>) = 1
<1>1. { k \in 1..Len(<<m>>) : <<m>>[k] = m } = {1}
    OBVIOUS
<1>2. QED
    BY <1>1, FS_Singleton DEF Copies
=============================================================================
