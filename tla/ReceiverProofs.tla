----------------------------- MODULE ReceiverProofs -----------------------------
(***************************************************************************)
(* Proofs about the receiver node, for every value of its constants: its   *)
(* invariants, what it asks for, and that it implements the abstract       *)
(* reception.                                                              *)
(***************************************************************************)
EXTENDS Receiver, LargePacketLemmas

-----------------------------------------------------------------------------
(***************************************************************************)
(* A step of the node, alone or facing the sender: the lemmas below hold   *)
(* for whatever messages come from given sets.                             *)
(***************************************************************************)

ReceiverStep(signals, subPackets) ==
    \/ \E m \in signals : HandleSignal(m)
    \/ \E m \in subPackets : HandleSubPacket(m)
    \/ ReceiverTimerExpires \/ DeliverToReceiver \/ ReceiverReset

\* The messages of registered packets.
TrueSignals    == { m \in Signals : m = SignalOf(m.id) /\ m.num > 0 }
TrueSubPackets == { m \in SubPackets : m = SubPacketOf(m.id, m.idx) /\ m.idx \in LowBits(m.num) }

\* Some messages of a set are messages of it.
LEMMA FewerMessages ==
    ASSUME ReceiverStep(TrueSignals, TrueSubPackets)
    PROVE  ReceiverStep(Signals, SubPackets)
BY DEF ReceiverStep, TrueSignals, TrueSubPackets

\* To the node alone the network brings messages of registered packets only.
LEMMA NextIsStep ==
    ASSUME ReceiverNext
    PROVE  ReceiverStep(TrueSignals, TrueSubPackets)
<1>1. ASSUME NEW p \in PacketIds, PacketLen[p] # 0
      PROVE  SignalOf(p) \in TrueSignals
    <2>1. SignalOf(p) \in Signals /\ SignalOf(p).id = p
        BY SignalOfType DEF SignalOf, Signal
    <2>2. SignalOf(p).num > 0
        BY <1>1, NumSubPacketsType, PacketAssumption DEF SignalOf, Signal
    <2>3. QED
        BY <2>1, <2>2 DEF TrueSignals
<1>2. ASSUME NEW p \in SentPackets, NEW i \in LowBits(NumSubPackets(PacketLen[p]))
      PROVE  SubPacketOf(p, i) \in TrueSubPackets
    <2>1. SubPacketOf(p, i) \in SubPackets
        BY SubPacketOfType DEF SentPackets, LowBits
    <2>2. /\ SubPacketOf(p, i).id = p /\ SubPacketOf(p, i).idx = i
          /\ SubPacketOf(p, i).num = NumSubPackets(PacketLen[p])
        BY DEF SubPacketOf, SubPacket
    <2>3. QED
        BY <2>1, <2>2 DEF TrueSubPackets
<1>3. QED
    BY <1>1, <1>2 DEF ReceiverNext, ReceiverNetwork, ReceiverStep

\* What a time-out sends is nothing or a request.
LEMMA TimeoutRequestType ==
    ASSUME ReceiverStateOK
    PROVE  TimeoutRequest \in Seq(ReceiverOutputs)
<1>1. MissingMask(rx.mask, rx.num) \in Masks
    BY LowBitsType DEF MissingMask, Masks
<1>2. Request(rx.id, MissingMask(rx.mask, rx.num)) \in ReceiverOutputs
    BY <1>1 DEF Request, Requests, ReceiverOutputs, ReceiverStateOK
<1>3. QED
    BY <1>2 DEF TimeoutRequest

-----------------------------------------------------------------------------
(***************************************************************************)
(* Type correctness.                                                       *)
(***************************************************************************)

\* Storage no sub-packet has been copied to.
LEMMA BlankType == Blank \in Cells
BY SizeAssumption DEF Blank, Cells, Bodies, Indices

\* The initial values have their types.
LEMMA ReceiverTypeInit == ReceiverInit => ReceiverTypeOK
<1> SUFFICES ASSUME ReceiverInit PROVE ReceiverTypeOK
    OBVIOUS
<1>2. Signal(0, 0) \in Signals
    BY SizeAssumption DEF Signal, Signals, PacketIds
<1>3. SubPacket(0, 0, 0, 0, NoBody) \in SubPackets
    BY SizeAssumption DEF SubPacket, SubPackets, PacketIds, Indices, Bodies
<1>4. rx \in [id : PacketIds, num : Nat, mask : Masks, len : 0..(LenModulus - 1)]
    BY SizeAssumption, ReceiverAssumption DEF ReceiverInit, PacketIds, Masks
<1>5. rProc \in [running : BOOLEAN, left : 0..MaxRetransmissionRequests]
    BY ReceiverAssumption DEF ReceiverInit
<1>6. rQueue \in Seq(ReceiverEvents) /\ Len(rQueue) <= QueueSize
    BY QueueAssumption DEF ReceiverInit
<1>7. QED
    BY BlankType, <1>2, <1>3, <1>4, <1>5, <1>6 DEF ReceiverInit, ReceiverTypeOK, ReceiverStateOK

\* The time-out branch keeps the process and its timer well-typed.
LEMMA CheckTimeoutType ==
    ASSUME ReceiverStateOK, CheckTimeout
    PROVE  /\ rProc' \in [running : BOOLEAN, left : 0..MaxRetransmissionRequests]
           /\ rTimer' \in {"off", "set", "expired"}
<1>1. CASE ~TimedOut /\ UNCHANGED <<rProc, rTimer>>
    BY <1>1 DEF ReceiverStateOK
<1>2. CASE Rerequest
    BY <1>2, ReceiverAssumption DEF Rerequest, ReceiverStateOK
<1>3. CASE GiveUp
    BY <1>3 DEF GiveUp, ReceiverStateOK
<1>4. QED
    BY <1>1, <1>2, <1>3 DEF CheckTimeout

\* A received sub-packet leaves the reception and the storage well-typed.
LEMMA TakeSubPacketType ==
    ASSUME ReceiverStateOK, NextEvent("subpacket"), TakeSubPacket
    PROVE  /\ rx' \in [id : PacketIds, num : Nat, mask : Masks, len : 0..(LenModulus - 1)]
           /\ storage' \in [Indices -> Cells]
           /\ rProc' \in [running : BOOLEAN, left : 0..MaxRetransmissionRequests]
           /\ rTimer' \in {"off", "set", "expired"}
           /\ rQueue' \in Seq(ReceiverEvents) /\ Len(rQueue') <= QueueSize
<1>1. subData \in SubPackets
    BY DEF ReceiverStateOK
<1>2. (rx.len + subData.size) % LenModulus \in 0..(LenModulus - 1)
    BY <1>1, ReceiverAssumption, SizeAssumption DEF ReceiverStateOK, SubPackets
<1>3. rx.mask \cup {subData.idx} \in Masks
    BY <1>1 DEF ReceiverStateOK, SubPackets, Masks
<1>4. rx' \in [id : PacketIds, num : Nat, mask : Masks, len : 0..(LenModulus - 1)]
    BY <1>2, <1>3 DEF TakeSubPacket, ReceiverStateOK
<1>5. [body |-> subData.body, idx |-> subData.idx, size |-> subData.size] \in Cells
    BY <1>1 DEF SubPackets, Cells
<1>6. storage' \in [Indices -> Cells]
    BY <1>5 DEF TakeSubPacket, Stored, ReceiverStateOK
<1>7. Tail(rQueue) \in Seq(ReceiverEvents) /\ Len(Tail(rQueue)) <= QueueSize
    BY TailType DEF ReceiverStateOK, NextEvent
<1>8. /\ Post(Tail(rQueue), "received") \in Seq(ReceiverEvents)
      /\ Len(Post(Tail(rQueue), "received")) <= QueueSize
    BY <1>7, PostType DEF ReceiverEvents
<1>9. QED
    BY <1>4, <1>6, <1>7, <1>8 DEF TakeSubPacket, ReceiverStateOK

\* A restarted node is in its initial state.
LEMMA ReceiverResetInits == ReceiverReset => ReceiverInit'
BY DEF ReceiverReset, ReceiverInit

LEMMA ReceiverTypeInitPrimed == ReceiverInit' => ReceiverTypeOK'
BY ReceiverTypeInit, PTL

\* Every step keeps the types: one case per action.
LEMMA ReceiverTypeStep ==
    ASSUME ReceiverStateOK, ReceiverStep(Signals, SubPackets)
    PROVE  ReceiverTypeOK'
<1> USE DEF ReceiverTypeOK
<1>1. ASSUME NEW m \in Signals, HandleSignal(m)
      PROVE  ReceiverTypeOK'
    <2>1. Post(rQueue, "signaled") \in Seq(ReceiverEvents) /\ Len(Post(rQueue, "signaled")) <= QueueSize
        BY PostType DEF ReceiverStateOK, ReceiverEvents
    <2>2. QED
        BY <1>1, <2>1 DEF HandleSignal, ReceiverStateOK
<1>2. ASSUME NEW m \in SubPackets, HandleSubPacket(m)
      PROVE  ReceiverTypeOK'
    <2>1. /\ Post(rQueue, "subpacket") \in Seq(ReceiverEvents)
          /\ Len(Post(rQueue, "subpacket")) <= QueueSize
        BY PostType DEF ReceiverStateOK, ReceiverEvents
    <2>2. QED
        BY <1>2, <2>1 DEF HandleSubPacket, ReceiverStateOK
<1>3. CASE ReceiverTimerExpires
    <2>1. Append(rQueue, "timer") \in Seq(ReceiverEvents) /\ Len(Append(rQueue, "timer")) <= QueueSize
        BY <1>3, QueueAssumption DEF ReceiverTimerExpires, ReceiverStateOK, ReceiverEvents
    <2>2. QED
        BY <1>3, <2>1 DEF ReceiverTimerExpires, ReceiverStateOK
<1>4. CASE DeliverTimeout
    <2>1. Tail(rQueue) \in Seq(ReceiverEvents) /\ Len(Tail(rQueue)) <= QueueSize
        BY <1>4, TailType DEF DeliverTimeout, NextEvent, ReceiverStateOK
    <2>2. QED
        BY <1>4, <2>1, CheckTimeoutType, TimeoutRequestType DEF DeliverTimeout, ReceiverStateOK
<1>5. CASE DeliverSubPacket
    <2>1. Tail(rQueue) \in Seq(ReceiverEvents) /\ Len(Tail(rQueue)) <= QueueSize
        BY <1>5, TailType DEF DeliverSubPacket, NextEvent, ReceiverStateOK
    <2>2. out' \in Seq(ReceiverOutputs) /\ UNCHANGED <<sigData, subData>>
        BY <1>5, TimeoutRequestType DEF DeliverSubPacket
    <2>3. CASE CheckTimeout /\ rQueue' = Tail(rQueue) /\ UNCHANGED <<rx, storage>>
        BY <2>1, <2>2, <2>3, CheckTimeoutType DEF ReceiverStateOK
    <2>4. CASE DiscardSubPacket
        BY <2>1, <2>2, <2>4 DEF DiscardSubPacket, ReceiverStateOK
    <2>5. CASE LeaveOnForeignId
        BY <2>1, <2>2, <2>5 DEF LeaveOnForeignId, ReceiverStateOK
    <2>6. CASE TakeSubPacket
        BY <1>5, <2>2, <2>6, TakeSubPacketType DEF DeliverSubPacket, ReceiverStateOK
    <2>7. QED
        BY <1>5, <2>3, <2>4, <2>5, <2>6 DEF DeliverSubPacket
<1>6. CASE DeliverSignaled
    <2>1. Tail(rQueue) \in Seq(ReceiverEvents) /\ Len(Tail(rQueue)) <= QueueSize
        BY <1>6, TailType DEF DeliverSignaled, NextEvent, ReceiverStateOK
    <2>2. UNCHANGED <<storage, sigData, subData>> /\ rQueue' = Tail(rQueue)
        BY <1>6 DEF DeliverSignaled
    <2>3. CASE StartReception
        <3>1. Request(sigData.id, LowBits(sigData.num)) \in ReceiverOutputs
            BY LowBitsType DEF Request, Requests, ReceiverOutputs, ReceiverStateOK, Signals
        <3>2. out' \in Seq(ReceiverOutputs)
            BY <2>3, <3>1, TimeoutRequestType DEF StartReception
        <3>3. rx' \in [id : PacketIds, num : Nat, mask : Masks, len : 0..(LenModulus - 1)]
            BY <2>3, ReceiverAssumption DEF StartReception, ReceiverStateOK, Signals, Masks
        <3>4. rProc' \in [running : BOOLEAN, left : 0..MaxRetransmissionRequests]
            BY <2>3, ReceiverAssumption DEF StartReception
        <3>5. QED
            BY <2>1, <2>2, <2>3, <3>2, <3>3, <3>4 DEF StartReception, ReceiverStateOK
    <2>4. CASE RefuseSignal
        BY <2>1, <2>2, <2>4, CheckTimeoutType, TimeoutRequestType DEF RefuseSignal, ReceiverStateOK
    <2>5. QED
        BY <1>6, <2>3, <2>4 DEF DeliverSignaled
<1>7. CASE DeliverReceived
    <2>1. Tail(rQueue) \in Seq(ReceiverEvents) /\ Len(Tail(rQueue)) <= QueueSize
        BY <1>7, TailType DEF DeliverReceived, NextEvent, ReceiverStateOK
    <2>2. storage' \in [Indices -> Cells]
        BY <1>7 DEF DeliverReceived, Terminated, ReceiverStateOK, Cells, Bodies
    <2>3. [i \in Indices |-> IF i * SubpacketMaxBytes < rx.len THEN storage'[i] ELSE Blank]
              \in [Indices -> Cells]
        BY <2>2, BlankType
    <2>4. out' \in Seq(ReceiverOutputs)
        BY <1>7, <2>3, TimeoutRequestType DEF DeliverReceived, Printed, ReceiverOutputs, ReceiverStateOK
    <2>5. QED
        BY <1>7, <2>1, <2>2, <2>4, CheckTimeoutType DEF DeliverReceived, ReceiverStateOK
<1>8. CASE ReceiverReset
    BY <1>8, ReceiverResetInits, ReceiverTypeInitPrimed
<1>9. QED
    BY <1>1, <1>2, <1>3, <1>4, <1>5, <1>6, <1>7, <1>8 DEF ReceiverStep, DeliverToReceiver

\* Every variable of the receiver keeps its type: no event is posted beyond the queue's size, no
\* re-request is sent beyond LP_MAX_NUM_RETRANSMISSION_REQUESTS.
THEOREM ReceiverTypeCorrect == ReceiverSpec => []ReceiverTypeOK
<1>1. ReceiverTypeOK /\ [ReceiverNext]_receiverVars => ReceiverTypeOK'
    <2>1. CASE ReceiverNext
        BY <2>1, NextIsStep, FewerMessages, ReceiverTypeStep DEF ReceiverTypeOK
    <2>2. CASE UNCHANGED receiverVars
        BY <2>2 DEF receiverVars, receiver, ReceiverTypeOK, ReceiverStateOK
    <2>3. QED
        BY <2>1, <2>2
<1>2. QED
    BY <1>1, ReceiverTypeInit, PTL DEF ReceiverSpec

-----------------------------------------------------------------------------
(***************************************************************************)
(* No lost wake-up.  The invariant is inductive with the types: an event   *)
(* posted leaves the timer's event in the queue, and any event delivered   *)
(* leaves a running process with its timer set.                            *)
(***************************************************************************)

\* After an event, a process still running has its timer set.
LEMMA CheckTimeoutSets ==
    ASSUME ReceiverStateOK, NoLostWakeup, CheckTimeout
    PROVE  rProc'.running => rTimer' = "set"
<1>1. CASE ~TimedOut /\ UNCHANGED <<rProc, rTimer>>
    BY <1>1 DEF TimedOut, NoLostWakeup
<1>2. CASE Rerequest
    BY <1>2 DEF Rerequest
<1>3. CASE GiveUp
    BY <1>3 DEF GiveUp, ReceiverStateOK
<1>4. QED
    BY <1>1, <1>2, <1>3 DEF CheckTimeout

\* A step leaves a running process with its timer set, or with the timer event in the queue.
LEMMA WakeupStep ==
    ASSUME ReceiverStateOK, NoLostWakeup, ReceiverStep(Signals, SubPackets)
    PROVE  NoLostWakeup'
<1>1. ASSUME NEW e \in ReceiverEvents, rQueue' = Post(rQueue, e), UNCHANGED <<rProc, rTimer>>
      PROVE  NoLostWakeup'
    <2>1. \A k \in 1..Len(rQueue) : k \in 1..Len(rQueue') /\ rQueue'[k] = rQueue[k]
        BY <1>1, PostKeeps DEF ReceiverStateOK
    <2>2. QED
        BY <1>1, <2>1 DEF NoLostWakeup
<1>2. CASE \/ \E m \in Signals : HandleSignal(m)
           \/ \E m \in SubPackets : HandleSubPacket(m)
    BY <1>1, <1>2 DEF HandleSignal, HandleSubPacket, ReceiverEvents
<1>3. CASE ReceiverTimerExpires
    <2>1. rQueue' = Append(rQueue, "timer") /\ rTimer' = "expired"
        BY <1>3 DEF ReceiverTimerExpires
    <2>2. Len(rQueue) + 1 \in 1..Len(rQueue') /\ rQueue'[Len(rQueue) + 1] = "timer"
        BY <2>1 DEF ReceiverStateOK
    <2>3. QED
        BY <2>1, <2>2 DEF NoLostWakeup
<1>4. CASE DeliverToReceiver
    <2> SUFFICES rProc'.running => rTimer' = "set"
        BY DEF NoLostWakeup
    <2>1. CASE CheckTimeout
        BY <2>1, CheckTimeoutSets
    <2>2. CASE DiscardSubPacket
        BY <2>2 DEF DiscardSubPacket
    <2>3. CASE LeaveOnForeignId
        BY <2>3 DEF LeaveOnForeignId, ReceiverStateOK
    <2>4. CASE TakeSubPacket
        BY <2>4 DEF TakeSubPacket, ReceiverStateOK
    <2>5. CASE StartReception
        BY <2>5 DEF StartReception
    <2>6. QED
        BY <1>4, <2>1, <2>2, <2>3, <2>4, <2>5
        DEF DeliverToReceiver, DeliverTimeout, DeliverSubPacket, DeliverSignaled, RefuseSignal,
            DeliverReceived
<1>5. CASE ReceiverReset
    BY <1>5 DEF ReceiverReset, NoLostWakeup
<1>6. QED
    BY <1>2, <1>3, <1>4, <1>5 DEF ReceiverStep

\* A running receive process is always woken again: its timer is set, or the timer's event waits
\* in the queue.
THEOREM WakeupHolds == ReceiverSpec => []NoLostWakeup
<1>1. ReceiverInit => NoLostWakeup
    BY DEF ReceiverInit, NoLostWakeup
<1>2. ReceiverTypeOK /\ NoLostWakeup /\ [ReceiverNext]_receiverVars => NoLostWakeup'
    <2>1. CASE ReceiverNext
        BY <2>1, NextIsStep, FewerMessages, WakeupStep DEF ReceiverTypeOK
    <2>2. CASE UNCHANGED receiverVars
        BY <2>2 DEF receiverVars, receiver, NoLostWakeup
    <2>3. QED
        BY <2>1, <2>2
<1>3. QED
    BY <1>1, <1>2, ReceiverTypeCorrect, PTL DEF ReceiverSpec

-----------------------------------------------------------------------------
(***************************************************************************)
(* What the static data, the reception and the storage say of the packets  *)
(* the sender has.  The event data are those of a registered packet as     *)
(* long as an event for them is in the queue, so that a reception has the  *)
(* packet's own number of sub-packets, and a sub-packet with the id of the *)
(* reception belongs to it.                                                *)
(***************************************************************************)

Waiting(event) == \E k \in 1..Len(rQueue) : rQueue[k] = event

Coherent ==
    /\ Waiting("signaled") => sigData = SignalOf(sigData.id) /\ sigData.num > 0
    /\ Waiting("subpacket") =>
          /\ subData = SubPacketOf(subData.id, subData.idx)
          /\ subData.idx \in LowBits(subData.num)
    /\ rx.num > 0 => FitsMask(rx.num) /\ rx.num = NumSubPackets(PacketLen[rx.id])
    /\ rx.mask \subseteq LowBits(rx.num)
    /\ rProc.running => rx.num > 0 /\ rx.mask # LowBits(rx.num)

\* The invariant the three theorems below rest on.
ReceptionInv == ReceiverStateOK /\ Coherent /\ MarkedIsStored

\* An event that waits after a post waited before, or is the one posted.
LEMMA PostWaits ==
    ASSUME ReceiverStateOK, NEW e \in ReceiverEvents, rQueue' = Post(rQueue, e), NEW d, Waiting(d)'
    PROVE  d = e \/ Waiting(d)
BY DEF Post, Waiting, ReceiverStateOK

\* An event that waits after a delivery waited before.
LEMMA TailWaits ==
    ASSUME ReceiverStateOK, rQueue # <<>>, rQueue' = Tail(rQueue), NEW d, Waiting(d)'
    PROVE  Waiting(d)
<1>1. PICK k \in 1..Len(Tail(rQueue)) : Tail(rQueue)[k] = d
    BY DEF Waiting
<1>2. k + 1 \in 1..Len(rQueue) /\ rQueue[k + 1] = d
    BY <1>1 DEF ReceiverStateOK
<1>3. QED
    BY <1>2 DEF Waiting

\* The event being delivered is one that waits.
LEMMA HeadWaits ==
    ASSUME ReceiverStateOK, NEW e, NextEvent(e)
    PROVE  rQueue # <<>> /\ Waiting(e)
<1>1. 1 \in 1..Len(rQueue) /\ rQueue[1] = e
    BY DEF NextEvent, ReceiverStateOK
<1>2. QED
    BY <1>1 DEF Waiting, NextEvent

\* The reception, its process and the waiting events are as before, but for events taken off.
LEMMA CoherentKept ==
    ASSUME ReceiverStateOK, Coherent, rQueue # <<>>, rQueue' = Tail(rQueue),
           UNCHANGED <<sigData, subData, rx>>,
           rProc'.running => rProc.running
    PROVE  Coherent'
<1>1. \A d : Waiting(d)' => Waiting(d)
    BY TailWaits
<1>2. QED
    BY <1>1 DEF Coherent, Waiting

\* The time-out branch never starts the process.
LEMMA CheckTimeoutStops ==
    ASSUME ReceiverStateOK, CheckTimeout
    PROVE  rProc'.running => rProc.running
BY DEF CheckTimeout, Rerequest, GiveUp, TimedOut, ReceiverStateOK

\* A sub-packet taken is one of the reception's.
LEMMA TakeSubPacketCoherent ==
    ASSUME ReceiverStateOK, Coherent, NextEvent("subpacket"), rProc.running, TakeSubPacket,
           UNCHANGED <<sigData, subData>>
    PROVE  Coherent'
<1>1. rQueue # <<>> /\ Waiting("subpacket")
    BY HeadWaits
<1>2. /\ subData = SubPacketOf(subData.id, subData.idx)
      /\ subData.idx \in LowBits(subData.num)
      /\ subData.id = rx.id
    BY <1>1 DEF Coherent, TakeSubPacket
<1>3. subData.num = rx.num
    BY <1>2 DEF Coherent, SubPacketOf, SubPacket
<1>4. rx'.num = rx.num /\ rx'.id = rx.id /\ rx'.mask = rx.mask \cup {subData.idx}
    BY DEF TakeSubPacket, ReceiverStateOK
<1>5. rx'.mask \subseteq LowBits(rx'.num)
    BY <1>2, <1>3, <1>4 DEF Coherent
<1>6. rProc'.running => rx'.num > 0 /\ rx'.mask # LowBits(rx'.num)
    BY <1>3, <1>4 DEF TakeSubPacket, AllReceived, Coherent, ReceiverStateOK
<1>7. \A d : Waiting(d)' => Waiting(d) \/ d = "received"
    <2>1. CASE rQueue' = Tail(rQueue)
        BY <1>1, <2>1, TailWaits
    <2>2. CASE rQueue' = Post(Tail(rQueue), "received")
        <3> SUFFICES ASSUME NEW d, Waiting(d)', d # "received"
                     PROVE  Waiting(d)
            OBVIOUS
        <3>1. PICK k \in 1..Len(rQueue') : rQueue'[k] = d
            BY DEF Waiting
        <3>2. k + 1 \in 1..Len(rQueue) /\ rQueue[k + 1] = d
            BY <1>1, <2>2, <3>1 DEF Post, ReceiverStateOK
        <3>3. QED
            BY <3>2 DEF Waiting
    <2>3. QED
        BY <2>1, <2>2 DEF TakeSubPacket
<1>8. QED
    BY <1>4, <1>5, <1>6, <1>7 DEF Coherent

\* A step leaves behind every waiting event the data of a real signal or sub-packet, and in the
\* mask only bits of the packet.
LEMMA CoherentStep ==
    ASSUME ReceiverStateOK, Coherent, ReceiverStep(TrueSignals, TrueSubPackets)
    PROVE  Coherent'
<1>1. ASSUME NEW m \in TrueSignals, HandleSignal(m)
      PROVE  Coherent'
    <2>1. sigData' = SignalOf(sigData'.id) /\ sigData'.num > 0
        BY <1>1 DEF HandleSignal, TrueSignals
    <2>2. Waiting("subpacket")' => Waiting("subpacket")
        BY <1>1, PostWaits DEF HandleSignal, ReceiverEvents
    <2>3. QED
        BY <1>1, <2>1, <2>2 DEF Coherent, HandleSignal
<1>2. ASSUME NEW m \in TrueSubPackets, HandleSubPacket(m)
      PROVE  Coherent'
    <2>1. subData' = SubPacketOf(subData'.id, subData'.idx) /\ subData'.idx \in LowBits(subData'.num)
        BY <1>2 DEF HandleSubPacket, TrueSubPackets
    <2>2. Waiting("signaled")' => Waiting("signaled")
        BY <1>2, PostWaits DEF HandleSubPacket, ReceiverEvents
    <2>3. QED
        BY <1>2, <2>1, <2>2 DEF Coherent, HandleSubPacket
<1>3. CASE ReceiverTimerExpires
    <2>1. rQueue' = Post(rQueue, "timer") /\ UNCHANGED <<rx, rProc, sigData, subData>>
        BY <1>3 DEF ReceiverTimerExpires, Post
    <2>2. \A d : Waiting(d)' => Waiting(d) \/ d = "timer"
        BY <2>1, PostWaits DEF ReceiverEvents
    <2>3. QED
        BY <2>1, <2>2 DEF Coherent
<1>4. CASE DeliverTimeout
    BY <1>4, HeadWaits, CheckTimeoutStops, CoherentKept DEF DeliverTimeout
<1>5. CASE DeliverSubPacket
    <2>1. rQueue # <<>> /\ UNCHANGED <<sigData, subData>>
        BY <1>5, HeadWaits DEF DeliverSubPacket
    <2>2. CASE CheckTimeout /\ rQueue' = Tail(rQueue) /\ UNCHANGED <<rx, storage>>
        BY <2>1, <2>2, CheckTimeoutStops, CoherentKept
    <2>3. CASE DiscardSubPacket
        BY <2>1, <2>3, CoherentKept DEF DiscardSubPacket
    <2>4. CASE LeaveOnForeignId
        <3>1. rProc'.running = FALSE
            BY <2>4 DEF LeaveOnForeignId, ReceiverStateOK
        <3>2. QED
            BY <2>1, <2>4, <3>1, CoherentKept DEF LeaveOnForeignId
    <2>5. CASE rProc.running /\ TakeSubPacket
        BY <1>5, <2>1, <2>5, TakeSubPacketCoherent DEF DeliverSubPacket
    <2>6. QED
        BY <1>5, <2>2, <2>3, <2>4, <2>5 DEF DeliverSubPacket
<1>6. CASE DeliverSignaled
    <2>1. /\ rQueue # <<>> /\ rQueue' = Tail(rQueue) /\ UNCHANGED <<sigData, subData>>
          /\ sigData = SignalOf(sigData.id) /\ sigData.num > 0
        BY <1>6, HeadWaits DEF DeliverSignaled, Coherent
    <2>2. CASE StartReception
        <3>1. sigData.num = NumSubPackets(PacketLen[sigData.id])
            BY <2>1 DEF SignalOf, Signal
        <3>2. rx'.num > 0 /\ FitsMask(rx'.num) /\ rx'.num = NumSubPackets(PacketLen[rx'.id])
            BY <2>1, <2>2, <3>1 DEF StartReception
        <3>3. rx'.mask = {}
            BY <2>2 DEF StartReception
        <3>4. 0 \in LowBits(rx'.num)
            BY <2>2, <3>2, SizeAssumption DEF LowBits, Indices, StartReception, ReceiverStateOK, Signals
        <3>5. \A d : Waiting(d)' => Waiting(d)
            BY <2>1, TailWaits
        <3>6. QED
            BY <2>1, <3>2, <3>3, <3>4, <3>5 DEF Coherent
    <2>3. CASE RefuseSignal
        BY <2>1, <2>3, CheckTimeoutStops, CoherentKept DEF RefuseSignal
    <2>4. QED
        BY <1>6, <2>2, <2>3 DEF DeliverSignaled
<1>7. CASE DeliverReceived
    BY <1>7, HeadWaits, CheckTimeoutStops, CoherentKept DEF DeliverReceived
<1>8. CASE ReceiverReset
    BY <1>8 DEF ReceiverReset, Coherent, Waiting
<1>9. QED
    BY <1>1, <1>2, <1>3, <1>4, <1>5, <1>6, <1>7, <1>8 DEF ReceiverStep, DeliverToReceiver

\* A sub-packet taken is stored at its place with its own bytes, and the others stay.
LEMMA TakeSubPacketStored ==
    ASSUME ReceiverStateOK, Coherent, MarkedIsStored, NextEvent("subpacket"), TakeSubPacket
    PROVE  MarkedIsStored'
<1>1. subData = SubPacketOf(subData.id, subData.idx) /\ subData.id = rx.id
    BY HeadWaits DEF Coherent, TakeSubPacket
<1>2. subData \in SubPackets
    BY DEF ReceiverStateOK
<1>3. subData.size > 0
    BY <1>1, <1>2, SubPacketOfType DEF SubPackets
<1>4. subData.body = rx.id
    BY <1>1 DEF SubPacketOf, SubPacket
<1>5. storage' = [storage EXCEPT ![subData.idx] =
                     [body |-> rx.id, idx |-> subData.idx, size |-> subData.size]]
    BY <1>2, <1>3, <1>4 DEF TakeSubPacket, Stored, SubPackets
<1>6. rx'.id = rx.id /\ rx'.mask = rx.mask \cup {subData.idx}
    BY DEF TakeSubPacket, ReceiverStateOK
<1>7. rx.mask \subseteq Indices
    BY DEF ReceiverStateOK, Masks
<1> SUFFICES ASSUME NEW i \in rx'.mask
             PROVE  /\ storage'[i].idx = i
                    /\ storage'[i].size = SubPacketOf(rx.id, i).size
                    /\ storage'[i].body \in {rx.id, NoBody}
    BY <1>6 DEF MarkedIsStored
<1>8. CASE i = subData.idx
    BY <1>1, <1>2, <1>5, <1>8 DEF ReceiverStateOK, SubPackets
<1>9. CASE i # subData.idx
    BY <1>5, <1>6, <1>7, <1>9 DEF MarkedIsStored, ReceiverStateOK
<1>10. QED
    BY <1>8, <1>9

\* A step marks no sub-packet that is not at its place, and moves none that is.
LEMMA StoredStep ==
    ASSUME ReceiverStateOK, Coherent, MarkedIsStored, ReceiverStep(TrueSignals, TrueSubPackets)
    PROVE  MarkedIsStored'
<1>1. CASE UNCHANGED <<rx, storage>>
    BY <1>1 DEF MarkedIsStored
<1>2. CASE NextEvent("subpacket") /\ TakeSubPacket
    BY <1>2, TakeSubPacketStored
<1>3. CASE StartReception
    BY <1>3 DEF StartReception, MarkedIsStored
<1>4. CASE DeliverReceived
    <2>1. storage' = Terminated /\ UNCHANGED rx
        BY <1>4 DEF DeliverReceived
    <2>2. \A i \in Indices : /\ storage'[i].idx = storage[i].idx
                            /\ storage'[i].size = storage[i].size
                            /\ storage'[i].body \in {storage[i].body, NoBody}
        BY <2>1 DEF Terminated, ReceiverStateOK, Cells
    <2>3. rx.mask \subseteq Indices
        BY DEF ReceiverStateOK, Masks
    <2>4. QED
        BY <2>1, <2>2, <2>3 DEF MarkedIsStored
<1>5. CASE ReceiverReset
    BY <1>5 DEF ReceiverReset, MarkedIsStored
<1>6. QED
    BY <1>1, <1>2, <1>3, <1>4, <1>5
    DEF ReceiverStep, HandleSignal, HandleSubPacket, ReceiverTimerExpires, DeliverToReceiver,
        DeliverTimeout, DeliverSubPacket, DiscardSubPacket, LeaveOnForeignId, DeliverSignaled,
        RefuseSignal

\* The three parts of the invariant hold together.
LEMMA ReceptionInvariant == ReceiverSpec => []ReceptionInv
<1>1. ReceiverInit => Coherent /\ MarkedIsStored
    <2> SUFFICES ASSUME ReceiverInit PROVE Coherent /\ MarkedIsStored
        OBVIOUS
    <2>1. ~Waiting("signaled") /\ ~Waiting("subpacket")
        BY DEF ReceiverInit, Waiting
    <2>2. QED
        BY <2>1 DEF ReceiverInit, Coherent, MarkedIsStored
<1>2. ReceiverInit => ReceptionInv
    BY <1>1, ReceiverTypeInit DEF ReceptionInv, ReceiverTypeOK
<1>3. ReceptionInv /\ ReceiverTypeOK /\ ReceiverTypeOK' /\ [ReceiverNext]_receiverVars => ReceptionInv'
    <2>1. CASE ReceiverNext
        BY <2>1, NextIsStep, CoherentStep, StoredStep DEF ReceptionInv, ReceiverTypeOK
    <2>2. CASE UNCHANGED receiverVars
        BY <2>2 DEF receiverVars, receiver, ReceptionInv, ReceiverTypeOK, Coherent, Waiting, MarkedIsStored
    <2>3. QED
        BY <2>1, <2>2
<1>4. QED
    BY <1>2, <1>3, ReceiverTypeCorrect, PTL DEF ReceiverSpec

\* Whatever the order in which datagrams come, events are delivered and static buffers are
\* overwritten, a sub-packet marked as received lies at its place with its own bytes, but for
\* the '\0' of a display.
THEOREM StorageHolds == ReceiverSpec => []MarkedIsStored
BY ReceptionInvariant, PTL DEF ReceptionInv

-----------------------------------------------------------------------------
(***************************************************************************)
(* Requests.                                                               *)
(***************************************************************************)

\* A re-request asks for something, and for all that the reception lacks.
LEMMA TimeoutRequestAsks ==
    ASSUME ReceiverStateOK, Coherent, NEW k \in 1..Len(TimeoutRequest)
    PROVE  TimeoutRequest[k].mask # {} /\ AsksFor(TimeoutRequest[k], rx)
<1>1. TimedOut /\ TimeoutRequest = <<Request(rx.id, MissingMask(rx.mask, rx.num))>>
    BY DEF TimeoutRequest
<1>2. TimeoutRequest[k] = Request(rx.id, LowBits(rx.num) \ rx.mask)
    BY <1>1 DEF MissingMask
<1>3. /\ LowBits(rx.num) = 0..(rx.num - 1)
      /\ rx.mask \subseteq LowBits(rx.num) /\ rx.mask # LowBits(rx.num)
    BY <1>1, LowBitsExact DEF TimedOut, Coherent, ReceiverStateOK
<1>4. TimeoutRequest[k].id = rx.id /\ TimeoutRequest[k].mask = LowBits(rx.num) \ rx.mask
    BY <1>2 DEF Request
<1>5. LowBits(rx.num) \ rx.mask # {} /\ (LowBits(rx.num) \ rx.mask) \cap rx.mask = {}
    BY <1>3
<1>6. (LowBits(rx.num) \ rx.mask) \cup rx.mask = 0..(rx.num - 1)
    BY <1>3
<1>7. QED
    BY <1>4, <1>5, <1>6 DEF AsksFor

\* The request that opens a reception asks for the whole packet.
LEMMA FirstRequestAsks ==
    ASSUME ReceiverStateOK, Coherent, NextEvent("signaled"), StartReception
    PROVE  LET request == Request(sigData.id, LowBits(sigData.num))
           IN  request.mask # {} /\ AsksFor(request, rx')
<1>1. sigData.num > 0 /\ sigData.num \in Nat
    BY HeadWaits DEF Coherent, ReceiverStateOK, Signals
<1>2. LowBits(sigData.num) = 0..(sigData.num - 1)
    BY <1>1, LowBitsExact DEF StartReception
<1>3. rx'.id = sigData.id /\ rx'.num = sigData.num /\ rx'.mask = {}
    BY DEF StartReception
<1>4. 0 \in LowBits(sigData.num)
    BY <1>1, <1>2
<1> DEFINE request == Request(sigData.id, LowBits(sigData.num))
<1>5. request.id = sigData.id /\ request.mask = LowBits(sigData.num)
    BY DEF Request
<1>6. request.mask # {} /\ AsksFor(request, rx')
    BY <1>2, <1>3, <1>4, <1>5 DEF AsksFor
<1>7. QED
    BY <1>6

\* A request comes from the time-out branch, or opens a reception.
LEMMA RequestSource ==
    ASSUME ReceiverStateOK, ReceiverStep(Signals, SubPackets),
           NEW k \in 1..Len(out'), out'[k].type # "printed"
    PROVE  \/ k \in 1..Len(TimeoutRequest) /\ out'[k] = TimeoutRequest[k]
           \/ /\ NextEvent("signaled") /\ StartReception
              /\ out'[k] = Request(sigData.id, LowBits(sigData.num))
<1>1. CASE out' = <<>>
    BY <1>1
<1>2. CASE out' = TimeoutRequest
    BY <1>2
<1>3. CASE NextEvent("signaled") /\ StartReception
    <2>1. out' = TimeoutRequest \o <<Request(sigData.id, LowBits(sigData.num))>>
        BY <1>3 DEF StartReception
    <2>2. TimeoutRequest \in Seq(ReceiverOutputs)
        BY TimeoutRequestType
    <2>3. CASE k \in 1..Len(TimeoutRequest)
        BY <2>1, <2>2, <2>3
    <2>4. CASE k \notin 1..Len(TimeoutRequest)
        BY <1>3, <2>1, <2>2, <2>4
    <2>5. QED
        BY <2>3, <2>4
<1>4. CASE DeliverReceived
    <2>1. PICK text : out' = Append(TimeoutRequest, Printed(rx.len, text))
        BY <1>4 DEF DeliverReceived
    <2>2. TimeoutRequest \in Seq(ReceiverOutputs)
        BY TimeoutRequestType
    <2>3. QED
        BY <2>1, <2>2 DEF Printed
<1>5. QED
    BY <1>1, <1>2, <1>3, <1>4
    DEF ReceiverStep, HandleSignal, HandleSubPacket, ReceiverTimerExpires, DeliverToReceiver,
        DeliverTimeout, DeliverSubPacket, DeliverSignaled, RefuseSignal, ReceiverReset

\* A step asks only for what the reception before or after it lacks.
LEMMA RequestsStep ==
    ASSUME ReceiverStateOK, Coherent, ReceiverStep(Signals, SubPackets),
           NEW k \in 1..Len(out'), out'[k].type = "request"
    PROVE  out'[k].mask # {} /\ \E r \in {rx, rx'} : AsksFor(out'[k], r)
BY RequestSource, TimeoutRequestAsks, FirstRequestAsks

\* Every request, the first of a reception or after a time-out, asks exactly for the sub-packets
\* the reception lacks, and for at least one.
THEOREM RequestsHold == ReceiverSpec => RequestsWhatIsMissing
<1>1. ReceptionInv /\ [ReceiverNext]_receiverVars =>
          [ \A k \in 1..Len(out') : out'[k].type = "request" =>
               /\ out'[k].mask # {}
               /\ \E r \in {rx, rx'} : AsksFor(out'[k], r) ]_receiverVars
    BY NextIsStep, FewerMessages, RequestsStep DEF ReceptionInv
<1>2. QED
    BY <1>1, ReceptionInvariant, PTL DEF ReceiverSpec, RequestsWhatIsMissing

-----------------------------------------------------------------------------
(***************************************************************************)
(* The node implements the abstract reception.  Announcements are counted  *)
(* in the queue.                                                           *)
(***************************************************************************)

\* There are finitely many.
LEMMA AnnouncementsFinite ==
    ASSUME NEW q \in Seq(ReceiverEvents)
    PROVE  IsFiniteSet(Announcements(q)) /\ Cardinality(Announcements(q)) \in Nat
<1>1. IsFiniteSet(1..Len(q)) /\ Announcements(q) \in SUBSET (1..Len(q))
    BY FS_Interval DEF Announcements
<1>2. IsFiniteSet(Announcements(q))
    BY <1>1, FS_Subset
<1>3. QED
    BY <1>2, FS_CardinalityType

\* An event appended is an announcement more, or none.
LEMMA AppendAnnounces ==
    ASSUME NEW q \in Seq(ReceiverEvents), NEW e \in ReceiverEvents
    PROVE  Cardinality(Announcements(Append(q, e))) =
               Cardinality(Announcements(q)) + (IF e = "received" THEN 1 ELSE 0)
<1> DEFINE r == Append(q, e)
<1>1. Len(r) = Len(q) + 1 /\ r[Len(q) + 1] = e /\ \A k \in 1..Len(q) : r[k] = q[k]
    OBVIOUS
<1> HIDE DEF r
<1>2. CASE e = "received"
    <2>1. Announcements(r) = Announcements(q) \cup {Len(q) + 1} /\ Len(q) + 1 \notin Announcements(q)
        BY <1>1, <1>2 DEF Announcements
    <2>2. Cardinality(Announcements(r)) = Cardinality(Announcements(q)) + 1
        BY <2>1, AnnouncementsFinite, FS_AddElement
    <2>3. QED
        BY <1>2, <2>2 DEF r
<1>3. CASE e # "received"
    <2>1. Announcements(r) = Announcements(q)
        BY <1>1, <1>3 DEF Announcements
    <2>2. QED
        BY <1>3, <2>1, AnnouncementsFinite DEF r
<1>4. QED
    BY <1>2, <1>3

\* Taking off the head takes off one announcement, if the head is one: those left have moved up
\* by one place.
LEMMA TailAnnounces ==
    ASSUME NEW q \in Seq(ReceiverEvents), q # <<>>
    PROVE  Cardinality(Announcements(q)) =
               Cardinality(Announcements(Tail(q))) + (IF Head(q) = "received" THEN 1 ELSE 0)
<1> DEFINE t == Tail(q)
           Later == Announcements(q) \ {1}
           shift == [k \in Announcements(t) |-> k + 1]
<1>1. t \in Seq(ReceiverEvents) /\ Len(t) = Len(q) - 1 /\ Len(q) > 0 /\ Len(q) \in Nat
    OBVIOUS
<1>2. \A k \in 1..Len(t) : t[k] = q[k + 1]
    OBVIOUS
<1>3. q[1] = Head(q)
    OBVIOUS
<1> HIDE DEF t
<1>4. \A k \in Announcements(t) : k + 1 \in Later
    BY <1>1, <1>2 DEF Announcements
<1>5. \A k \in Later : k - 1 \in Announcements(t) /\ k = (k - 1) + 1
    BY <1>1, <1>2 DEF Announcements
<1>6. shift \in Bijection(Announcements(t), Later)
    <2>1. shift \in [Announcements(t) -> Later]
        BY <1>4
    <2>2. IsInjective(shift)
        <3>1. Announcements(t) \subseteq Nat
            BY DEF Announcements
        <3>2. QED
            BY <3>1 DEF IsInjective
    <2>3. \A y \in Later : \E k \in Announcements(t) : shift[k] = y
        BY <1>5
    <2>4. QED
        BY <2>1, <2>2, <2>3 DEF Bijection, Injection, Surjection
<1>7. Cardinality(Later) = Cardinality(Announcements(t)) /\ Cardinality(Later) \in Nat
    BY <1>1, <1>6, AnnouncementsFinite, FS_Bijection DEF ExistsBijection
<1>8. IsFiniteSet(Announcements(q)) /\ Cardinality(Announcements(q)) \in Nat
    BY AnnouncementsFinite
<1>9. Cardinality(Later) =
          IF 1 \in Announcements(q) THEN Cardinality(Announcements(q)) - 1
                                    ELSE Cardinality(Announcements(q))
    BY <1>8, FS_RemoveElement
<1>10. 1 \in Announcements(q) <=> Head(q) = "received"
    BY <1>1, <1>3 DEF Announcements
<1>11. QED
    BY <1>7, <1>8, <1>9, <1>10 DEF t

\* The queue without its head is a queue, with room for one event more.
LEMMA TailIsQueue ==
    ASSUME ReceiverStateOK, rQueue # <<>>
    PROVE  /\ rQueue \in Seq(ReceiverEvents)
           /\ Tail(rQueue) \in Seq(ReceiverEvents)
           /\ Len(Tail(rQueue)) < QueueSize
<1>1. rQueue \in Seq(ReceiverEvents) /\ Len(rQueue) <= QueueSize /\ QueueSize \in Nat
    BY QueueAssumption DEF ReceiverStateOK
<1>2. Tail(rQueue) \in Seq(ReceiverEvents)
    BY <1>1
<1>3. Len(rQueue) \in Nat /\ Len(Tail(rQueue)) = Len(rQueue) - 1
    BY <1>1
<1>4. QED
    BY <1>1, <1>2, <1>3

-----------------------------------------------------------------------------
(***************************************************************************)
(* Every step of the receiver is a step of the reception, or none.         *)
(***************************************************************************)

Ready == Cardinality(Announcements(rQueue))

Maps == Promise!Next \/ (UNCHANGED Promise!reception /\ Ready' = Ready)

\* Before any signal, no reception is open and nothing is to be announced.
LEMMA PromiseInitMaps == ReceiverInit => Promise!Init
<1> SUFFICES ASSUME ReceiverInit PROVE Promise!Init
    OBVIOUS
<1>1. LowBits(0) = {}
    BY DEF LowBits, Indices
<1>2. Announcements(rQueue) = {}
    BY DEF ReceiverInit, Announcements
<1>3. Ready = 0
    BY <1>2, FS_EmptySet DEF Ready
<1>4. MaxRetransmissionRequests - 0 \in 0..MaxRetransmissionRequests
    BY ReceiverAssumption
<1>5. QED
    BY <1>1, <1>3, <1>4 DEF ReceiverInit, Promise!Init, Ready

\* The time-out branch is a retry or, after the last, the end of the reception, which lacks something;
\* or nothing.
LEMMA CheckTimeoutMaps ==
    ASSUME ReceiverStateOK, Coherent, CheckTimeout, UNCHANGED rx
    PROVE  Promise!Retry \/ Promise!GiveUp \/ UNCHANGED Promise!reception
<1> rProc.left \in 0..MaxRetransmissionRequests
    BY DEF ReceiverStateOK
<1>1. CASE ~TimedOut /\ UNCHANGED <<rProc, rTimer>>
    BY <1>1 DEF Promise!reception
<1>2. CASE Rerequest
    <2>1. /\ rProc.running /\ rProc'.running = rProc.running
          /\ rTimer = "expired" /\ rTimer' = "set"
          /\ rProc'.left = rProc.left - 1 /\ rProc.left > 0
        BY <1>2 DEF Rerequest, TimedOut, ReceiverStateOK
    <2>2. /\ MaxRetransmissionRequests - rProc.left < MaxRetransmissionRequests
          /\ MaxRetransmissionRequests - rProc'.left = (MaxRetransmissionRequests - rProc.left) + 1
        BY <2>1, ReceiverAssumption
    <2>3. QED
        BY <2>1, <2>2 DEF Promise!Retry
<1>3. CASE GiveUp
    <2>1. /\ rProc.running /\ ~rProc'.running /\ rProc'.left = rProc.left /\ rProc.left = 0
          /\ rTimer = "expired"
        BY <1>3 DEF GiveUp, TimedOut, ReceiverStateOK
    <2>2. MaxRetransmissionRequests - rProc.left = MaxRetransmissionRequests
        BY <2>1, ReceiverAssumption
    <2>3. QED
        BY <2>1, <2>2 DEF Promise!GiveUp, Coherent
<1>4. QED
    BY <1>1, <1>2, <1>3 DEF CheckTimeout

\* A post that is no announcement, or its loss, is no step of the reception.
LEMMA PostMaps ==
    ASSUME ReceiverStateOK, NEW e \in ReceiverEvents \ {"received"}, rQueue' = Post(rQueue, e),
           UNCHANGED <<rx, rProc, rTimer>>
    PROVE  UNCHANGED Promise!reception /\ Ready' = Ready
<1>1. UNCHANGED Promise!reception
    BY DEF Promise!reception
<1>2. rQueue \in Seq(ReceiverEvents)
    BY DEF ReceiverStateOK
<1>3. Cardinality(Announcements(Append(rQueue, e))) = Cardinality(Announcements(rQueue))
    BY <1>2, AppendAnnounces, AnnouncementsFinite
<1>4. Ready' = Ready
    BY <1>3 DEF Ready, Post
<1>5. QED
    BY <1>1, <1>4

\* A sub-packet taken is gathered, and with the last one the reception completes: it carries the
\* reception's own number of sub-packets.
LEMMA TakeSubPacketMaps ==
    ASSUME ReceiverStateOK, Coherent, NextEvent("subpacket"), rProc.running, ~TimedOut, TakeSubPacket
    PROVE  Promise!Next
<1>1. rQueue # <<>> /\ Waiting("subpacket") /\ Head(rQueue) = "subpacket"
    BY HeadWaits DEF NextEvent
<1>2. /\ subData = SubPacketOf(subData.id, subData.idx)
      /\ subData.idx \in LowBits(subData.num)
      /\ subData.id = rx.id
    BY <1>1 DEF Coherent, TakeSubPacket
<1>3. subData.num = rx.num
    BY <1>2 DEF Coherent, SubPacketOf, SubPacket
<1>4. rx'.num = rx.num /\ rx'.mask = rx.mask \cup {subData.idx} /\ subData.idx \in LowBits(rx.num)
    BY <1>2, <1>3 DEF TakeSubPacket, ReceiverStateOK
<1>5. Tail(rQueue) \in Seq(ReceiverEvents) /\ Len(Tail(rQueue)) < QueueSize
    BY <1>1, TailIsQueue
<1>6. Cardinality(Announcements(Tail(rQueue))) = Ready /\ Ready \in Nat
    <2>1. rQueue \in Seq(ReceiverEvents) /\ Head(rQueue) # "received"
        BY <1>1, TailIsQueue
    <2>2. Cardinality(Announcements(Tail(rQueue))) \in Nat
        BY <1>5, AnnouncementsFinite
    <2>3. Cardinality(Announcements(rQueue)) = Cardinality(Announcements(Tail(rQueue))) + 0
        BY <1>1, <2>1, TailAnnounces
    <2>4. QED
        BY <2>2, <2>3 DEF Ready
<1> rTimer # "expired"
    BY DEF TimedOut
<1>7. CASE AllReceived(rx'.mask, subData.num)
    <2>1. ~rProc'.running /\ rProc'.left = rProc.left /\ rx'.mask = LowBits(rx.num)
        BY <1>3, <1>7 DEF TakeSubPacket, AllReceived, ReceiverStateOK
    <2>2. rQueue' = Append(Tail(rQueue), "received")
        BY <1>5, <1>7 DEF TakeSubPacket, Post
    <2>3. Ready' = Ready + 1
        BY <1>5, <1>6, <2>2, AppendAnnounces DEF Ready, ReceiverEvents
    <2>4. Promise!Complete
        BY <1>4, <2>1 DEF Promise!Complete
    <2>5. QED
        BY <2>3, <2>4 DEF Promise!Next, Ready
<1>8. CASE ~AllReceived(rx'.mask, subData.num)
    <2>1. UNCHANGED rProc /\ rTimer' = "set" /\ rx'.mask # LowBits(rx.num)
        BY <1>3, <1>8 DEF TakeSubPacket, AllReceived
    <2>2. Ready' = Ready
        BY <1>6, <1>8 DEF TakeSubPacket, Ready
    <2>3. Promise!Gather
        BY <1>4, <2>1 DEF Promise!Gather
    <2>4. QED
        BY <2>2, <2>3 DEF Promise!Next, Ready
<1>9. QED
    BY <1>7, <1>8

\* One case per action; every delivery but that of an announcement leaves the announcements alone.
LEMMA PromiseStepMaps ==
    ASSUME ReceiverStateOK, Coherent, [ReceiverNext]_receiverVars
    PROVE  Maps
<1>1. CASE ReceiverNetwork
    BY <1>1, PostMaps DEF ReceiverNetwork, HandleSignal, HandleSubPacket, ReceiverEvents, Maps
<1>2. CASE ReceiverTimerExpires
    <2>1. /\ rQueue' = Append(rQueue, "timer") /\ rTimer' = "expired"
          /\ UNCHANGED <<rx, rProc>> /\ rTimer = "set"
        BY <1>2 DEF ReceiverTimerExpires
    <2>2. Ready' = Ready
        <3>1. rQueue \in Seq(ReceiverEvents)
            BY DEF ReceiverStateOK
        <3>2. Cardinality(Announcements(Append(rQueue, "timer"))) = Cardinality(Announcements(rQueue))
            BY <3>1, AppendAnnounces, AnnouncementsFinite DEF ReceiverEvents
        <3>3. QED
            BY <2>1, <3>2 DEF Ready
    <2>3. CASE rProc.running
        BY <2>1, <2>2, <2>3 DEF Maps, Promise!Next, Promise!Silence, Ready
    <2>4. CASE ~rProc.running
        BY <2>1, <2>2, <2>4 DEF Maps, Promise!reception
    <2>5. QED
        BY <2>3, <2>4
<1>3. CASE UNCHANGED receiverVars
    BY <1>3 DEF receiverVars, receiver, Maps, Ready, Promise!reception
<1>4. ASSUME NEW e, NextEvent(e), e # "received", rQueue' = Tail(rQueue)
      PROVE  Ready' = Ready
    <2>1. rQueue # <<>> /\ Head(rQueue) # "received"
        BY <1>4 DEF NextEvent
    <2>2. rQueue \in Seq(ReceiverEvents) /\ Tail(rQueue) \in Seq(ReceiverEvents)
        BY <2>1, TailIsQueue
    <2>3. Cardinality(Announcements(Tail(rQueue))) \in Nat
        BY <2>2, AnnouncementsFinite
    <2>4. Cardinality(Announcements(rQueue)) = Cardinality(Announcements(Tail(rQueue))) + 0
        BY <2>1, <2>2, TailAnnounces
    <2>5. QED
        BY <1>4, <2>3, <2>4 DEF Ready
<1>5. ASSUME NEW e, NextEvent(e), e # "received", rQueue' = Tail(rQueue), CheckTimeout, UNCHANGED rx
      PROVE  Maps
    BY <1>4, <1>5, CheckTimeoutMaps DEF Maps, Ready, Promise!Next
<1>6. CASE DeliverTimeout
    BY <1>5, <1>6 DEF DeliverTimeout
<1>7. CASE DeliverSubPacket
    <2>1. NextEvent("subpacket")
        BY <1>7 DEF DeliverSubPacket
    <2>2. CASE CheckTimeout /\ rQueue' = Tail(rQueue) /\ UNCHANGED <<rx, storage>>
        BY <1>5, <2>1, <2>2
    <2>3. CASE rProc.running /\ ~TimedOut /\ DiscardSubPacket
        BY <1>4, <2>1, <2>3 DEF DiscardSubPacket, TimedOut, Maps, Promise!reception
    <2>4. CASE rProc.running /\ ~TimedOut /\ LeaveOnForeignId
        <3>1. /\ ~rProc'.running /\ rProc'.left = rProc.left /\ UNCHANGED rx /\ Ready' = Ready
              /\ rTimer # "expired"
            BY <1>4, <2>1, <2>4 DEF LeaveOnForeignId, TimedOut, ReceiverStateOK
        <3>2. Promise!Abandon
            BY <2>4, <3>1 DEF Promise!Abandon, Coherent
        <3>3. QED
            BY <3>1, <3>2 DEF Maps, Promise!Next, Ready
    <2>5. CASE rProc.running /\ ~TimedOut /\ TakeSubPacket
        BY <2>1, <2>5, TakeSubPacketMaps DEF Maps
    <2>6. QED
        BY <1>7, <2>2, <2>3, <2>4, <2>5 DEF DeliverSubPacket
<1>8. CASE DeliverSignaled
    <2>1. NextEvent("signaled") /\ rQueue' = Tail(rQueue)
        BY <1>8 DEF DeliverSignaled
    <2>2. CASE StartReception
        <3>1. /\ rProc'.running = TRUE /\ rProc'.left = MaxRetransmissionRequests
              /\ rx'.num = sigData.num /\ rx'.mask = {} /\ rTimer' = "set"
            BY <2>2 DEF StartReception
        <3>2. LowBits(rx'.num) \in SUBSET Indices
            BY DEF LowBits
        <3>3. MaxRetransmissionRequests - rProc'.left = 0
            BY <3>1, ReceiverAssumption
        <3>4. Promise!Begin
            BY <3>1, <3>2, <3>3 DEF Promise!Begin
        <3>5. QED
            BY <1>4, <2>1, <3>4 DEF Maps, Promise!Next, Ready
    <2>3. CASE RefuseSignal
        BY <1>5, <2>1, <2>3 DEF RefuseSignal
    <2>4. QED
        BY <1>8, <2>2, <2>3 DEF DeliverSignaled
<1>9. CASE DeliverReceived
    <2>1. /\ rQueue # <<>> /\ Head(rQueue) = "received" /\ rQueue' = Tail(rQueue)
          /\ UNCHANGED rx /\ CheckTimeout
        BY <1>9 DEF DeliverReceived, NextEvent
    <2>2. rQueue \in Seq(ReceiverEvents) /\ Tail(rQueue) \in Seq(ReceiverEvents)
        BY <2>1, TailIsQueue
    <2>3. Ready = Ready' + 1 /\ Ready' \in Nat
        <3>1. Cardinality(Announcements(Tail(rQueue))) \in Nat
            BY <2>2, AnnouncementsFinite
        <3>2. Cardinality(Announcements(rQueue)) = Cardinality(Announcements(Tail(rQueue))) + 1
            BY <2>1, <2>2, TailAnnounces
        <3>3. QED
            BY <2>1, <3>1, <3>2 DEF Ready
    <2>4. Ready > 0 /\ Ready' = Ready - 1
        BY <2>3, SMT DEF Ready
    <2>5. QED
        BY <2>1, <2>4, CheckTimeoutMaps DEF Maps, Promise!Next, Promise!Announce, Ready
<1>10. CASE ReceiverReset
    <2>1. Ready' = 0
        BY <1>10, FS_EmptySet DEF ReceiverReset, Ready, Announcements
    <2>2. LowBits(rx'.num) = {} /\ rx'.mask = {} /\ rProc'.running = FALSE
        BY <1>10, SizeAssumption DEF ReceiverReset, LowBits, Indices
    <2>3. MaxRetransmissionRequests - rProc'.left \in 0..MaxRetransmissionRequests
        BY <1>10, ReceiverAssumption DEF ReceiverReset
    <2>4. QED
        BY <2>1, <2>2, <2>3 DEF Maps, Ready, Promise!Next, Promise!Reset
<1>11. QED
    BY <1>1, <1>2, <1>3, <1>6, <1>7, <1>8, <1>9, <1>10 DEF ReceiverNext, DeliverToReceiver

\* The receiver keeps its promise: receptions gather sub-packets and lose none, ask again a bounded
\* number of times, complete exactly when they have them all, and announce each completion once.
THEOREM PromiseKept == ReceiverSpec => KeepsPromise
<1>1. ReceptionInv /\ [ReceiverNext]_receiverVars => [Promise!Next]_<<Promise!reception, Ready>>
    BY PromiseStepMaps DEF ReceptionInv, Maps
<1>2. QED
    BY <1>1, PromiseInitMaps, ReceptionInvariant, PTL DEF ReceiverSpec, KeepsPromise, Promise!Spec, Ready
=============================================================================
