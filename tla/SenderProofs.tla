------------------------------ MODULE SenderProofs ------------------------------
(***************************************************************************)
(* Proofs about the sender node, for every value of its constants.         *)
(***************************************************************************)
EXTENDS Sender, LargePacketLemmas

-----------------------------------------------------------------------------
(***************************************************************************)
(* A step of the node, alone or facing the receiver: the lemmas below hold *)
(* for whatever requests come.                                             *)
(***************************************************************************)

SenderStep ==
    \/ Notify
    \/ \E m \in Requests : HandleRequest(m)
    \/ SenderTimerExpires \/ DeliverToSender \/ SenderReset

\* To the node alone the network brings requests.
LEMMA NextIsSenderStep ==
    ASSUME SenderNext
    PROVE  SenderStep
<1>1. \A p \in PacketIds : \A mask \in SUBSET LowBits(NumSubPackets(PacketLen[p])) :
          Request(p, mask) \in Requests
    BY LowBitsType DEF Request, Requests, Masks
<1>2. QED
    BY <1>1 DEF SenderNext, SenderNetwork, SenderStep

-----------------------------------------------------------------------------
(***************************************************************************)
(* Type correctness.                                                       *)
(***************************************************************************)

TxType == [id : PacketIds, num : Nat, len : Nat, mask : Masks, body : Bodies]

\* The message next_sub_packet_send composes is a sub-packet.
LEMMA NextFrameType ==
    ASSUME NEW t \in TxType
    PROVE  NextFrame(t) \in SubPackets
<1> DEFINE p == PickNext(t.mask, t.num, t.len)
<1>1. t.mask \in Masks /\ t.num \in Nat /\ t.len \in Nat /\ t.id \in PacketIds /\ t.body \in Bodies
    BY DEF TxType
<1>2. p.idx \in Indices /\ p.size \in 0..SubpacketMaxBytes
    BY <1>1, PickNextType
<1>3. (IF p.empty THEN NoBody ELSE t.body) \in Bodies
    BY <1>1 DEF Bodies
<1>4. NextFrame(t) = SubPacket(t.id, p.idx, t.num, p.size, IF p.empty THEN NoBody ELSE t.body)
    BY DEF NextFrame
<1> HIDE DEF p
<1>5. QED
    BY <1>1, <1>2, <1>3, <1>4 DEF SubPacket, SubPackets

\* What is known of the send process is two Booleans.
LEMMA ProcType ==
    \A running, ok \in BOOLEAN : [running |-> running, ok |-> ok] \in [running : BOOLEAN, ok : BOOLEAN]
BY Zenon

\* Sending a frame keeps what it touches well-typed.
LEMMA SendFrameType ==
    ASSUME NEW t \in TxType, NEW accepted \in BOOLEAN, SendFrame(t, accepted)
    PROVE  /\ tx' \in TxType
           /\ sending' \in BOOLEAN
           /\ sProc' \in [running : BOOLEAN, ok : BOOLEAN]
           /\ sTimer' \in {"off", "set", "expired"}
           /\ out' \in Seq(SenderOutputs)
<1>1. NextFrame(t) \in SenderOutputs
    BY NextFrameType DEF SenderOutputs
<1>2. tx' \in TxType
    BY DEF SendFrame, TxType, Masks
<1>3. out' = <<NextFrame(t)>> \/ out' = <<>>
    BY Zenon DEF SendFrame
<1>4. sProc' \in [running : BOOLEAN, ok : BOOLEAN]
    BY ProcType DEF SendFrame
<1>5. sending' \in BOOLEAN /\ sTimer' \in {"off", "set", "expired"}
    BY DEF SendFrame
<1>6. out' \in Seq(SenderOutputs)
    <2>1. CASE out' = <<NextFrame(t)>>
        BY <1>1, <2>1
    <2>2. CASE out' = <<>>
        BY <2>2
    <2>3. QED
        BY <1>3, <2>1, <2>2
<1>7. QED
    BY <1>2, <1>4, <1>5, <1>6

\* So does the end of the send process.
LEMMA FinishSendingType ==
    ASSUME NEW t \in TxType, NEW ok \in BOOLEAN, FinishSending(t, ok)
    PROVE  /\ tx' \in TxType
           /\ sending' \in BOOLEAN
           /\ sProc' \in [running : BOOLEAN, ok : BOOLEAN]
           /\ sTimer' \in {"off", "set", "expired"}
           /\ out' \in Seq(SenderOutputs)
<1>1. sProc' \in [running : BOOLEAN, ok : BOOLEAN]
    BY ProcType DEF FinishSending
<1>2. tx' \in TxType /\ sending' \in BOOLEAN /\ sTimer' \in {"off", "set", "expired"} /\ out' = <<>>
    BY DEF FinishSending
<1>3. QED
    BY <1>1, <1>2

\* A registration leaves the packet well-typed, and signals it.
LEMMA RegisterType ==
    ASSUME SenderStateOK, NEW id \in PacketIds, RegisterAndSignal(id)
    PROVE  tx' \in TxType /\ out' \in Seq(SenderOutputs)
<1>1. PacketLen[id] \in Nat
    BY PacketAssumption
<1>2. NumSubPackets(PacketLen[id]) \in Nat
    BY <1>1, NumSubPacketsType
<1>3. SignalOf(id) \in SenderOutputs
    BY SignalOfType DEF SenderOutputs
<1>4. CASE Registrable(PacketLen[id])
    <2>1. tx' \in TxType
        BY <1>1, <1>2, <1>4 DEF RegisterAndSignal, SenderStateOK, TxType, Bodies
    <2>2. out' = <<SignalOf(id)>>
        BY <1>4 DEF RegisterAndSignal
    <2>3. QED
        BY <1>3, <2>1, <2>2
<1>5. CASE ~Registrable(PacketLen[id])
    BY <1>5 DEF RegisterAndSignal, SenderStateOK, TxType
<1>6. QED
    BY <1>4, <1>5

\* The packet registered, with a request's id and mask.
LEMMA RequestedType ==
    ASSUME SenderStateOK
    PROVE  Requested(tx) \in TxType
BY DEF Requested, SenderStateOK, TxType, Requests

\* The initial values have their types.
LEMMA SenderTypeInit == SenderInit => SenderTypeOK
<1> SUFFICES ASSUME SenderInit PROVE SenderTypeOK
    OBVIOUS
<1>1. 0 \in PacketIds /\ {} \in Masks /\ NoBody \in Bodies
    BY SizeAssumption DEF PacketIds, Masks, Bodies
<1>2. Request(0, {}) \in Requests
    BY <1>1 DEF Request, Requests
<1>3. sQueue \in Seq(SenderEvents) /\ Len(sQueue) <= QueueSize
    BY QueueAssumption DEF SenderInit
<1>4. sProc \in [running : BOOLEAN, ok : BOOLEAN]
    BY ProcType DEF SenderInit
<1>5. tx \in TxType /\ reqData \in Requests /\ packetId \in PacketIds
    BY <1>1, <1>2 DEF SenderInit, TxType
<1>6. out = <<>> /\ sending \in BOOLEAN /\ route \in BOOLEAN
    BY DEF SenderInit
<1>7. sTimer \in {"off", "set", "expired"} /\ notify \in {"pause", "waitRoot", "waitRoute", "waitPeriod"}
    BY DEF SenderInit
<1>8. QED
    BY <1>3, <1>4, <1>5, <1>6, <1>7 DEF SenderTypeOK, SenderStateOK, TxType

\* The packet id wraps where a uint16_t does.
LEMMA IdType ==
    ASSUME SenderStateOK
    PROVE  IdAtLoopTop \in PacketIds
BY SizeAssumption DEF IdAtLoopTop, SenderStateOK, PacketIds

\* A turn of packet_ready_notify_proc keeps the types.
LEMMA NotifyType ==
    ASSUME SenderStateOK, Notify
    PROVE  SenderTypeOK'
<1>1. IdAtLoopTop \in PacketIds
    BY IdType
<1>2. CASE NoRoot
    <2>1. out' = <<>> /\ notify' = "waitRoot" /\ packetId' = IdAtLoopTop /\ UNCHANGED <<tx, sendVars>>
        BY <1>2 DEF NoRoot
    <2>2. route' \in BOOLEAN
        BY <1>2 DEF NoRoot
    <2>3. QED
        BY <1>1, <2>1, <2>2 DEF SenderTypeOK, SenderStateOK, sendVars
<1>3. CASE RootWithoutRoute
    BY <1>1, <1>3 DEF RootWithoutRoute, SenderTypeOK, SenderStateOK, sendVars
<1>4. CASE RootWithRoute
    <2>1. packetId' \in PacketIds /\ RegisterAndSignal(packetId')
        BY <1>1, <1>4 DEF RootWithRoute
    <2>2. tx' \in TxType /\ out' \in Seq(SenderOutputs)
        BY <2>1, RegisterType DEF SenderTypeOK
    <2>3. QED
        BY <1>4, <2>1, <2>2 DEF RootWithRoute, SenderTypeOK, SenderStateOK, sendVars, TxType
<1>5. CASE RouteEstablished
    <2>1. packetId \in PacketIds /\ RegisterAndSignal(packetId)
        BY <1>5 DEF RouteEstablished, SenderTypeOK, SenderStateOK
    <2>2. tx' \in TxType /\ out' \in Seq(SenderOutputs)
        BY <2>1, RegisterType DEF SenderTypeOK
    <2>3. QED
        BY <1>5, <2>2 DEF RouteEstablished, SenderTypeOK, SenderStateOK, sendVars, TxType
<1>6. QED
    BY <1>2, <1>3, <1>4, <1>5 DEF Notify

\* A delivery keeps the types.
LEMMA DeliverType ==
    ASSUME SenderStateOK, DeliverToSender
    PROVE  SenderTypeOK'
<1> USE DEF SenderTypeOK
<1>1. tx \in TxType /\ Requested(tx) \in TxType /\ sProc.ok \in BOOLEAN
    BY RequestedType DEF SenderStateOK, TxType
<1>2. Tail(sQueue) \in Seq(SenderEvents) /\ Len(Tail(sQueue)) <= QueueSize
    BY TailType DEF DeliverToSender, DeliverPeriod, DeliverRequested, SenderStateOK
<1>3. sQueue' = Tail(sQueue) /\ UNCHANGED <<reqData, notifyVars>>
    BY DEF DeliverToSender, DeliverPeriod, DeliverRequested
<1>4. ASSUME NEW t \in TxType, NEW accepted \in BOOLEAN, SendFrame(t, accepted)
      PROVE  SenderTypeOK'
    BY <1>2, <1>3, <1>4, SendFrameType DEF SenderStateOK, TxType, notifyVars
<1>5. ASSUME NEW t \in TxType, NEW ok \in BOOLEAN, FinishSending(t, ok)
      PROVE  SenderTypeOK'
    BY <1>2, <1>3, <1>5, FinishSendingType DEF SenderStateOK, TxType, notifyVars
<1>6. CASE out' = <<>> /\ UNCHANGED <<tx, sending, sProc, sTimer>>
    BY <1>2, <1>3, <1>6 DEF SenderStateOK, notifyVars
<1>7. CASE Resume
    BY <1>1, <1>4, <1>5, <1>7 DEF Resume
<1>8. CASE StartSending
    BY <1>1, <1>4, <1>5, <1>8 DEF StartSending
<1>9. CASE TakeOverSending
    BY <1>1, <1>2, <1>3, <1>9 DEF TakeOverSending, SenderStateOK, TxType, notifyVars
<1>10. CASE TakeOverAfterFrame
    <2>1. NextFrame(tx) \in SenderOutputs
        BY <1>1, NextFrameType DEF SenderOutputs
    <2>2. out' = <<NextFrame(tx)>> \/ out' = <<>>
        BY <1>10, Zenon DEF TakeOverAfterFrame
    <2>3. out' \in Seq(SenderOutputs)
        <3>1. CASE out' = <<NextFrame(tx)>>
            BY <2>1, <3>1
        <3>2. CASE out' = <<>>
            BY <3>2
        <3>3. QED
            BY <2>2, <3>1, <3>2
    <2>4. sProc' \in [running : BOOLEAN, ok : BOOLEAN]
        BY <1>10, ProcType DEF TakeOverAfterFrame
    <2>5. tx' \in TxType /\ sTimer' = "set" /\ sending' \in BOOLEAN
        BY <1>1, <1>10 DEF TakeOverAfterFrame, SenderStateOK
    <2>6. QED
        BY <1>2, <1>3, <2>3, <2>4, <2>5 DEF SenderStateOK, TxType, notifyVars
<1>11. QED
    BY <1>6, <1>7, <1>8, <1>9, <1>10 DEF DeliverToSender, DeliverPeriod, DeliverRequested

\* Every step keeps the types.
LEMMA SenderTypeStep ==
    ASSUME SenderStateOK, SenderStep
    PROVE  SenderTypeOK'
<1>1. CASE Notify
    BY <1>1, NotifyType
<1>2. ASSUME NEW m \in Requests, HandleRequest(m)
      PROVE  SenderTypeOK'
    <2>1. Post(sQueue, "requested") \in Seq(SenderEvents) /\ Len(Post(sQueue, "requested")) <= QueueSize
        BY PostType DEF SenderStateOK, SenderEvents
    <2>2. QED
        BY <1>2, <2>1 DEF HandleRequest, SenderTypeOK, SenderStateOK, notifyVars
<1>3. CASE SenderTimerExpires
    <2>1. Append(sQueue, "timer") \in Seq(SenderEvents) /\ Len(Append(sQueue, "timer")) <= QueueSize
        BY <1>3, QueueAssumption DEF SenderTimerExpires, SenderTypeOK, SenderStateOK, SenderEvents
    <2>2. QED
        BY <1>3, <2>1 DEF SenderTimerExpires, SenderTypeOK, SenderStateOK, notifyVars
<1>4. CASE DeliverToSender
    BY <1>4, DeliverType
<1>5. CASE SenderReset
    <2>1. SenderInit'
        BY <1>5 DEF SenderReset, SenderInit
    <2>2. QED
        BY <2>1, SenderTypeInit, PTL
<1>6. QED
    BY <1>1, <1>2, <1>3, <1>4, <1>5 DEF SenderStep

\* Every variable of the sender keeps its type: the packet id wraps, the mask has no bit a message
\* could not carry, and no event is posted beyond the queue's size.
THEOREM SenderTypeCorrect == SenderSpec => []SenderTypeOK
<1>1. SenderTypeOK /\ [SenderNext]_senderVars => SenderTypeOK'
    <2>1. CASE SenderNext
        BY <2>1, NextIsSenderStep, SenderTypeStep DEF SenderTypeOK
    <2>2. CASE UNCHANGED senderVars
        BY <2>2 DEF senderVars, sender, SenderTypeOK, SenderStateOK
    <2>3. QED
        BY <2>1, <2>2
<1>2. QED
    BY <1>1, SenderTypeInit, PTL DEF SenderSpec

-----------------------------------------------------------------------------
(***************************************************************************)
(* The sending flag, the process and its timer.  That an idle process has  *)
(* its timer off is what makes the invariant inductive: the request that   *)
(* starts it again finds no timer running.                                 *)
(***************************************************************************)

IdleIsTimerless == ~sending => sTimer = "off"

SendingInv == NoStuckSending /\ IdleMeansDone /\ IdleIsTimerless

\* A frame sent leaves the process running, the flag up and the timer set.
LEMMA SendFrameKeeps ==
    ASSUME NEW t, NEW accepted, SendFrame(t, accepted)
    PROVE  SendingInv'
<1>1. sending' = TRUE /\ sProc'.running = TRUE /\ sTimer' = "set"
    BY Zenon DEF SendFrame
<1>2. QED
    BY <1>1 DEF SendingInv, NoStuckSending, IdleMeansDone, IdleIsTimerless

\* The end of the process takes the flag down and the timer off.
LEMMA FinishSendingKeeps ==
    ASSUME NEW t, NEW ok \in BOOLEAN, FinishSending(t, ok), t.mask = {} \/ ~ok
    PROVE  SendingInv'
<1>1. sending' = FALSE /\ sProc'.running = FALSE /\ sTimer' = "off" /\ tx' = t
    BY Zenon DEF FinishSending
<1>2. sProc'.ok = ok
    BY Zenon DEF FinishSending
<1>3. NoStuckSending' /\ IdleIsTimerless'
    BY <1>1 DEF NoStuckSending, IdleIsTimerless
<1>4. tx'.mask = {} \/ ~sProc'.ok
    BY <1>1, <1>2, Zenon
<1>5. QED
    BY <1>3, <1>4 DEF SendingInv, IdleMeansDone

\* An event the process does not wait for leaves it with its timer set, if it runs.
LEMMA NotWokenKeeps ==
    ASSUME SenderStateOK, SendingInv, ~Wakes, UNCHANGED <<sending, sProc, sTimer>>,
           tx'.mask = tx.mask \/ sending
    PROVE  SendingInv'
<1>1. sending => sTimer = "set"
    BY DEF SendingInv, NoStuckSending, Wakes
<1>2. NoStuckSending' /\ IdleIsTimerless'
    BY <1>1 DEF SendingInv, NoStuckSending, IdleIsTimerless
<1>3. IdleMeansDone'
    BY DEF SendingInv, IdleMeansDone
<1>4. QED
    BY <1>2, <1>3 DEF SendingInv

\* A delivery keeps the flag, the process and its timer together.
LEMMA DeliverKeeps ==
    ASSUME SenderStateOK, SendingInv, DeliverToSender
    PROVE  SendingInv'
<1>1. CASE DeliverPeriod /\ ~Wakes
    BY <1>1, NotWokenKeeps DEF DeliverPeriod
<1>2. CASE Resume
    <2>1. CASE Done
        <3>1. FinishSending(tx, sProc.ok) /\ sProc.ok \in BOOLEAN
            BY <1>2, <2>1 DEF Resume, SenderStateOK
        <3>2. tx.mask = {} \/ ~sProc.ok
            BY <2>1 DEF Done
        <3>3. QED
            BY <3>1, <3>2, FinishSendingKeeps
    <2>2. CASE ~Done
        BY <1>2, <2>2, SendFrameKeeps DEF Resume
    <2>3. QED
        BY <2>1, <2>2
<1>3. CASE StartSending
    <2>1. CASE reqData.mask = {}
        <3>1. FinishSending(Requested(tx), TRUE)
            BY <1>3, <2>1 DEF StartSending
        <3>2. Requested(tx).mask = {}
            BY <2>1 DEF Requested, SenderStateOK
        <3>3. QED
            BY <3>1, <3>2, FinishSendingKeeps
    <2>2. CASE reqData.mask # {}
        BY <1>3, <2>2, SendFrameKeeps DEF StartSending
    <2>3. QED
        BY <2>1, <2>2
<1>4. CASE TakeOverSending
    BY <1>4, NotWokenKeeps DEF TakeOverSending
<1>5. CASE TakeOverAfterFrame
    <2>1. PICK accepted \in BOOLEAN :
              sProc' = [running |-> TRUE, ok |-> accepted] /\ sTimer' = "set" /\ sending' = sending
        BY <1>5, Zenon DEF TakeOverAfterFrame
    <2>2. sProc'.running = TRUE
        BY <2>1, Zenon
    <2>3. sending = TRUE
        BY <1>5 DEF TakeOverAfterFrame, SenderStateOK
    <2>4. QED
        BY <2>1, <2>2, <2>3 DEF SendingInv, NoStuckSending, IdleMeansDone, IdleIsTimerless
<1>6. QED
    BY <1>1, <1>2, <1>3, <1>4, <1>5 DEF DeliverToSender, DeliverPeriod, DeliverRequested

\* So does every other step.
LEMMA SendingStep ==
    ASSUME SenderStateOK, SendingInv, SenderStep
    PROVE  SendingInv'
<1>1. ASSUME \A k \in 1..Len(sQueue) : k \in 1..Len(sQueue') /\ sQueue'[k] = sQueue[k],
             UNCHANGED <<sending, sProc, sTimer>>, tx'.mask = tx.mask
      PROVE  SendingInv'
    BY <1>1 DEF SendingInv, NoStuckSending, IdleMeansDone, IdleIsTimerless
<1>2. CASE Notify
    <2>1. UNCHANGED sendVars
        BY <1>2 DEF Notify, NoRoot, RootWithoutRoute, RootWithRoute, RouteEstablished
    <2>2. \A id : RegisterAndSignal(id) => tx'.mask = tx.mask
        BY DEF RegisterAndSignal, SenderStateOK
    <2>3. tx'.mask = tx.mask
        BY <1>2, <2>2 DEF Notify, NoRoot, RootWithoutRoute, RootWithRoute, RouteEstablished
    <2>4. QED
        BY <1>1, <2>1, <2>3 DEF sendVars
<1>3. ASSUME NEW m \in Requests, HandleRequest(m)
      PROVE  SendingInv'
    <2>1. sQueue' = Post(sQueue, "requested") /\ UNCHANGED <<tx, sending, sProc, sTimer>>
        BY <1>3 DEF HandleRequest
    <2>2. \A k \in 1..Len(sQueue) : k \in 1..Len(sQueue') /\ sQueue'[k] = sQueue[k]
        BY <2>1, PostKeeps DEF SenderStateOK, SenderEvents
    <2>3. QED
        BY <1>1, <2>1, <2>2
<1>4. CASE SenderTimerExpires
    <2>1. sQueue' = Append(sQueue, "timer") /\ sTimer' = "expired" /\ UNCHANGED <<tx, sending, sProc>>
        BY <1>4 DEF SenderTimerExpires
    <2>2. Len(sQueue) + 1 \in 1..Len(sQueue') /\ sQueue'[Len(sQueue) + 1] = "timer"
        BY <2>1 DEF SenderStateOK
    <2>3. sending
        BY <1>4 DEF SenderTimerExpires, SendingInv, IdleIsTimerless, SenderStateOK
    <2>4. QED
        BY <2>1, <2>2, <2>3 DEF SendingInv, NoStuckSending, IdleMeansDone, IdleIsTimerless
<1>5. CASE DeliverToSender
    BY <1>5, DeliverKeeps
<1>6. CASE SenderReset
    <2>1. sending' = FALSE /\ sProc'.running = FALSE /\ sTimer' = "off" /\ tx'.mask = {}
        BY <1>6, Zenon DEF SenderReset
    <2>2. QED
        BY <2>1 DEF SendingInv, NoStuckSending, IdleMeansDone, IdleIsTimerless
<1>7. QED
    BY <1>2, <1>3, <1>4, <1>5, <1>6 DEF SenderStep

\* The types and SendingInv hold together.
LEMMA SendingInvariant == SenderSpec => []SendingInv
<1>1. SenderInit => SendingInv
    <2> SUFFICES ASSUME SenderInit PROVE SendingInv
        OBVIOUS
    <2>1. sending = FALSE /\ sProc.running = FALSE /\ sTimer = "off" /\ tx.mask = {}
        BY Zenon DEF SenderInit
    <2>2. QED
        BY <2>1 DEF SendingInv, NoStuckSending, IdleMeansDone, IdleIsTimerless
<1>2. SenderTypeOK /\ SendingInv /\ [SenderNext]_senderVars => SendingInv'
    <2>1. CASE SenderNext
        BY <2>1, NextIsSenderStep, SendingStep DEF SenderTypeOK
    <2>2. CASE UNCHANGED senderVars
        BY <2>2 DEF senderVars, sender, SendingInv, NoStuckSending, IdleMeansDone, IdleIsTimerless
    <2>3. QED
        BY <2>1, <2>2
<1>3. QED
    BY <1>1, <1>2, SenderTypeCorrect, PTL DEF SenderSpec

\* large_packet_currently_sending is never left up: the process it stands for is running, and its
\* timer will wake it.
THEOREM SendingEnds == SenderSpec => []NoStuckSending
<1>1. SendingInv => NoStuckSending
    BY DEF SendingInv
<1>2. QED
    BY <1>1, SendingInvariant, PTL

\* The process never ends with something left to send, unless the radio refused a frame.
THEOREM IdleIsDone == SenderSpec => []IdleMeansDone
<1>1. SendingInv => IdleMeansDone
    BY DEF SendingInv
<1>2. QED
    BY <1>1, SendingInvariant, PTL

-----------------------------------------------------------------------------
(***************************************************************************)
(* Where frames come from: the process woken by its timer, or started by a *)
(* request.                                                                *)
(***************************************************************************)

\* A frame is sent alone.
LEMMA FramesOfOne ==
    ASSUME NEW t, out' = <<NextFrame(t)>>
    PROVE  Len(out') = 1 /\ Frames(out') = {NextFrame(t)}
<1>1. NextFrame(t).type = "subpacket"
    BY DEF NextFrame, SubPacket
<1>2. Len(out') = 1 /\ out'[1] = NextFrame(t)
    OBVIOUS
<1>3. QED
    BY <1>1, <1>2 DEF Frames

\* The step sends the next frame of the transmission going on.
GoesOn == Wakes /\ ~Done /\ out' = <<NextFrame(tx)>>

\* The step sends the first frame of a new transmission.
StartsWith ==
    /\ ~sending \/ (Wakes /\ Done)
    /\ sQueue # <<>> /\ Head(sQueue) = "requested" /\ reqData.mask # {}
    /\ out' = <<NextFrame(Requested(tx))>>

\* Frames leave only where the process sends: going on with its packet, or starting a request's.
LEMMA FrameSent ==
    ASSUME SenderStateOK, SenderStep, Frames(out') # {}
    PROVE  GoesOn \/ StartsWith
<1>1. out' # <<>>
    BY DEF Frames
<1>2. ASSUME NEW id, RegisterAndSignal(id)
      PROVE  FALSE
    <2>1. out' = <<SignalOf(id)>>
        BY <1>1, <1>2 DEF RegisterAndSignal
    <2>2. SignalOf(id).type = "signal"
        BY DEF SignalOf, Signal
    <2>3. \A k \in 1..Len(out') : out'[k].type = "signal"
        BY <2>1, <2>2
    <2>4. QED
        BY <2>3 DEF Frames
<1>3. ~Notify
    BY <1>1, <1>2 DEF Notify, NoRoot, RootWithoutRoute, RootWithRoute, RouteEstablished
<1>4. ~SenderTimerExpires /\ ~SenderReset /\ \A m : ~HandleRequest(m)
    BY <1>1 DEF HandleRequest, SenderTimerExpires, SenderReset
<1>5. \A t : \A accepted \in BOOLEAN : SendFrame(t, accepted) => out' = <<NextFrame(t)>>
    BY <1>1, Zenon DEF SendFrame
<1>6. \A t, ok : ~FinishSending(t, ok)
    BY <1>1, Zenon DEF FinishSending
<1>7. CASE DeliverPeriod
    <2>1. Wakes /\ Resume
        BY <1>1, <1>7 DEF DeliverPeriod
    <2>2. QED
        BY <1>5, <1>6, <2>1 DEF Resume, GoesOn
<1>8. CASE DeliverRequested
    <2>1. sQueue # <<>> /\ Head(sQueue) = "requested"
        BY <1>8 DEF DeliverRequested
    <2>2. CASE StartSending
        BY <1>5, <1>6, <2>1, <2>2 DEF StartSending, StartsWith
    <2>3. CASE TakeOverAfterFrame
        BY <1>1, <2>3, Zenon DEF TakeOverAfterFrame, GoesOn
    <2>4. QED
        BY <1>1, <1>8, <2>2, <2>3 DEF DeliverRequested, TakeOverSending
<1>9. QED
    BY <1>3, <1>4, <1>7, <1>8 DEF SenderStep, DeliverToSender

\* Sub-packets go out one at a time, and none while the requested period runs, whenever requests
\* arrive.
THEOREM PaceHolds == SenderSpec => Paced
<1>1. SenderTypeOK /\ SendingInv /\ [SenderNext]_senderVars =>
          [ Frames(out') # {} => sTimer # "set" /\ Len(out') = 1 ]_senderVars
    <2> SUFFICES ASSUME SenderStateOK, SendingInv, SenderStep, Frames(out') # {}
                 PROVE  sTimer # "set" /\ Len(out') = 1
        BY NextIsSenderStep DEF SenderTypeOK
    <2>1. CASE GoesOn
        BY <2>1, FramesOfOne DEF GoesOn, Wakes
    <2>2. CASE StartsWith
        BY <2>2, FramesOfOne DEF StartsWith, Wakes, SendingInv, IdleIsTimerless
    <2>3. QED
        BY <2>1, <2>2, FrameSent
<1>2. QED
    BY <1>1, SenderTypeCorrect, SendingInvariant, PTL DEF SenderSpec, Paced

-----------------------------------------------------------------------------
(***************************************************************************)
(* What the frames carry, when every packet the application registers has  *)
(* as many sub-packets, as those of sender/large_packet_sender.c have, and *)
(* no request comes before the first registration.  Then no bit of a mask  *)
(* lies beyond num_sub_packets, where pick_next_to_send finds nothing.     *)
(***************************************************************************)

EqualPackets ==
    \A p, q \in PacketIds :
        Registrable(PacketLen[p]) /\ Registrable(PacketLen[q])
            => NumSubPackets(PacketLen[p]) = NumSubPackets(PacketLen[q])

RequestWaits == \E k \in 1..Len(sQueue) : sQueue[k] = "requested"

MasksFit ==
    /\ tx.num = NumSubPackets(tx.len)
    /\ tx.num > 0 => \E p \in PacketIds : Registrable(PacketLen[p]) /\ tx.len = PacketLen[p]
    /\ tx.mask \subseteq LowBits(tx.num)
    /\ RequestWaits => reqData.mask \subseteq LowBits(tx.num)

\* Registering a packet leaves the masks within its sub-packets: no packet was registered before,
\* and then no mask has a bit, or it had as many.
LEMMA RegisterFits ==
    ASSUME EqualPackets, SenderStateOK, MasksFit, NEW id \in PacketIds, RegisterAndSignal(id),
           UNCHANGED <<sQueue, reqData>>
    PROVE  MasksFit'
<1>1. CASE ~Registrable(PacketLen[id])
    BY <1>1 DEF RegisterAndSignal, MasksFit, RequestWaits
<1>2. CASE Registrable(PacketLen[id])
    <2>1. tx'.num = NumSubPackets(PacketLen[id]) /\ tx'.len = PacketLen[id] /\ tx'.mask = tx.mask
        BY <1>2 DEF RegisterAndSignal, SenderStateOK
    <2>2. PacketLen[id] \in Nat /\ PacketLen[id] # 0
        BY <1>2, PacketAssumption DEF Registrable
    <2>3. tx'.num \in Nat /\ tx'.num > 0
        BY <2>1, <2>2, NumSubPacketsType
    <2>4. tx.num = 0 \/ tx.num = tx'.num
        BY <1>2, <2>1 DEF MasksFit, EqualPackets, SenderStateOK
    <2>5. LowBits(tx.num) \subseteq LowBits(tx'.num)
        BY <2>3, <2>4 DEF LowBits, Indices
    <2>6. QED
        BY <1>2, <2>1, <2>5 DEF MasksFit, RequestWaits
<1>3. QED
    BY <1>1, <1>2

\* A step that keeps the registered packet, takes no bit from beyond a mask and posts no request.
LEMMA FitsKept ==
    ASSUME SenderStateOK, MasksFit, RequestWaits' => RequestWaits, UNCHANGED reqData,
           tx'.num = tx.num, tx'.len = tx.len,
           tx'.mask \subseteq tx.mask \/ (RequestWaits /\ tx'.mask \subseteq reqData.mask)
    PROVE  MasksFit'
<1>1. tx'.mask \subseteq LowBits(tx.num)
    BY DEF MasksFit
<1>2. RequestWaits' => reqData'.mask \subseteq LowBits(tx.num)
    BY DEF MasksFit
<1>3. QED
    BY <1>1, <1>2 DEF MasksFit

\* Sending a frame changes nothing of the packet but its mask, and adds no bit.
LEMMA SendFrameFits ==
    ASSUME NEW t \in TxType, NEW accepted, SendFrame(t, accepted)
    PROVE  /\ tx'.id = t.id /\ tx'.num = t.num /\ tx'.len = t.len /\ tx'.body = t.body
           /\ tx'.mask \subseteq t.mask
<1>1. tx' = [t EXCEPT !.mask = @ \ {NextFrame(t).idx}] \/ tx' = t
    BY DEF SendFrame
<1>2. QED
    BY <1>1 DEF TxType

\* A delivery keeps the registered packet.  What is left to send is what was left of it, or of
\* what the request asks for.
LEMMA DeliveryKeepsPacket ==
    ASSUME SenderStateOK, DeliverToSender
    PROVE  /\ tx'.num = tx.num /\ tx'.len = tx.len /\ tx'.body = tx.body
           /\ RequestWaits' => RequestWaits
           /\ UNCHANGED <<reqData, packetId>>
           /\ \/ tx'.id = tx.id /\ tx'.mask \subseteq tx.mask /\ (sending' => sending \/ Wakes)
              \/ RequestWaits /\ tx'.id = reqData.id /\ tx'.mask \subseteq reqData.mask
<1>1. sQueue # <<>> /\ sQueue' = Tail(sQueue) /\ UNCHANGED <<reqData, packetId>>
    BY DEF DeliverToSender, DeliverPeriod, DeliverRequested, notifyVars
<1>2. RequestWaits' => RequestWaits
    <2>1. ASSUME NEW k \in 1..Len(sQueue'), sQueue'[k] = "requested"
          PROVE  k + 1 \in 1..Len(sQueue) /\ sQueue[k + 1] = "requested"
        BY <1>1, <2>1 DEF SenderStateOK
    <2>2. QED
        BY <2>1 DEF RequestWaits
<1>3. tx \in TxType /\ Requested(tx) \in TxType
    BY RequestedType DEF SenderStateOK, TxType
<1>4. /\ Requested(tx).num = tx.num /\ Requested(tx).len = tx.len /\ Requested(tx).body = tx.body
      /\ Requested(tx).id = reqData.id /\ Requested(tx).mask = reqData.mask
    BY DEF Requested, SenderStateOK
<1>5. CASE UNCHANGED <<tx, sending>>
    BY <1>1, <1>2, <1>5
<1>6. CASE Wakes /\ Resume
    <2>1. /\ tx'.num = tx.num /\ tx'.len = tx.len /\ tx'.body = tx.body /\ tx'.id = tx.id
          /\ tx'.mask \subseteq tx.mask
        BY <1>3, <1>6, SendFrameFits DEF Resume, FinishSending
    <2>2. QED
        BY <1>1, <1>2, <1>6, <2>1
<1>7. CASE DeliverRequested
    <2>1. RequestWaits
        <3>1. 1 \in 1..Len(sQueue) /\ sQueue[1] = "requested"
            BY <1>7 DEF DeliverRequested, SenderStateOK
        <3>2. QED
            BY <3>1 DEF RequestWaits
    <2>2. /\ tx'.num = tx.num /\ tx'.len = tx.len /\ tx'.body = tx.body /\ tx'.id = reqData.id
          /\ tx'.mask \subseteq reqData.mask
        <3>1. CASE StartSending
            BY <1>3, <1>4, <3>1, SendFrameFits DEF StartSending, FinishSending
        <3>2. CASE tx' = Requested(tx)
            BY <1>4, <3>2
        <3>3. QED
            BY <1>7, <3>1, <3>2 DEF DeliverRequested, TakeOverSending, TakeOverAfterFrame
    <2>3. QED
        BY <1>1, <1>2, <2>1, <2>2
<1>8. QED
    BY <1>5, <1>6, <1>7 DEF DeliverToSender, DeliverPeriod

\* No step brings a mask with a bit beyond the packet's sub-packets.
LEMMA FitsStep ==
    ASSUME EqualPackets
    PROVE  SenderTypeOK /\ MasksFit /\ [SenderNext]_senderVars => MasksFit'
<1> SUFFICES ASSUME SenderStateOK, MasksFit, [SenderNext]_senderVars
             PROVE  MasksFit'
    BY DEF SenderTypeOK
<1>1. CASE Notify
    <2>1. UNCHANGED <<sQueue, reqData>>
        BY <1>1 DEF Notify, NoRoot, RootWithoutRoute, RootWithRoute, RouteEstablished, sendVars
    <2>2. CASE UNCHANGED tx
        BY <2>1, <2>2 DEF MasksFit, RequestWaits
    <2>3. IdAtLoopTop \in PacketIds /\ packetId \in PacketIds
        BY IdType DEF SenderStateOK
    <2>4. QED
        BY <1>1, <2>1, <2>2, <2>3, RegisterFits
        DEF Notify, NoRoot, RootWithoutRoute, RootWithRoute, RouteEstablished
<1>2. CASE SenderNetwork
    <2>1. tx.num > 0
        BY <1>2 DEF SenderNetwork
    <2>2. PICK p \in PacketIds :
              /\ Registrable(PacketLen[p])
              /\ \E mask \in SUBSET LowBits(NumSubPackets(PacketLen[p])) : HandleRequest(Request(p, mask))
        BY <1>2 DEF SenderNetwork
    <2>3. PICK mask \in SUBSET LowBits(NumSubPackets(PacketLen[p])) : HandleRequest(Request(p, mask))
        BY <2>2
    <2>4. NumSubPackets(PacketLen[p]) = tx.num
        BY <2>1, <2>2 DEF MasksFit, EqualPackets
    <2>5. reqData'.mask \subseteq LowBits(tx.num) /\ UNCHANGED tx
        BY <2>3, <2>4 DEF HandleRequest, Request
    <2>6. QED
        BY <2>5 DEF MasksFit
<1>3. CASE SenderTimerExpires
    <2>1. sQueue' = Append(sQueue, "timer") /\ UNCHANGED <<tx, reqData>>
        BY <1>3 DEF SenderTimerExpires
    <2>2. RequestWaits' => RequestWaits
        BY <2>1 DEF RequestWaits, SenderStateOK
    <2>3. QED
        BY <2>1, <2>2, FitsKept
<1>4. CASE DeliverToSender
    BY <1>4, DeliveryKeepsPacket, FitsKept
<1>5. CASE SenderReset
    <2>1. tx'.num = 0 /\ tx'.len = 0 /\ tx'.mask = {} /\ reqData' = Request(0, {})
        BY <1>5 DEF SenderReset
    <2>2. reqData'.mask = {} /\ NumSubPackets(0) = 0
        BY <2>1, SizeAssumption DEF Request, NumSubPackets
    <2>3. QED
        BY <2>1, <2>2 DEF MasksFit
<1>6. CASE UNCHANGED senderVars
    BY <1>6 DEF senderVars, sender, MasksFit, RequestWaits
<1>7. QED
    BY <1>1, <1>2, <1>3, <1>4, <1>5, <1>6 DEF SenderNext

\* From the start on: nothing is registered and no mask has a bit.
LEMMA FitsInvariant ==
    ASSUME EqualPackets
    PROVE  SenderSpec => []MasksFit
<1>1. SenderInit => MasksFit
    <2> SUFFICES ASSUME SenderInit PROVE MasksFit
        OBVIOUS
    <2>1. tx.num = 0 /\ tx.len = 0 /\ tx.mask = {} /\ sQueue = <<>>
        BY DEF SenderInit
    <2>2. NumSubPackets(0) = 0
        BY SizeAssumption DEF NumSubPackets
    <2>3. QED
        BY <2>1, <2>2 DEF MasksFit, RequestWaits
<1>2. SenderTypeOK /\ MasksFit /\ [SenderNext]_senderVars => MasksFit'
    BY FitsStep
<1>3. QED
    BY <1>1, <1>2, SenderTypeCorrect, PTL DEF SenderSpec

\* The frame cut from a packet with bits left to send is at one of them, as long as cut there.
LEMMA FrameOfMask ==
    ASSUME NEW t \in TxType, t.mask # {}, t.mask \subseteq LowBits(t.num)
    PROVE  LET f == NextFrame(t) IN
           /\ f = SubPacket(t.id, f.idx, t.num, SubPacketSize(f.idx, t.num, t.len), t.body)
           /\ f.num = t.num
           /\ f.body = t.body
           /\ f.idx \in t.mask
           /\ f.size = SubPacketSize(f.idx, t.num, t.len)
<1> DEFINE p == PickNext(t.mask, t.num, t.len)
<1>1. t.mask \in Masks /\ t.num \in Nat /\ t.len \in Nat
    BY DEF TxType
<1>2. t.mask \cap LowBits(t.num) # {}
    OBVIOUS
<1>3. ~p.empty /\ p.idx \in t.mask /\ p.size = SubPacketSize(p.idx, t.num, t.len)
    BY <1>1, <1>2, PickNextType
<1> HIDE DEF p
<1>4. NextFrame(t) = SubPacket(t.id, p.idx, t.num, p.size, IF p.empty THEN NoBody ELSE t.body)
    BY DEF NextFrame, p
<1>5. NextFrame(t) = SubPacket(t.id, p.idx, t.num, p.size, t.body)
    BY <1>3, <1>4
<1>6. QED
    BY <1>3, <1>5 DEF SubPacket

\* The packet a frame of this step is cut from: registered, with bits left, all within it.
LEMMA FrameSource ==
    ASSUME SenderStateOK, MasksFit, GoesOn \/ StartsWith
    PROVE  \E t \in TxType :
              /\ out' = <<NextFrame(t)>>
              /\ t.num = tx.num /\ t.len = tx.len /\ t.body = tx.body
              /\ t.mask # {} /\ t.mask \subseteq LowBits(tx.num)
              /\ IF GoesOn THEN t.mask = tx.mask ELSE t.mask = reqData.mask
<1>1. CASE GoesOn
    <2>1. tx \in TxType /\ tx.mask # {} /\ tx.mask \subseteq LowBits(tx.num)
        BY <1>1 DEF GoesOn, Done, MasksFit, SenderStateOK, TxType
    <2>2. QED
        BY <1>1, <2>1 DEF GoesOn
<1>2. CASE StartsWith /\ ~GoesOn
    <2>1. 1 \in 1..Len(sQueue) /\ sQueue[1] = "requested"
        BY <1>2 DEF StartsWith, SenderStateOK
    <2>2. reqData.mask # {} /\ reqData.mask \subseteq LowBits(tx.num)
        BY <1>2, <2>1 DEF StartsWith, MasksFit, RequestWaits
    <2>3. Requested(tx) \in TxType
        BY RequestedType
    <2>4. /\ Requested(tx).num = tx.num /\ Requested(tx).len = tx.len /\ Requested(tx).body = tx.body
          /\ Requested(tx).mask = reqData.mask
        BY DEF Requested, SenderStateOK
    <2>5. QED
        BY <1>2, <2>2, <2>3, <2>4 DEF StartsWith
<1>3. QED
    BY <1>1, <1>2

\* With packets of equally many sub-packets, every frame carries the registered bytes of its
\* index: full sub-packets, and a last one that ends where the packet ends.
THEOREM FramesTile ==
    ASSUME EqualPackets
    PROVE  SenderSpec => FramesTilePacket
<1>1. SenderTypeOK /\ MasksFit /\ [SenderNext]_senderVars =>
          [ \A f \in Frames(out') :
               /\ f.num = tx.num
               /\ f.body = tx.body
               /\ f.idx * SubpacketMaxBytes + f.size <= tx.len
               /\ f.size < SubpacketMaxBytes => f.idx * SubpacketMaxBytes + f.size = tx.len
               /\ f.idx = f.num - 1 => f.idx * SubpacketMaxBytes + f.size = tx.len ]_senderVars
    <2> SUFFICES ASSUME SenderStateOK, MasksFit, SenderStep, NEW f \in Frames(out')
                 PROVE  /\ f.num = tx.num
                        /\ f.body = tx.body
                        /\ f.idx * SubpacketMaxBytes + f.size <= tx.len
                        /\ f.size < SubpacketMaxBytes => f.idx * SubpacketMaxBytes + f.size = tx.len
                        /\ f.idx = f.num - 1 => f.idx * SubpacketMaxBytes + f.size = tx.len
        BY NextIsSenderStep DEF SenderTypeOK
    <2>1. PICK t \in TxType :
              /\ out' = <<NextFrame(t)>>
              /\ t.num = tx.num /\ t.len = tx.len /\ t.body = tx.body
              /\ t.mask # {} /\ t.mask \subseteq LowBits(tx.num)
        BY FrameSent, FrameSource
    <2>2. f = NextFrame(t)
        BY <2>1, FramesOfOne
    <2>3. /\ f.num = tx.num /\ f.body = tx.body /\ f.idx \in LowBits(tx.num)
          /\ f.size = SubPacketSize(f.idx, tx.num, tx.len)
        BY <2>1, <2>2, FrameOfMask
    <2>4. tx.num = NumSubPackets(tx.len) /\ tx.len \in Nat
        BY DEF MasksFit, SenderStateOK
    <2>5. /\ f.idx * SubpacketMaxBytes + f.size <= tx.len
          /\ f.idx = tx.num - 1 => f.idx * SubpacketMaxBytes + f.size = tx.len
          /\ f.idx # tx.num - 1 => f.size = SubpacketMaxBytes
        BY <2>3, <2>4, SubPacketsTile
    <2>6. QED
        BY <2>3, <2>5, SizeAssumption
<1>2. QED
    BY <1>1, SenderTypeCorrect, FitsInvariant, PTL DEF SenderSpec, FramesTilePacket

IndicesSent == { f.idx : f \in Frames(out') }

\* What is going to be sent lies within the packet it is cut from.
SendsWithin ==
    /\ sending => tx.mask \subseteq LowBits(tx.num)
    /\ RequestWaits => reqData.mask \subseteq LowBits(tx.num)

\* A step that sends nothing.
LEMMA NothingSent ==
    ASSUME out' = <<>>
    PROVE  IndicesSent = {}
BY DEF IndicesSent, Frames

\* Nor does a signal have an index.
LEMMA RegisterSendsNoFrame ==
    ASSUME SenderStateOK, NEW id, RegisterAndSignal(id)
    PROVE  IndicesSent = {} /\ tx'.mask = tx.mask
<1>1. tx'.mask = tx.mask
    BY DEF RegisterAndSignal, SenderStateOK
<1>2. CASE out' = <<SignalOf(id)>>
    <2>1. SignalOf(id).type = "signal"
        BY DEF SignalOf, Signal
    <2>2. \A k \in 1..Len(out') : out'[k].type = "signal"
        BY <1>2, <2>1
    <2>3. QED
        BY <1>1, <2>2 DEF IndicesSent, Frames
<1>3. QED
    BY <1>1, <1>2, NothingSent DEF RegisterAndSignal

\* The bit of the frame the radio took is the one cleared.
LEMMA SendFrameClears ==
    ASSUME NEW t \in TxType, NEW accepted \in BOOLEAN, SendFrame(t, accepted),
           t.mask # {}, t.mask \subseteq LowBits(t.num)
    PROVE  IndicesSent = t.mask \ tx'.mask
<1>1. CASE accepted
    <2>1. out' = <<NextFrame(t)>>
        BY <1>1, Zenon DEF SendFrame
    <2>2. tx' = [t EXCEPT !.mask = @ \ {NextFrame(t).idx}]
        BY <1>1, Zenon DEF SendFrame
    <2>3. tx'.mask = t.mask \ {NextFrame(t).idx}
        BY <2>2 DEF TxType
    <2>4. NextFrame(t).idx \in t.mask
        BY FrameOfMask
    <2>5. IndicesSent = {NextFrame(t).idx}
        BY <2>1, FramesOfOne, Zenon DEF IndicesSent
    <2>6. QED
        BY <2>3, <2>4, <2>5
<1>2. CASE ~accepted
    <2>1. out' = <<>> /\ tx' = t
        BY <1>2, Zenon DEF SendFrame
    <2>2. QED
        BY <2>1, NothingSent
<1>3. QED
    BY <1>1, <1>2

\* A step sends the sub-packets whose bits it clears: of the mask before it, or of a request's.
LEMMA RequestedStep ==
    ASSUME SenderStateOK, NoStuckSending, SendsWithin, SenderStep
    PROVE  IF sQueue # <<>> /\ Head(sQueue) = "requested"
           THEN IndicesSent \subseteq tx.mask \/ IndicesSent = reqData.mask \ tx'.mask
           ELSE SenderReset \/ IndicesSent = tx.mask \ tx'.mask
<1>1. ASSUME IndicesSent = {}, tx'.mask = tx.mask
      PROVE  IndicesSent \subseteq tx.mask /\ IndicesSent = tx.mask \ tx'.mask
    BY <1>1
<1>2. CASE Notify
    <2>1. IndicesSent = {} /\ tx'.mask = tx.mask
        BY <1>2, RegisterSendsNoFrame, NothingSent
        DEF Notify, NoRoot, RootWithoutRoute, RootWithRoute, RouteEstablished
    <2>2. QED
        BY <1>1, <2>1
<1>3. CASE SenderTimerExpires \/ \E m \in Requests : HandleRequest(m)
    BY <1>1, <1>3, NothingSent DEF HandleRequest, SenderTimerExpires
<1>4. CASE SenderReset
    BY <1>4, NothingSent DEF SenderReset
<1>5. tx \in TxType /\ (sending => tx.mask \subseteq LowBits(tx.num))
    BY DEF SenderStateOK, SendsWithin, TxType
<1>6. CASE DeliverPeriod
    <2>1. Head(sQueue) = "timer"
        BY <1>6 DEF DeliverPeriod
    <2>2. CASE out' = <<>> /\ tx' = tx
        BY <1>1, <2>2, NothingSent
    <2>3. CASE Wakes /\ ~Done /\ \E accepted \in BOOLEAN : SendFrame(tx, accepted)
        <3>1. sending
            BY <2>3 DEF Wakes, NoStuckSending
        <3>2. tx.mask # {}
            BY <2>3 DEF Done
        <3>3. QED
            BY <1>5, <2>1, <2>3, <3>1, <3>2, SendFrameClears
    <2>4. QED
        BY <1>6, <2>2, <2>3 DEF DeliverPeriod, Resume, FinishSending
<1>7. CASE DeliverRequested
    <2>1. sQueue # <<>> /\ Head(sQueue) = "requested"
        BY <1>7 DEF DeliverRequested
    <2> SUFFICES IndicesSent \subseteq tx.mask \/ IndicesSent = reqData.mask \ tx'.mask
        BY <2>1
    <2>2. CASE out' = <<>>
        BY <2>2, NothingSent
    <2>3. CASE StartSending
        <3>1. CASE reqData.mask = {}
            BY <2>2, <2>3, <3>1 DEF StartSending, FinishSending
        <3>2. CASE reqData.mask # {}
            <4>1. PICK accepted \in BOOLEAN : SendFrame(Requested(tx), accepted)
                BY <2>3, <3>2 DEF StartSending
            <4>2. Requested(tx).mask = reqData.mask /\ Requested(tx).num = tx.num
                BY DEF Requested, SenderStateOK
            <4>3. 1 \in 1..Len(sQueue) /\ sQueue[1] = "requested"
                BY <2>1 DEF SenderStateOK
            <4>4. reqData.mask \subseteq LowBits(tx.num)
                BY <4>3 DEF SendsWithin, RequestWaits
            <4>5. QED
                BY <3>2, <4>1, <4>2, <4>4, RequestedType, SendFrameClears
        <3>3. QED
            BY <3>1, <3>2
    <2>4. CASE TakeOverAfterFrame
        <3>1. out' = <<>> \/ out' = <<NextFrame(tx)>>
            BY <2>4, Zenon DEF TakeOverAfterFrame
        <3>2. CASE out' = <<NextFrame(tx)>>
            <4>1. NextFrame(tx).idx \in tx.mask
                BY <1>5, <2>4, FrameOfMask DEF TakeOverAfterFrame, Done
            <4>2. IndicesSent = {NextFrame(tx).idx}
                BY <3>2, FramesOfOne, Zenon DEF IndicesSent
            <4>3. QED
                BY <4>1, <4>2
        <3>3. QED
            BY <2>2, <3>1, <3>2
    <2>5. QED
        BY <1>7, <2>2, <2>3, <2>4 DEF DeliverRequested, TakeOverSending
<1>8. QED
    BY <1>2, <1>3, <1>4, <1>6, <1>7 DEF SenderStep, DeliverToSender

\* With packets of equally many sub-packets, what is sent is what is asked for, each once: the
\* bits a step clears are those of the frames the radio took.
THEOREM RequestsServed ==
    ASSUME EqualPackets
    PROVE  SenderSpec => SentIsRequested
<1>1. SenderTypeOK /\ SendingInv /\ MasksFit /\ [SenderNext]_senderVars =>
          [ LET sent == { f.idx : f \in Frames(out') } IN
            IF sQueue # <<>> /\ Head(sQueue) = "requested"
            THEN \/ sent \subseteq tx.mask
                 \/ sent = reqData.mask \ tx'.mask
            ELSE SenderReset \/ sent = tx.mask \ tx'.mask ]_senderVars
    <2>1. MasksFit => SendsWithin
        BY DEF MasksFit, SendsWithin
    <2>2. QED
        BY <2>1, NextIsSenderStep, RequestedStep DEF SenderTypeOK, SendingInv, IndicesSent
<1>2. QED
    BY <1>1, SenderTypeCorrect, SendingInvariant, FitsInvariant, PTL DEF SenderSpec, SentIsRequested
=============================================================================
