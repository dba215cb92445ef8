--------------------------------- MODULE Sender ---------------------------------
(***************************************************************************)
(* The sender node: sender/large_packet_sender.c and the sending half of   *)
(* common/large_packet.c, lp_request.c and lp_subpacket.c.                 *)
(*                                                                         *)
(* packet_ready_notify_proc registers a new packet into large_packet_tx    *)
(* every generation period and signals it.  reply_to_request_proc copies   *)
(* each request into the same large_packet_tx, whether or not              *)
(* large_packet_send_proc is sending from it, and then asks for a send.    *)
(* The node has one destination, so addresses and ports are left out.      *)
(***************************************************************************)
EXTENDS LargePacketDefs, EventQueue

VARIABLES
    tx,        \* large_packet_tx: what is registered and what is left to send of it
    sending,   \* large_packet_currently_sending
    sProc,     \* large_packet_send_proc: is it running, sub_packet_send_status >= 0
    sTimer,    \* its timer; "expired" once the timer event has been posted
    sQueue,    \* events posted and not yet delivered
    reqData,   \* lpreq_event_data, the static data of a requested event
    notify,    \* where packet_ready_notify_proc waits
    route,     \* its route_established
    packetId   \* its packet_id

sender     == <<tx, sending, sProc, sTimer, sQueue, reqData, notify, route, packetId>>
senderVars == <<sender, out>>

sendVars   == <<sending, sProc, sTimer, sQueue, reqData>>
notifyVars == <<notify, route, packetId>>

SenderEvents == {"requested", "timer"}

SenderOutputs == Signals \cup SubPackets

-----------------------------------------------------------------------------

\* mira_setup and main_proc: everything static is zero
SenderInit ==
    /\ tx = [id |-> 0, num |-> 0, len |-> 0, mask |-> {}, body |-> NoBody]
    /\ sending = FALSE
    /\ sProc = [running |-> FALSE, ok |-> TRUE]
    /\ sTimer = "off"
    /\ sQueue = <<>>
    /\ reqData = Request(0, {})
    /\ notify = "pause"
    /\ route = FALSE
    /\ packetId = 0
    /\ out = <<>>

(***************************************************************************)
(* packet_ready_notify_proc: from one wait to the next.                    *)
(***************************************************************************)

\* large_packet_register_tx accepts only these
Registrable(len) == len # 0 /\ len <= SubpacketMaxBytes * MaxSubpackets

\* Slip: the payload pointer set by the first registration only.
RegisterIdOnly(id) ==
    IF Registrable(PacketLen[id])
    THEN /\ tx' = [tx EXCEPT !.id = id, !.len = PacketLen[id],
                             !.body = IF @ = NoBody THEN id ELSE @,
                             !.num = NumSubPackets(PacketLen[id])]
         /\ out' = <<SignalOf(id)>>
    ELSE /\ out' = <<>>
         /\ UNCHANGED tx

\* large_packet_register_tx, then lpsig_send: the mask is left as it is, and nothing asks
\* whether a transmission is going on
RegisterAndSignal(id) ==
    IF Registrable(PacketLen[id])
    THEN /\ tx' = [tx EXCEPT !.id = id, !.len = PacketLen[id], !.body = id,
                             !.num = NumSubPackets(PacketLen[id])]
         /\ out' = <<SignalOf(id)>>
    ELSE /\ out' = <<>>
         /\ UNCHANGED tx

\* The top of the loop, after the start-up pause, the wait for the root, or a generation period
AtLoopTop == notify \in {"pause", "waitRoot", "waitPeriod"}

\* Slip: a packet_id wider than the 16 bits of the message.
IdUnwrapped == IF notify = "waitPeriod" THEN packetId + 1 ELSE packetId

IdAtLoopTop == IF notify = "waitPeriod" THEN (packetId + 1) % (MaxPacketId + 1) ELSE packetId

NoRoot ==
    /\ AtLoopTop
    /\ packetId' = IdAtLoopTop
    /\ route' = FALSE
    /\ notify' = "waitRoot"
    /\ out' = <<>>
    /\ UNCHANGED <<tx, sendVars>>

RootWithoutRoute ==
    /\ AtLoopTop
    /\ ~route
    /\ packetId' = IdAtLoopTop
    /\ notify' = "waitRoute"
    /\ out' = <<>>
    /\ UNCHANGED <<tx, route, sendVars>>

RootWithRoute ==
    /\ AtLoopTop
    /\ route
    /\ packetId' = IdAtLoopTop
    /\ RegisterAndSignal(packetId')
    /\ notify' = "waitPeriod"
    /\ UNCHANGED <<route, sendVars>>

RouteEstablished ==
    /\ notify = "waitRoute"
    /\ route' = TRUE
    /\ RegisterAndSignal(packetId)
    /\ notify' = "waitPeriod"
    /\ UNCHANGED <<packetId, sendVars>>

Notify == NoRoot \/ RootWithoutRoute \/ RootWithRoute \/ RouteEstablished

(***************************************************************************)
(* Events.                                                                 *)
(***************************************************************************)

\* large_packet_udp_listen_callback on a request: lpreq_handle_data
HandleRequest(m) ==
    /\ reqData' = m
    /\ sQueue' = Post(sQueue, "requested")
    /\ out' = <<>>
    /\ UNCHANGED <<tx, sending, sProc, sTimer, notifyVars>>

\* The operating system posts the timer's event, once there is room, and marks it expired.
SenderTimerExpires ==
    /\ sTimer = "set"
    /\ Len(sQueue) < QueueSize
    /\ sTimer' = "expired"
    /\ sQueue' = Append(sQueue, "timer")
    /\ out' = <<>>
    /\ UNCHANGED <<tx, sending, sProc, reqData, notifyVars>>

(***************************************************************************)
(* large_packet_send_proc.                                                 *)
(***************************************************************************)

\* the message next_sub_packet_send passes to lpsp_send
NextFrame(t) ==
    LET p == PickNext(t.mask, t.num, t.len)
    IN  SubPacket(t.id, p.idx, t.num, p.size, IF p.empty THEN NoBody ELSE t.body)

\* Slip: the bit cleared whether or not the radio took the frame.
SendFrameUnchecked(t, accepted) ==
    /\ tx' = [t EXCEPT !.mask = @ \ {NextFrame(t).idx}]
    /\ out' = IF accepted THEN <<NextFrame(t)>> ELSE <<>>
    /\ sProc' = [running |-> TRUE, ok |-> accepted]
    /\ sTimer' = "set"
    /\ sending' = TRUE

\* Slip: the bit never cleared.
SendFrameAgain(t, accepted) ==
    /\ tx' = t
    /\ out' = IF accepted THEN <<NextFrame(t)>> ELSE <<>>
    /\ sProc' = [running |-> TRUE, ok |-> accepted]
    /\ sTimer' = "set"
    /\ sending' = TRUE

\* next_sub_packet_send on t, then the timer: a frame the radio refuses keeps its bit
SendFrame(t, accepted) ==
    /\ tx' = IF accepted THEN [t EXCEPT !.mask = @ \ {NextFrame(t).idx}] ELSE t
    /\ out' = IF accepted THEN <<NextFrame(t)>> ELSE <<>>
    /\ sProc' = [running |-> TRUE, ok |-> accepted]
    /\ sTimer' = "set"
    /\ sending' = TRUE

\* Slip: the flag left up.
FinishWithoutFlag(t, ok) ==
    /\ tx' = t
    /\ out' = <<>>
    /\ sProc' = [running |-> FALSE, ok |-> ok]
    /\ sTimer' = "off"
    /\ UNCHANGED sending

\* The loop's end, on t: nothing left to send, or the last frame was refused.
FinishSending(t, ok) ==
    /\ tx' = t
    /\ out' = <<>>
    /\ sProc' = [running |-> FALSE, ok |-> ok]
    /\ sTimer' = "off"
    /\ sending' = FALSE

\* What any event wakes: a process whose timer has expired.
Wakes == sProc.running /\ sTimer = "expired"

\* Slip: one frame per request, an if for the while.
DoneAfterFrame == TRUE

Done == tx.mask = {} \/ ~sProc.ok

\* The process as far as its next wait.
Resume ==
    IF Done
    THEN FinishSending(tx, sProc.ok)
    ELSE \E accepted \in BOOLEAN : SendFrame(tx, accepted)

DeliverPeriod ==
    /\ sQueue # <<>> /\ Head(sQueue) = "timer"
    /\ IF Wakes THEN Resume ELSE out' = <<>> /\ UNCHANGED <<tx, sending, sProc, sTimer>>
    /\ sQueue' = Tail(sQueue)
    /\ UNCHANGED <<reqData, notifyVars>>

(***************************************************************************)
(* A request delivered: large_packet_send_proc, if its timer has expired,  *)
(* runs before reply_to_request_proc.                                      *)
(***************************************************************************)

\* reply_to_request_proc's assignments to large_packet_tx
Requested(t) == [t EXCEPT !.id = reqData.id, !.mask = reqData.mask]

\* Slip: large_packet_send without its test of the flag.
StartAnew ==
    IF reqData.mask = {}
    THEN FinishSending(Requested(tx), TRUE)
    ELSE \E accepted \in BOOLEAN : SendFrame(Requested(tx), accepted)

\* large_packet_send finds the flag down and starts the process, which runs to its first wait.
\* The flag is down also when the process has ended on this very event.
StartSending ==
    /\ ~sending \/ (Wakes /\ Done)
    /\ IF reqData.mask = {}
       THEN FinishSending(Requested(tx), TRUE)
       ELSE \E accepted \in BOOLEAN : SendFrame(Requested(tx), accepted)

\* large_packet_send refuses, but the transmission going on now serves the new request.
TakeOverSending ==
    /\ sending /\ ~Wakes
    /\ tx' = Requested(tx)
    /\ out' = <<>>
    /\ UNCHANGED <<sending, sProc, sTimer>>

\* The same, after one more frame for the old request.
TakeOverAfterFrame ==
    /\ sending /\ Wakes /\ ~Done
    /\ \E accepted \in BOOLEAN :
          /\ tx' = Requested(tx)
          /\ out' = IF accepted THEN <<NextFrame(tx)>> ELSE <<>>
          /\ sProc' = [running |-> TRUE, ok |-> accepted]
          /\ sTimer' = "set"
          /\ UNCHANGED sending

DeliverRequested ==
    /\ sQueue # <<>> /\ Head(sQueue) = "requested"
    /\ StartSending \/ TakeOverSending \/ TakeOverAfterFrame
    /\ sQueue' = Tail(sQueue)
    /\ UNCHANGED <<reqData, notifyVars>>

DeliverToSender == DeliverPeriod \/ DeliverRequested

\* Power loss: nothing is kept in flash.
SenderReset ==
    /\ tx' = [id |-> 0, num |-> 0, len |-> 0, mask |-> {}, body |-> NoBody]
    /\ sending' = FALSE
    /\ sProc' = [running |-> FALSE, ok |-> TRUE]
    /\ sTimer' = "off"
    /\ sQueue' = <<>>
    /\ reqData' = Request(0, {})
    /\ notify' = "pause"
    /\ route' = FALSE
    /\ packetId' = 0
    /\ out' = <<>>

-----------------------------------------------------------------------------
(***************************************************************************)
(* The node alone: once a packet is registered, a receiver asks for        *)
(* sub-packets of packets it was told of.                                  *)
(***************************************************************************)

SenderNetwork ==
    /\ tx.num > 0
    /\ \E p \in PacketIds : Registrable(PacketLen[p]) /\
          \E mask \in SUBSET LowBits(NumSubPackets(PacketLen[p])) : HandleRequest(Request(p, mask))

SenderNext == Notify \/ SenderNetwork \/ SenderTimerExpires \/ DeliverToSender \/ SenderReset

SenderSpec == SenderInit /\ [][SenderNext]_senderVars

\* The scheduler goes on delivering events, and timers go off.
SenderFairSpec == SenderSpec /\ WF_senderVars(DeliverToSender) /\ WF_senderVars(SenderTimerExpires)

-----------------------------------------------------------------------------
(***************************************************************************)
(* Properties.                                                             *)
(***************************************************************************)

SenderStateOK ==
    /\ tx \in [id : PacketIds, num : Nat, len : Nat, mask : Masks, body : Bodies]
    /\ sending \in BOOLEAN
    /\ sProc \in [running : BOOLEAN, ok : BOOLEAN]
    /\ sTimer \in {"off", "set", "expired"}
    /\ sQueue \in Seq(SenderEvents)
    /\ Len(sQueue) <= QueueSize
    /\ reqData \in Requests
    /\ notify \in {"pause", "waitRoot", "waitRoute", "waitPeriod"}
    /\ route \in BOOLEAN
    /\ packetId \in PacketIds

SenderTypeOK == SenderStateOK /\ out \in Seq(SenderOutputs)

\* large_packet_currently_sending is up exactly while the send process runs, and a running
\* process has a timer that will wake it.  A flag left up would refuse every later request.
NoStuckSending ==
    /\ sending = sProc.running
    /\ sending =>
          \/ sTimer = "set"
          \/ sTimer = "expired" /\ \E k \in 1..Len(sQueue) : sQueue[k] = "timer"

\* The send process stops only with nothing left to send, or after a frame was refused: a
\* request merged into a transmission about to end is not forgotten.
IdleMeansDone == ~sending => tx.mask = {} \/ ~sProc.ok

Frames(messages) ==
    { messages[k] : k \in { j \in 1..Len(messages) : messages[j].type = "subpacket" } }

\* Sub-packets go out one at a time and never while the requested period is running, even
\* when requests arrive in the middle of a transmission.
Paced == [][ Frames(out') # {} => sTimer # "set" /\ Len(out') = 1 ]_senderVars

\* Only sub-packets whose bit is at 1 are sent, each once: the bits a step clears are those of
\* the frames the radio took.  A request delivered in the step replaces the mask, before or
\* after a frame.
SentIsRequested ==
    [][ LET sent == { f.idx : f \in Frames(out') } IN
        IF sQueue # <<>> /\ Head(sQueue) = "requested"
        THEN \/ sent \subseteq tx.mask
             \/ sent = reqData.mask \ tx'.mask
        ELSE SenderReset \/ sent = tx.mask \ tx'.mask ]_senderVars

\* The bytes a frame carries are those at its index of the registered packet, full sub-packets
\* except the last, which ends where the packet ends.
FramesTilePacket ==
    [][ \A f \in Frames(out') :
            /\ f.num = tx.num
            /\ f.body = tx.body
            /\ f.idx * SubpacketMaxBytes + f.size <= tx.len
            /\ f.size < SubpacketMaxBytes => f.idx * SubpacketMaxBytes + f.size = tx.len
            /\ f.idx = f.num - 1 => f.idx * SubpacketMaxBytes + f.size = tx.len ]_senderVars

\* "reply_to_request_proc [...] starts transmission of the requested large packet": the bytes
\* sent under an id are those registered under it.
SendsWhatItNames == [][ \A f \in Frames(out') : f.body = f.id ]_senderVars

\* Once no more requests arrive, the transmission going on ends.
EndsAfterLastRequest ==
    <>[][~SenderNetwork]_senderVars => (sending ~> ~sending)
=============================================================================
