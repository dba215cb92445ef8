-------------------------------- MODULE Receiver --------------------------------
(***************************************************************************)
(* The receiver node: receiver/large_packet_receiver.c and the receiving   *)
(* half of common/large_packet.c, lp_signal.c and lp_subpacket.c.          *)
(*                                                                         *)
(* The node runs protothreads under one event queue.  The UDP callback     *)
(* unpacks a datagram into a static buffer and posts an event that carries *)
(* only a pointer to it, so an event delivers what the buffer holds at     *)
(* delivery.  Delivering an event runs every process waiting for it, one   *)
(* after the other: first large_packet_receive_proc (the process started   *)
(* last is served first), then the two processes of the application.       *)
(***************************************************************************)
EXTENDS LargePacketDefs, EventQueue

CONSTANTS
    MaxRetransmissionRequests,  \* LP_MAX_NUM_RETRANSMISSION_REQUESTS (4)
    LenModulus,                 \* large_packet_t.len is a uint16_t (2^16)
    FaultInjection              \* FAULT_RATE_PERCENT > 0

ASSUME ReceiverAssumption ==
    /\ MaxRetransmissionRequests \in Nat
    /\ LenModulus \in Nat \ {0}
    /\ FaultInjection \in BOOLEAN

VARIABLES
    rx,       \* large_packet_rx: the packet being received
    storage,  \* large_packet_payload_storage: what lies at each sub-packet's place
    rProc,    \* large_packet_receive_proc: is it running, re_tx_requests_left
    rTimer,   \* its timeout_timer; "expired" once the timer event has been posted
    rQueue,   \* events posted and not yet delivered
    sigData,  \* lpsig_event_data, the static data of a signaled event
    subData   \* lpsp_event_data and its static payload

receiver     == <<rx, storage, rProc, rTimer, rQueue, sigData, subData>>
receiverVars == <<receiver, out>>

ReceiverEvents == {"signaled", "subpacket", "received", "timer"}

Cells == [body : Bodies, idx : Indices, size : 0..SubpacketMaxBytes]

Blank == [body |-> NoBody, idx |-> 0, size |-> 0]

Printed(len, text) == [type |-> "printed", len |-> len, text |-> text]

ReceiverOutputs ==
    Requests \cup [type : {"printed"}, len : 0..(LenModulus - 1), text : [Indices -> Cells]]

-----------------------------------------------------------------------------

\* mira_setup, and main_proc up to the start of the two application processes
ReceiverInit ==
    /\ rx = [id |-> 0, num |-> 0, mask |-> {}, len |-> 0]
    /\ storage = [i \in Indices |-> Blank]
    /\ rProc = [running |-> FALSE, left |-> 0]
    /\ rTimer = "off"
    /\ rQueue = <<>>
    /\ sigData = Signal(0, 0)
    /\ subData = SubPacket(0, 0, 0, 0, NoBody)
    /\ out = <<>>

(***************************************************************************)
(* Events.                                                                 *)
(***************************************************************************)

\* large_packet_udp_listen_callback on a signal: lpsig_handle_data
HandleSignal(m) ==
    /\ sigData' = m
    /\ rQueue' = Post(rQueue, "signaled")
    /\ out' = <<>>
    /\ UNCHANGED <<rx, storage, rProc, rTimer, subData>>

\* large_packet_udp_listen_callback on a sub-packet: lpsp_handle_data
HandleSubPacket(m) ==
    /\ subData' = m
    /\ rQueue' = Post(rQueue, "subpacket")
    /\ out' = <<>>
    /\ UNCHANGED <<rx, storage, rProc, rTimer, sigData>>

\* The operating system posts the timer's event, once there is room, and marks it expired.
ReceiverTimerExpires ==
    /\ rTimer = "set"
    /\ Len(rQueue) < QueueSize
    /\ rTimer' = "expired"
    /\ rQueue' = Append(rQueue, "timer")
    /\ out' = <<>>
    /\ UNCHANGED <<rx, storage, rProc, sigData, subData>>

NextEvent(event) == rQueue # <<>> /\ Head(rQueue) = event

(***************************************************************************)
(* large_packet_receive_proc: what it does with an event.                  *)
(***************************************************************************)

\* Slip: woken by the event of any timer, for a test of the timer itself.
TimedOutByEvent == rProc.running /\ (rTimer = "expired" \/ NextEvent("timer"))

TimedOut == rProc.running /\ rTimer = "expired"

\* request_for_missing_subpackets, when the process has timed out with requests left
TimeoutRequest ==
    IF TimedOut /\ rProc.left > 0
    THEN <<Request(rx.id, MissingMask(rx.mask, rx.num))>>
    ELSE <<>>

\* Slip: the bound tested with >= 0.
RerequestOnceMore ==
    /\ TimedOut
    /\ rProc' = [rProc EXCEPT !.left = @ - 1]
    /\ rTimer' = "set"

\* Slip: etimer_set moved out of the loop.
RerequestUntimed ==
    /\ TimedOut
    /\ rProc.left > 0
    /\ rProc' = [rProc EXCEPT !.left = @ - 1]
    /\ UNCHANGED rTimer

\* Slip: the retry not counted.
RerequestForever ==
    /\ TimedOut
    /\ rProc.left > 0
    /\ rTimer' = "set"
    /\ UNCHANGED rProc

Rerequest ==
    /\ TimedOut
    /\ rProc.left > 0
    /\ rProc' = [rProc EXCEPT !.left = @ - 1]
    /\ rTimer' = "set"

GiveUp ==
    /\ TimedOut
    /\ rProc.left = 0
    /\ rProc' = [rProc EXCEPT !.running = FALSE]
    /\ rTimer' = "off"

\* Any event wakes a process whose timer has expired; no other than a sub-packet wakes it else.
CheckTimeout ==
    \/ ~TimedOut /\ UNCHANGED <<rProc, rTimer>>
    \/ Rerequest
    \/ GiveUp

\* lp_fault_injected: the sub-packet is dropped and the timer set anew
DiscardSubPacket ==
    /\ FaultInjection
    /\ rTimer' = "set"
    /\ rQueue' = Tail(rQueue)
    /\ UNCHANGED <<rx, storage, rProc>>

\* A sub-packet of another packet ends the process.
LeaveOnForeignId ==
    /\ subData.id # rx.id
    /\ rProc' = [rProc EXCEPT !.running = FALSE]
    /\ rTimer' = "off"
    /\ rQueue' = Tail(rQueue)
    /\ UNCHANGED <<rx, storage>>

\* Slip: sub-packets stored in the order of arrival.
StoredAtLength(m) ==
    [storage EXCEPT ![(rx.len \div SubpacketMaxBytes) % MaxSubpackets] =
                        [body |-> m.body, idx |-> m.idx, size |-> m.size]]

\* The copy to the sub-packet's place; one without payload copies nothing.
Stored(m) ==
    IF m.size = 0 THEN storage
    ELSE [storage EXCEPT ![m.idx] = [body |-> m.body, idx |-> m.idx, size |-> m.size]]

\* Slip: done when the last index has come.
LastReceived(mask, num) == num - 1 \in mask

\* rx_done
AllReceived(mask, num) == mask = LowBits(num)

\* A sub-packet of the packet being received; the last one missing ends the process.
TakeSubPacket ==
    /\ subData.id = rx.id
    /\ storage' = Stored(subData)
    /\ rx' = [rx EXCEPT !.len = (@ + subData.size) % LenModulus,
                        !.mask = @ \cup {subData.idx}]
    /\ IF AllReceived(rx'.mask, subData.num)
       THEN /\ rProc' = [rProc EXCEPT !.running = FALSE]
            /\ rTimer' = "off"
            /\ rQueue' = Post(Tail(rQueue), "received")
       ELSE /\ rTimer' = "set"
            /\ rQueue' = Tail(rQueue)
            /\ UNCHANGED rProc

(***************************************************************************)
(* One event delivered to every process.                                   *)
(***************************************************************************)

DeliverTimeout ==
    /\ NextEvent("timer")
    /\ CheckTimeout
    /\ rQueue' = Tail(rQueue)
    /\ out' = TimeoutRequest
    /\ UNCHANGED <<rx, storage, sigData, subData>>

\* With the timer expired, the process takes the time-out branch and the sub-packet is lost.
DeliverSubPacket ==
    /\ NextEvent("subpacket")
    /\ \/ /\ TimedOut \/ ~rProc.running
          /\ CheckTimeout
          /\ rQueue' = Tail(rQueue)
          /\ UNCHANGED <<rx, storage>>
       \/ /\ rProc.running /\ ~TimedOut
          /\ DiscardSubPacket \/ LeaveOnForeignId \/ TakeSubPacket
    /\ out' = TimeoutRequest
    /\ UNCHANGED <<sigData, subData>>

\* Slip: the received mask of the reception before kept.
StartWithOldMask ==
    /\ FitsMask(sigData.num)
    /\ rx' = [rx EXCEPT !.id = sigData.id, !.num = sigData.num, !.len = 0]
    /\ rProc' = [running |-> TRUE, left |-> MaxRetransmissionRequests]
    /\ rTimer' = "set"
    /\ out' = TimeoutRequest \o <<Request(sigData.id, LowBits(sigData.num))>>

\* signal_to_request_proc: request the whole packet and restart large_packet_receive_proc
StartReception ==
    /\ FitsMask(sigData.num)
    /\ rx' = [id |-> sigData.id, num |-> sigData.num, mask |-> {}, len |-> 0]
    /\ rProc' = [running |-> TRUE, left |-> MaxRetransmissionRequests]
    /\ rTimer' = "set"
    /\ out' = TimeoutRequest \o <<Request(sigData.id, LowBits(sigData.num))>>

\* signal_to_request_proc: no mask for so many sub-packets
RefuseSignal ==
    /\ ~FitsMask(sigData.num)
    /\ CheckTimeout
    /\ out' = TimeoutRequest
    /\ UNCHANGED rx

DeliverSignaled ==
    /\ NextEvent("signaled")
    /\ StartReception \/ RefuseSignal
    /\ rQueue' = Tail(rQueue)
    /\ UNCHANGED <<storage, sigData, subData>>

\* The '\0' written at the received length: it spoils the bytes it falls on, if any.
Terminated ==
    [i \in Indices |->
        IF i = rx.len \div SubpacketMaxBytes /\ rx.len % SubpacketMaxBytes < storage[i].size
        THEN [storage[i] EXCEPT !.body = NoBody]
        ELSE storage[i]]

\* large_packet_monitor_proc: print the payload up to the received length
DeliverReceived ==
    /\ NextEvent("received")
    /\ CheckTimeout
    /\ storage' = Terminated
    /\ out' = Append(TimeoutRequest, Printed(rx.len,
                  [i \in Indices |-> IF i * SubpacketMaxBytes < rx.len THEN storage'[i] ELSE Blank]))
    /\ rQueue' = Tail(rQueue)
    /\ UNCHANGED <<rx, sigData, subData>>

DeliverToReceiver == DeliverTimeout \/ DeliverSubPacket \/ DeliverSignaled \/ DeliverReceived

\* Power loss: nothing is kept in flash.
ReceiverReset ==
    /\ rx' = [id |-> 0, num |-> 0, mask |-> {}, len |-> 0]
    /\ storage' = [i \in Indices |-> Blank]
    /\ rProc' = [running |-> FALSE, left |-> 0]
    /\ rTimer' = "off"
    /\ rQueue' = <<>>
    /\ sigData' = Signal(0, 0)
    /\ subData' = SubPacket(0, 0, 0, 0, NoBody)
    /\ out' = <<>>

-----------------------------------------------------------------------------
(***************************************************************************)
(* The node alone: the network brings signals and sub-packets of the       *)
(* packets the sender has, in any order, any number of times.              *)
(***************************************************************************)

SentPackets == { p \in PacketIds : NumSubPackets(PacketLen[p]) \in 1..MaxSubpackets }

ReceiverNetwork ==
    \/ \E p \in PacketIds : PacketLen[p] # 0 /\ HandleSignal(SignalOf(p))
    \/ \E p \in SentPackets : \E i \in LowBits(NumSubPackets(PacketLen[p])) :
           HandleSubPacket(SubPacketOf(p, i))

ReceiverNext == ReceiverNetwork \/ ReceiverTimerExpires \/ DeliverToReceiver \/ ReceiverReset

ReceiverSpec == ReceiverInit /\ [][ReceiverNext]_receiverVars

\* The scheduler goes on delivering events, and timers go off.
ReceiverFairSpec ==
    ReceiverSpec /\ WF_receiverVars(DeliverToReceiver) /\ WF_receiverVars(ReceiverTimerExpires)

-----------------------------------------------------------------------------
(***************************************************************************)
(* Properties.                                                             *)
(***************************************************************************)

ReceiverStateOK ==
    /\ rx \in [id : PacketIds, num : Nat, mask : Masks, len : 0..(LenModulus - 1)]
    /\ storage \in [Indices -> Cells]
    /\ rProc \in [running : BOOLEAN, left : 0..MaxRetransmissionRequests]
    /\ rTimer \in {"off", "set", "expired"}
    /\ rQueue \in Seq(ReceiverEvents)
    /\ Len(rQueue) <= QueueSize
    /\ sigData \in Signals
    /\ subData \in SubPackets

ReceiverTypeOK == ReceiverStateOK /\ out \in Seq(ReceiverOutputs)

\* A running receive process always has a timer that will wake it: it is set, or its event
\* is still in the queue.  Without this the reception would hang for ever after one loss.
NoLostWakeup ==
    rProc.running =>
        \/ rTimer = "set"
        \/ rTimer = "expired" /\ \E k \in 1..Len(rQueue) : rQueue[k] = "timer"

\* A bit of the received mask says that the sub-packet's own bytes lie at its place: copied
\* there by the latest event, not by one whose static buffer was since overwritten.  Only the
\* '\0' of large_packet_monitor_proc may have spoiled them.
MarkedIsStored ==
    \A i \in rx.mask :
        /\ storage[i].idx = i
        /\ storage[i].size = SubPacketOf(rx.id, i).size
        /\ storage[i].body \in {rx.id, NoBody}

\* The request is for exactly what the reception r lacks.
AsksFor(request, r) ==
    /\ request.id = r.id
    /\ request.mask \cap r.mask = {}
    /\ request.mask \cup r.mask = 0..(r.num - 1)

\* Every request asks for something, only for sub-packets that exist and are not yet
\* received, and for all of them: the reception it is for is the one before or after the step.
RequestsWhatIsMissing ==
    [][ \A k \in 1..Len(out') : out'[k].type = "request" =>
            /\ out'[k].mask # {}
            /\ \E r \in {rx, rx'} : AsksFor(out'[k], r) ]_receiverVars

\* The places of the announcements in a queue.
Announcements(q) == { k \in 1..Len(q) : q[k] = "received" }

Promise == INSTANCE Reception WITH
    Parts      <- Indices,
    MaxRetries <- MaxRetransmissionRequests,
    open       <- rProc.running,
    whole      <- LowBits(rx.num),
    got        <- rx.mask,
    retries    <- MaxRetransmissionRequests - rProc.left,
    late       <- rProc.running /\ rTimer = "expired",
    ready      <- Cardinality(Announcements(rQueue))

\* The receive process implements the abstract reception: the retries it has used are those
\* missing from re_tx_requests_left, a silence is over when its timer, set since the latest
\* start, re-request or sub-packet, has expired (the event of a timer set before then is not
\* enough), and an announcement is a "received" event in the queue.
KeepsPromise == Promise!Spec

\* What a completed reception has received is as long as the packet: "Large packet received,
\* %d bytes" prints this length.
CountsEachByteOnce ==
    rx.num > 0 /\ rx.mask = 0..(rx.num - 1) => rx.len = PacketLen[rx.id]

\* "Receiver keeps track of all received sub-packets, as long as more are missing or until a new
\* packet ready notification arrives": it stops for no other reason than its retries' end or
\* a restart of the node.
LeavesOnlyWhenDone ==
    [][ rProc.running /\ ~rProc'.running =>
            ReceiverReset \/ rx'.mask = 0..(rx'.num - 1) \/ rProc.left = 0 ]_receiverVars

\* "Once all sub-packets are received, Receiver displays the large packet": what is printed
\* has the bytes of every sub-packet of one packet, each at its place.
DisplaysWholePacket ==
    [][ \A k \in 1..Len(out') : out'[k].type = "printed" =>
            \E p \in SentPackets : \A i \in LowBits(NumSubPackets(PacketLen[p])) :
                out'[k].text[i] =
                    [body |-> p, idx |-> i, size |-> SubPacketOf(p, i).size] ]_receiverVars

\* Once the network falls silent a reception ends: completed, or given up after its last
\* re-request.  The timer, the retry counter and the queue together must see to it.
EndsAfterSilence ==
    <>[][~ReceiverNetwork]_receiverVars => (rProc.running ~> ~rProc.running)
=============================================================================
