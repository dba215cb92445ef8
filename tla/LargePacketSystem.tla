---------------------------- MODULE LargePacketSystem ----------------------------
(***************************************************************************)
(* A sender node and a receiver node, joined by UDP: the datagrams in      *)
(* flight are a bag, delivered in any order.  Datagrams are lost or        *)
(* duplicated, frames are refused by the sender's radio, and either node   *)
(* restarts, a bounded number of times each.                               *)
(*                                                                         *)
(* Each step is one step of one node; the two share the port `out`, from   *)
(* which the datagrams of the step go into the network.                    *)
(***************************************************************************)
EXTENDS Receiver, Sender, Bags, BagsExt, SequencesExt

CONSTANTS
    MaxSignals,                 \* bound: signals the sender sends
    MaxLosses,                  \* bound: datagrams lost, frames refused, per signal sent
    MaxDuplicates,              \* bound: datagrams duplicated
    MaxSenderRestarts,          \* bound: restarts of the sender
    MaxReceiverRestarts,        \* bound: restarts of the receiver, per signal sent
    MaxInFlight,                \* bound: no new frame with so many datagrams in flight
    Calm,    \* a packet is signaled once, after all traffic for the one before has ended
    Prompt,  \* a node delivers its events before the next datagram arrives
    Patient  \* the receiver times out only when nothing is on its way

ASSUME SystemAssumption ==
    /\ {MaxSignals, MaxLosses, MaxDuplicates, MaxSenderRestarts, MaxReceiverRestarts,
        MaxInFlight} \subseteq Nat
    /\ {Calm, Prompt, Patient} \subseteq BOOLEAN

VARIABLES
    net,     \* the datagrams in flight
    faults   \* how many times each bounded thing has happened

vars == <<receiver, sender, out, net, faults>>

Faults == [signals : 0..MaxSignals, losses : 0..MaxLosses, duplicates : 0..MaxDuplicates,
           senderRestarts : 0..MaxSenderRestarts, receiverRestarts : 0..MaxReceiverRestarts]

-----------------------------------------------------------------------------

Init ==
    /\ ReceiverInit
    /\ SenderInit
    /\ net = EmptyBag
    /\ faults = [signals |-> 0, losses |-> 0, duplicates |-> 0,
                 senderRestarts |-> 0, receiverRestarts |-> 0]

\* The datagrams of this step go into the network, added to those of `bag`.
Sending(bag) ==
    net' = bag (+) [m \in Datagrams(out') |-> Copies(m, out')]

Counting(fault, n) == faults' = [faults EXCEPT ![fault] = @ + n]

(***************************************************************************)
(* Steps of the receiver.                                                  *)
(***************************************************************************)

ReceiverDelivers == DeliverToReceiver /\ Sending(net) /\ UNCHANGED <<sender, faults>>

\* The time-out is ten periods: long enough for what is on its way to arrive.
NothingOnItsWay == net = EmptyBag /\ rQueue = <<>> /\ sQueue = <<>> /\ ~sending

ReceiverTimesOut ==
    /\ Patient => NothingOnItsWay
    /\ ReceiverTimerExpires
    /\ UNCHANGED <<sender, net, faults>>

ReceiverRestarts ==
    /\ faults.receiverRestarts < MaxReceiverRestarts
    /\ ReceiverReset
    /\ Counting("receiverRestarts", 1)
    /\ UNCHANGED <<sender, net>>

(***************************************************************************)
(* Steps of the sender.                                                    *)
(***************************************************************************)

\* The frame of this step, the timer being set in it, was refused by the radio.
Refusal == IF sTimer # "set" /\ sTimer' = "set" /\ ~sProc'.ok THEN 1 ELSE 0

SenderDelivers ==
    /\ DeliverToSender
    /\ Counting("losses", Refusal)
    /\ faults'.losses <= MaxLosses
    /\ Sending(net)
    /\ UNCHANGED receiver

SenderTimesOut ==
    /\ BagCardinality(net) < MaxInFlight
    /\ SenderTimerExpires
    /\ UNCHANGED <<receiver, net, faults>>

SenderNotifies ==
    /\ Notify
    /\ faults' = IF out' = <<>> THEN faults
                 ELSE [faults EXCEPT !.signals = @ + 1, !.losses = 0, !.receiverRestarts = 0]
    /\ faults'.signals <= MaxSignals
    /\ Calm => NothingOnItsWay /\ ~rProc.running
    /\ Sending(net)
    /\ UNCHANGED receiver

SenderRestarts ==
    /\ faults.senderRestarts < MaxSenderRestarts
    /\ SenderReset
    /\ Counting("senderRestarts", 1)
    /\ UNCHANGED <<receiver, net>>

(***************************************************************************)
(* Steps of the network.                                                   *)
(***************************************************************************)

Arrives(m) ==
    /\ Prompt => rQueue = <<>> /\ sQueue = <<>>
    /\ net' = BagRemove(net, m)
    /\ \/ m.type = "signal" /\ HandleSignal(m) /\ UNCHANGED sender
       \/ m.type = "subpacket" /\ HandleSubPacket(m) /\ UNCHANGED sender
       \/ m.type = "request" /\ HandleRequest(m) /\ UNCHANGED receiver
    /\ UNCHANGED faults

Loses(m) ==
    /\ faults.losses < MaxLosses
    /\ net' = BagRemove(net, m)
    /\ Counting("losses", 1)
    /\ out' = <<>>
    /\ UNCHANGED <<receiver, sender>>

Duplicates(m) ==
    /\ Calm => m.type # "signal"
    /\ faults.duplicates < MaxDuplicates
    /\ net' = BagAdd(net, m)
    /\ Counting("duplicates", 1)
    /\ out' = <<>>
    /\ UNCHANGED <<receiver, sender>>

Arrival == \E m \in BagToSet(net) : Arrives(m)

Next ==
    \/ ReceiverDelivers \/ ReceiverTimesOut \/ ReceiverRestarts
    \/ SenderDelivers \/ SenderTimesOut \/ SenderNotifies \/ SenderRestarts
    \/ Arrival
    \/ \E m \in BagToSet(net) : Loses(m) \/ Duplicates(m)

Spec == Init /\ [][Next]_vars

\* Both schedulers go on, timers go off and what is in flight arrives or is lost.
FairSpec ==
    /\ Spec
    /\ WF_vars(ReceiverDelivers) /\ WF_vars(ReceiverTimesOut)
    /\ WF_vars(SenderDelivers) /\ WF_vars(SenderTimesOut)
    /\ WF_vars(Arrival)

-----------------------------------------------------------------------------
(***************************************************************************)
(* Properties.                                                             *)
(***************************************************************************)

TypeOK ==
    /\ ReceiverStateOK /\ SenderStateOK
    /\ out \in Seq(ReceiverOutputs \cup SenderOutputs)
    /\ IsABag(net) /\ BagToSet(net) \subseteq Signals \cup Requests \cup SubPackets
    /\ faults \in Faults

\* The latest step printed the packet of this id, whole.
Displayed(id) ==
    \E k \in 1..Len(out) :
        /\ out[k].type = "printed"
        /\ \A i \in LowBits(NumSubPackets(PacketLen[id])) :
               out[k].text[i] = [body |-> id, idx |-> i, size |-> SubPacketOf(id, i).size]

\* As long as no more datagrams are lost than the receiver may ask again, and it times out
\* only when nothing is on its way, a reception ends with the packet displayed whole, unless
\* the receiver restarts in it.
DeliversDespiteLosses ==
    \A id \in PacketIds :
        rProc.running /\ rx.id = id ~>
            \/ Displayed(id)
            \/ faults.losses > MaxRetransmissionRequests
            \/ faults.receiverRestarts > 0

\* Whichever node restarts, and whatever of the traffic from before is still on its way, every
\* transmission and every reception ends; unless the sender is for ever asked for sub-packets it
\* does not have, as after a restart with no packet registered since: then next_sub_packet_send
\* goes on sending the empty one, and each sets the receiver's timer anew.
NodesComeToRest ==
    []<>(tx.mask \subseteq LowBits(tx.num)) =>
        (sending ~> ~sending) /\ (rProc.running ~> ~rProc.running)

\* A reception that has received every sub-packet is over.
EndsWhenAllReceived == rProc.running => rx.mask # LowBits(rx.num)

\* Where the latest packet is on its way to the screen.
Phase ==
    CASE \/ \E m \in BagToSet(net) : m.type = "signal"
         \/ Contains(rQueue, "signaled")  -> "offered"
      [] rProc.running                    -> "receiving"
      [] Contains(rQueue, "received")     -> "received"
      [] OTHER                            -> "idle"

Prints == \E k \in 1..Len(out) : out[k].type = "printed"

Damaged == MaxPacketId + 1

Service == INSTANCE PacketService WITH
    Packets    <- PacketIds,
    None       <- NoBody,
    MaxRetries <- MaxRetransmissionRequests,
    Careful    <- Prompt /\ Patient,
    phase      <- Phase,
    current    <- IF Phase = "idle" THEN NoBody ELSE packetId,
    losses     <- faults.losses,
    restarts   <- faults.receiverRestarts,
    shown      <- IF ~Prints THEN NoBody
                  ELSE IF \E id \in SentPackets : Displayed(id)
                  THEN CHOOSE id \in SentPackets : Displayed(id)
                  ELSE Damaged

\* The two nodes implement the abstract service: a packet whose signal is lost is missed and
\* the next one is not harmed by it; a packet received is displayed whole, and once, as the one
\* the sender signaled; and with prompt nodes and a patient time-out a reception is given up
\* only after more losses than re-requests.
KeepsService == Service!Spec
=============================================================================
