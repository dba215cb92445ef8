------------------------------ MODULE SystemProofs ------------------------------
(***************************************************************************)
(* Proofs about the two nodes and the network between them, for every      *)
(* value of the constants.  What either node does in a step is known from  *)
(* the lemmas of ReceiverProofs and SenderProofs, which hold whatever      *)
(* messages come: what is left to prove is what the messages are.          *)
(***************************************************************************)
EXTENDS ReceiverProofs, SenderProofs, LargePacketSystem

-----------------------------------------------------------------------------
(***************************************************************************)
(* The network: what a step puts into the bag of datagrams, and takes out. *)
(***************************************************************************)

\* A datagram more.
LEMMA BagAddType ==
    ASSUME NEW bag, IsABag(bag), NEW m
    PROVE  /\ IsABag(BagAdd(bag, m)) /\ DOMAIN BagAdd(bag, m) = DOMAIN bag \cup {m}
           /\ \A x \in DOMAIN bag \ {m} : BagAdd(bag, m)[x] = bag[x]
BY DEF IsABag, BagAdd

\* A datagram less.
LEMMA BagRemoveType ==
    ASSUME NEW bag, IsABag(bag), NEW m
    PROVE  /\ IsABag(BagRemove(bag, m)) /\ DOMAIN BagRemove(bag, m) \subseteq DOMAIN bag
           /\ \A x \in DOMAIN BagRemove(bag, m) \ {m} : BagRemove(bag, m)[x] = bag[x]
           /\ m \in DOMAIN bag /\ bag[m] = 1 => m \notin DOMAIN BagRemove(bag, m)
BY DEF IsABag, BagRemove

\* What a step sends joins what is in flight, and nothing else does.
LEMMA SendingType ==
    ASSUME IsABag(net), NEW X, out' \in Seq(X), Sending(net)
    PROVE  /\ IsABag(net') /\ DOMAIN net' = DOMAIN net \cup Datagrams(out')
           /\ \A m \in DOMAIN net \ Datagrams(out') : net'[m] = net[m]
           /\ \A m \in Datagrams(out') \ DOMAIN net : net'[m] = Copies(m, out')
<1> DEFINE sent == [m \in Datagrams(out') |-> Copies(m, out')]
<1>1. net' = net (+) sent
    BY DEF Sending
<1>2. DOMAIN sent = Datagrams(out') /\ \A m \in DOMAIN sent : sent[m] \in Nat /\ sent[m] > 0
    BY CopiesType
<1>3. \A m \in DOMAIN net : net[m] \in Nat /\ net[m] > 0
    BY DEF IsABag
<1> HIDE DEF sent
<1> DEFINE number(m) ==
        (IF m \in DOMAIN net THEN net[m] ELSE 0) + (IF m \in DOMAIN sent THEN sent[m] ELSE 0)
<1>4. net' = [m \in DOMAIN net \cup DOMAIN sent |-> number(m)]
    BY <1>1 DEF (+)
<1>5. \A m \in DOMAIN net \cup DOMAIN sent : number(m) \in { n \in Nat : n > 0 }
    BY <1>2, <1>3
<1>6. /\ \A m \in DOMAIN net \ DOMAIN sent : number(m) = net[m]
      /\ \A m \in DOMAIN sent \ DOMAIN net : number(m) = sent[m]
    BY <1>2, <1>3
<1> HIDE DEF number
<1>7. IsABag(net') /\ DOMAIN net' = DOMAIN net \cup DOMAIN sent
    BY <1>4, <1>5 DEF IsABag
<1>8. /\ \A m \in DOMAIN net \ DOMAIN sent : net'[m] = net[m]
      /\ \A m \in DOMAIN sent \ DOMAIN net : net'[m] = sent[m]
    BY <1>4, <1>6
<1>9. \A m \in DOMAIN sent : sent[m] = Copies(m, out')
    BY DEF sent
<1>10. QED
    BY <1>2, <1>7, <1>8, <1>9

-----------------------------------------------------------------------------
(***************************************************************************)
(* Type correctness.                                                       *)
(***************************************************************************)

Messages == Signals \cup Requests \cup SubPackets

\* Each message goes to the handler of its kind.
LEMMA KindOfMessage ==
    ASSUME NEW m \in Messages
    PROVE  /\ m.type = "signal" => m \in Signals
           /\ m.type = "request" => m \in Requests
           /\ m.type = "subpacket" => m \in SubPackets
BY DEF Messages, Signals, Requests, SubPackets

\* A step of the system is a step of one node, on a message in flight if on any, or of the
\* network alone.
LEMMA StepOfOne ==
    ASSUME TypeOK, Next
    PROVE  \/ /\ ReceiverStep(Signals \cap BagToSet(net), SubPackets \cap BagToSet(net))
              /\ UNCHANGED sender
           \/ SenderDelivers \/ SenderTimesOut \/ SenderNotifies \/ SenderRestarts
           \/ \E m \in Requests \cap BagToSet(net) : HandleRequest(m) /\ UNCHANGED receiver
           \/ out' = <<>> /\ UNCHANGED <<receiver, sender>>
<1>1. CASE ReceiverDelivers \/ ReceiverTimesOut \/ ReceiverRestarts
    BY <1>1 DEF ReceiverDelivers, ReceiverTimesOut, ReceiverRestarts, ReceiverStep
<1>2. CASE Arrival
    <2>1. PICK m \in BagToSet(net) : Arrives(m)
        BY <1>2 DEF Arrival
    <2>2. m \in Messages
        BY DEF TypeOK, Messages
    <2>3. QED
        BY <2>1, <2>2, KindOfMessage DEF Arrives, ReceiverStep
<1>3. CASE \E m \in BagToSet(net) : Loses(m) \/ Duplicates(m)
    BY <1>3 DEF Loses, Duplicates
<1>4. QED
    BY <1>1, <1>2, <1>3 DEF Next

\* Some messages of a set are messages of it.
LEMMA StepOfMore ==
    ASSUME NEW A, NEW B, NEW C, NEW D, A \subseteq C, B \subseteq D, ReceiverStep(A, B)
    PROVE  ReceiverStep(C, D)
BY DEF ReceiverStep

\* Whatever messages there are, the step is one the lemmas about the receiver are about.
LEMMA StepOfAny ==
    ASSUME TypeOK, Next
    PROVE  \/ ReceiverStep(Signals, SubPackets) /\ UNCHANGED sender
           \/ SenderStep /\ UNCHANGED receiver
           \/ out' = <<>> /\ UNCHANGED <<receiver, sender>>
<1>1. Signals \cap BagToSet(net) \subseteq Signals /\ SubPackets \cap BagToSet(net) \subseteq SubPackets
    OBVIOUS
<1>2. QED
    BY <1>1, StepOfOne, StepOfMore
    DEF SenderDelivers, SenderTimesOut, SenderNotifies, SenderRestarts, SenderStep

\* What a step of either node sends or prints.
LEMMA OutputType ==
    ASSUME ReceiverTypeOK' \/ SenderTypeOK' \/ out' = <<>>
    PROVE  out' \in Seq(ReceiverOutputs \cup SenderOutputs) /\ Datagrams(out') \subseteq Messages
<1>1. out' \in Seq(ReceiverOutputs \cup SenderOutputs)
    <2>1. ASSUME NEW A, NEW B, NEW s \in Seq(A)
          PROVE  s \in Seq(A \cup B) /\ s \in Seq(B \cup A)
        BY <2>1
    <2>2. CASE out' \in Seq(ReceiverOutputs) \/ out' \in Seq(SenderOutputs)
        BY <2>1, <2>2
    <2>3. CASE out' = <<>>
        BY <2>3
    <2>4. QED
        BY <2>2, <2>3, Zenon DEF ReceiverTypeOK, SenderTypeOK
<1>2. \A m \in ReceiverOutputs \cup SenderOutputs : m.type # "printed" => m \in Messages
    BY DEF ReceiverOutputs, SenderOutputs, Messages
<1>3. QED
    BY <1>1, <1>2 DEF Datagrams

\* The datagrams in flight after a step were in flight before it, or are sent in it.
LEMMA InFlightAfter ==
    ASSUME TypeOK, Next, out' \in Seq(ReceiverOutputs \cup SenderOutputs)
    PROVE  IsABag(net') /\ BagToSet(net') \subseteq BagToSet(net) \cup Datagrams(out')
<1>1. IsABag(net)
    BY DEF TypeOK
<1>2. CASE Sending(net)
    BY <1>1, <1>2, SendingType DEF BagToSet
<1>3. CASE UNCHANGED net
    BY <1>1, <1>3 DEF BagToSet
<1>4. ASSUME NEW m, net' = BagRemove(net, m)
      PROVE  IsABag(net') /\ BagToSet(net') \subseteq BagToSet(net)
    BY <1>1, <1>4, BagRemoveType DEF BagToSet
<1>5. ASSUME NEW m \in BagToSet(net), net' = BagAdd(net, m)
      PROVE  IsABag(net') /\ BagToSet(net') \subseteq BagToSet(net)
    BY <1>1, <1>5, BagAddType DEF BagToSet
<1>6. QED
    BY <1>2, <1>3, <1>4, <1>5
    DEF Next, ReceiverDelivers, ReceiverTimesOut, ReceiverRestarts, SenderDelivers, SenderTimesOut,
        SenderNotifies, SenderRestarts, Arrival, Arrives, Loses, Duplicates

\* Each bounded thing is counted up to its bound.
LEMMA FaultsType ==
    ASSUME TypeOK, Next
    PROVE  faults' \in Faults
<1>1. faults \in Faults
    BY DEF TypeOK
<1>2. /\ MaxSignals \in Nat /\ MaxLosses \in Nat /\ MaxDuplicates \in Nat
      /\ MaxSenderRestarts \in Nat /\ MaxReceiverRestarts \in Nat
    BY SystemAssumption
<1>3. CASE UNCHANGED faults
    BY <1>1, <1>3
<1>4. CASE ReceiverRestarts
    BY <1>1, <1>2, <1>4 DEF ReceiverRestarts, Counting, Faults
<1>5. CASE SenderDelivers
    <2>1. faults' = [faults EXCEPT !.losses = @ + Refusal] /\ faults'.losses <= MaxLosses
        BY <1>5 DEF SenderDelivers, Counting
    <2>2. Refusal \in Nat
        BY DEF Refusal
    <2>3. QED
        BY <1>1, <1>2, <2>1, <2>2 DEF Faults
<1>6. CASE SenderNotifies
    <2>1. \/ UNCHANGED faults
          \/ faults' = [faults EXCEPT !.signals = @ + 1, !.losses = 0, !.receiverRestarts = 0]
        BY <1>6 DEF SenderNotifies
    <2>2. faults'.signals <= MaxSignals
        BY <1>6 DEF SenderNotifies
    <2>3. CASE UNCHANGED faults
        BY <1>1, <2>3
    <2>4. CASE faults' = [faults EXCEPT !.signals = @ + 1, !.losses = 0, !.receiverRestarts = 0]
        <3>1. faults.signals + 1 <= MaxSignals
            BY <1>1, <2>2, <2>4 DEF Faults
        <3>2. [faults EXCEPT !.signals = @ + 1] \in Faults
            BY <1>1, <1>2, <3>1 DEF Faults
        <3>3. \A f \in Faults : [f EXCEPT !.losses = 0] \in Faults
            BY <1>2 DEF Faults
        <3>4. \A f \in Faults : [f EXCEPT !.receiverRestarts = 0] \in Faults
            BY <1>2 DEF Faults
        <3>5. QED
            BY <2>4, <3>2, <3>3, <3>4, Zenon
    <2>5. QED
        BY <2>1, <2>3, <2>4
<1>7. CASE SenderRestarts
    BY <1>1, <1>2, <1>7 DEF SenderRestarts, Counting, Faults
<1>8. CASE \E m \in BagToSet(net) : Loses(m) \/ Duplicates(m)
    BY <1>1, <1>2, <1>8 DEF Loses, Duplicates, Counting, Faults
<1>9. QED
    BY <1>3, <1>4, <1>5, <1>6, <1>7, <1>8
    DEF Next, ReceiverDelivers, ReceiverTimesOut, SenderTimesOut, Arrival, Arrives

\* A node that takes no part in a step keeps its types.
LEMMA IdleKeepsType ==
    /\ ReceiverStateOK /\ UNCHANGED receiver => ReceiverStateOK'
    /\ SenderStateOK /\ UNCHANGED sender => SenderStateOK'
BY DEF ReceiverStateOK, receiver, SenderStateOK, sender

LEMMA SystemTypeStep ==
    ASSUME TypeOK, Next
    PROVE  TypeOK'
<1>1. ReceiverStateOK /\ SenderStateOK
    BY DEF TypeOK
<1>2. /\ ReceiverStateOK' /\ SenderStateOK'
      /\ ReceiverTypeOK' \/ SenderTypeOK' \/ out' = <<>>
    <2>1. CASE ReceiverStep(Signals, SubPackets) /\ UNCHANGED sender
        BY <1>1, <2>1, ReceiverTypeStep, IdleKeepsType DEF ReceiverTypeOK
    <2>2. CASE SenderStep /\ UNCHANGED receiver
        BY <1>1, <2>2, SenderTypeStep, IdleKeepsType DEF SenderTypeOK
    <2>3. CASE out' = <<>> /\ UNCHANGED <<receiver, sender>>
        BY <1>1, <2>3, IdleKeepsType
    <2>4. QED
        BY <2>1, <2>2, <2>3, StepOfAny
<1>3. out' \in Seq(ReceiverOutputs \cup SenderOutputs) /\ Datagrams(out') \subseteq Messages
    BY <1>2, OutputType
<1>4. IsABag(net') /\ BagToSet(net') \subseteq Messages
    BY <1>3, InFlightAfter DEF TypeOK, Messages
<1>5. QED
    BY <1>2, <1>3, <1>4, FaultsType DEF TypeOK, Messages

\* The initial values have their types.
LEMMA SystemTypeInit == Init => TypeOK
<1> SUFFICES ASSUME Init PROVE TypeOK
    OBVIOUS
<1>1. ReceiverStateOK /\ SenderStateOK /\ out = <<>>
    BY ReceiverTypeInit, SenderTypeInit DEF Init, ReceiverTypeOK, SenderTypeOK, ReceiverInit
<1>2. IsABag(net) /\ BagToSet(net) = {}
    BY DEF Init, EmptyBag, SetToBag, IsABag, BagToSet
<1>3. faults \in Faults
    BY SystemAssumption DEF Init, Faults
<1>4. QED
    BY <1>1, <1>2, <1>3 DEF TypeOK

\* Whatever is lost, duplicated or reordered and whichever node restarts, the variables of both
\* nodes keep their types, and only messages the nodes can read are in flight.
THEOREM TypeCorrect == Spec => []TypeOK
<1>1. TypeOK /\ [Next]_vars => TypeOK'
    <2>1. CASE Next
        BY <2>1, SystemTypeStep
    <2>2. CASE UNCHANGED vars
        BY <2>2, IdleKeepsType DEF vars, TypeOK
    <2>3. QED
        BY <2>1, <2>2
<1>2. QED
    BY <1>1, SystemTypeInit, PTL DEF Spec

-----------------------------------------------------------------------------
(***************************************************************************)
(* Neither node hangs.                                                     *)
(***************************************************************************)

\* No order of datagrams, losses and restarts leaves a running receive process without a timer
\* that will wake it.
THEOREM NodesWakeUp == Spec => []NoLostWakeup
<1>1. Init => NoLostWakeup
    BY DEF Init, ReceiverInit, NoLostWakeup
<1>2. TypeOK /\ NoLostWakeup /\ [Next]_vars => NoLostWakeup'
    <2>1. ASSUME NoLostWakeup, UNCHANGED receiver
          PROVE  NoLostWakeup'
        BY <2>1 DEF NoLostWakeup, receiver
    <2>2. CASE TypeOK /\ Next
        BY <2>1, <2>2, StepOfAny, WakeupStep DEF TypeOK
    <2>3. CASE UNCHANGED vars
        BY <2>1, <2>3 DEF vars
    <2>4. QED
        BY <2>2, <2>3
<1>3. QED
    BY <1>1, <1>2, TypeCorrect, PTL DEF Spec

LEMMA SendingSystemInit == Init => SendingInv
<1> SUFFICES ASSUME Init PROVE SendingInv
    OBVIOUS
<1>1. sending = FALSE /\ sProc.running = FALSE /\ sTimer = "off" /\ tx.mask = {}
    BY Zenon DEF Init, SenderInit
<1>2. QED
    BY <1>1 DEF SendingInv, NoStuckSending, IdleMeansDone, IdleIsTimerless

LEMMA SendingSystemStep ==
    ASSUME TypeOK, SendingInv, Next
    PROVE  SendingInv'
<1>1. CASE UNCHANGED sender
    BY <1>1 DEF SendingInv, NoStuckSending, IdleMeansDone, IdleIsTimerless, sender
<1>2. QED
    BY <1>1, StepOfAny, SendingStep DEF TypeOK

LEMMA SendingHolds == Spec => []SendingInv
<1>1. TypeOK /\ SendingInv /\ [Next]_vars => SendingInv'
    <2>1. CASE Next
        BY <2>1, SendingSystemStep
    <2>2. CASE UNCHANGED vars
        BY <2>2 DEF SendingInv, NoStuckSending, IdleMeansDone, IdleIsTimerless, sender, vars
    <2>3. QED
        BY <2>1, <2>2
<1>2. QED
    BY <1>1, SendingSystemInit, TypeCorrect, PTL DEF Spec

\* Whatever requests come and whenever the node restarts, large_packet_currently_sending is up
\* only while the send process runs, with a timer that will wake it.
THEOREM NodesNeverStick == Spec => []NoStuckSending
<1>1. SendingInv => NoStuckSending
    BY DEF SendingInv
<1>2. QED
    BY <1>1, SendingHolds, PTL

-----------------------------------------------------------------------------
(***************************************************************************)
(* One packet at a time.  When a packet is signaled only after all traffic *)
(* for the one before has ended, and the sender does not restart, whatever *)
(* is on its way belongs to the packet registered last.  This is what both *)
(* nodes take for granted and neither checks.                              *)
(***************************************************************************)

OnePacketAtATime == Calm /\ MaxSenderRestarts = 0

\* The packet of the id the application has reached is the one registered.
Registered ==
    /\ Registrable(PacketLen[packetId])
    /\ tx.body = packetId
    /\ tx.len = PacketLen[packetId]
    /\ tx.num = NumSubPackets(PacketLen[packetId])

\* A message about the packet of an id, as the nodes make them.
Belongs(m, id) ==
    /\ m.id = id
    /\ m.type = "signal" => m = SignalOf(id)
    /\ m.type = "request" => m.mask \subseteq LowBits(NumSubPackets(PacketLen[id]))
    /\ m.type = "subpacket" => /\ m = SubPacketOf(id, m.idx)
                               /\ m.idx \in LowBits(NumSubPackets(PacketLen[id]))

Current(m) == Registered /\ Belongs(m, packetId)

ReceiverCurrent ==
    /\ Waiting("signaled") => Current(sigData)
    /\ Waiting("subpacket") => Current(subData)
    /\ rProc.running => Registered /\ rx.id = packetId

SenderCurrent ==
    /\ RequestWaits => Current(reqData)
    /\ sending => Registered /\ tx.id = packetId /\ tx.mask \subseteq LowBits(tx.num)

NetCurrent == \A m \in BagToSet(net) : Current(m)

\* The invariant the theorems about the two nodes rest on.
SystemInv ==
    /\ TypeOK /\ SendingInv /\ Coherent /\ MarkedIsStored
    /\ ReceiverCurrent /\ SenderCurrent /\ NetCurrent

CurrentSignals    == { m \in Signals : Current(m) }
CurrentSubPackets == { m \in SubPackets : Current(m) }

\* What belongs to the registered packet is a message of a registered packet.
LEMMA CurrentIsTrue ==
    ASSUME SenderStateOK
    PROVE  CurrentSignals \subseteq TrueSignals /\ CurrentSubPackets \subseteq TrueSubPackets
<1>1. ASSUME NEW m \in CurrentSignals
      PROVE  m \in TrueSignals
    <2>1. m \in Signals /\ m.type = "signal" /\ Registered /\ m.id = packetId /\ m = SignalOf(packetId)
        BY DEF CurrentSignals, Current, Belongs, Signals
    <2>2. PacketLen[packetId] \in Nat /\ PacketLen[packetId] # 0
        BY <2>1, PacketAssumption DEF Registered, Registrable, SenderStateOK
    <2>3. m.num > 0
        BY <2>1, <2>2, NumSubPacketsType DEF SignalOf, Signal
    <2>4. QED
        BY <2>1, <2>3 DEF TrueSignals
<1>2. ASSUME NEW m \in CurrentSubPackets
      PROVE  m \in TrueSubPackets
    <2>1. /\ m \in SubPackets /\ m.id = packetId /\ m = SubPacketOf(packetId, m.idx)
          /\ m.idx \in LowBits(NumSubPackets(PacketLen[packetId]))
        BY DEF CurrentSubPackets, Current, Belongs, SubPackets
    <2>2. m.num = NumSubPackets(PacketLen[packetId])
        BY <2>1 DEF SubPacketOf, SubPacket
    <2>3. QED
        BY <2>1, <2>2 DEF TrueSubPackets
<1>3. QED
    BY <1>1, <1>2

\* A step of the system, when all that is on its way belongs to the registered packet.
LEMMA StepOfCurrent ==
    ASSUME SystemInv, Next
    PROVE  \/ ReceiverStep(CurrentSignals, CurrentSubPackets) /\ UNCHANGED sender
           \/ SenderDelivers \/ SenderTimesOut \/ SenderNotifies \/ SenderRestarts
           \/ \E m \in Requests \cap BagToSet(net) : HandleRequest(m) /\ UNCHANGED receiver
           \/ out' = <<>> /\ UNCHANGED <<receiver, sender>>
<1>1. /\ Signals \cap BagToSet(net) \subseteq CurrentSignals
      /\ SubPackets \cap BagToSet(net) \subseteq CurrentSubPackets
    BY DEF SystemInv, NetCurrent, CurrentSignals, CurrentSubPackets
<1>2. QED
    BY <1>1, StepOfOne, StepOfMore DEF SystemInv

\* The registered packet, and so what belongs to it, is the same after a step that keeps it.
LEMMA CurrentKept ==
    ASSUME tx'.num = tx.num, tx'.len = tx.len, tx'.body = tx.body, UNCHANGED packetId
    PROVE  (Registered' <=> Registered) /\ \A m : Current(m)' <=> Current(m)
BY DEF Registered, Current

-----------------------------------------------------------------------------
(***************************************************************************)
(* The receiver's part.                                                    *)
(***************************************************************************)

\* What waits after a delivery waited before, but for the announcement of a packet.
LEMMA DeliveryWaits ==
    ASSUME ReceiverStateOK, DeliverToReceiver, NEW d, Waiting(d)'
    PROVE  d = "received" \/ Waiting(d)
<1>1. rQueue # <<>>
    BY DEF DeliverToReceiver, DeliverTimeout, DeliverSubPacket, DeliverSignaled, DeliverReceived, NextEvent
<1>2. CASE rQueue' = Tail(rQueue)
    BY <1>1, <1>2, TailWaits
<1>3. CASE rQueue' = Post(Tail(rQueue), "received")
    <2>1. PICK k \in 1..Len(rQueue') : rQueue'[k] = d
        BY DEF Waiting
    <2>2. d = "received" \/ (k + 1 \in 1..Len(rQueue) /\ rQueue[k + 1] = d)
        BY <1>1, <1>3, <2>1 DEF Post, ReceiverStateOK
    <2>3. QED
        BY <2>2 DEF Waiting
<1>4. QED
    BY <1>2, <1>3 DEF DeliverToReceiver, DeliverTimeout, DeliverSubPacket, DiscardSubPacket,
        LeaveOnForeignId, TakeSubPacket, DeliverSignaled, DeliverReceived

\* A process that runs after a delivery ran before, for the same packet, or is started for the
\* signal.
LEMMA DeliveryRuns ==
    ASSUME ReceiverStateOK, DeliverToReceiver, rProc'.running
    PROVE  \/ rProc.running /\ rx'.id = rx.id
           \/ NextEvent("signaled") /\ rx'.id = sigData.id
<1>1. CASE CheckTimeout /\ UNCHANGED rx
    BY <1>1, CheckTimeoutStops
<1>2. CASE DeliverSubPacket
    BY <1>1, <1>2 DEF DeliverSubPacket, DiscardSubPacket, LeaveOnForeignId, TakeSubPacket, ReceiverStateOK
<1>3. CASE NextEvent("signaled") /\ StartReception
    BY <1>3 DEF StartReception
<1>4. QED
    BY <1>1, <1>2, <1>3
    DEF DeliverToReceiver, DeliverTimeout, DeliverSignaled, RefuseSignal, DeliverReceived

\* What the receiver has waiting and receives still belongs to the registered packet.
LEMMA ReceiverCurrentStep ==
    ASSUME SystemInv, ReceiverStep(CurrentSignals, CurrentSubPackets), UNCHANGED sender
    PROVE  ReceiverCurrent'
<1>1. ReceiverStateOK /\ ReceiverCurrent /\ UNCHANGED <<tx, packetId>>
    BY DEF SystemInv, TypeOK, sender
<1>2. (Registered' <=> Registered) /\ \A m : Current(m)' <=> Current(m)
    BY <1>1, CurrentKept
<1>3. ASSUME NEW m \in CurrentSignals, HandleSignal(m)
      PROVE  ReceiverCurrent'
    <2>1. Waiting("subpacket")' => Waiting("subpacket")
        BY <1>1, <1>3, PostWaits DEF HandleSignal, ReceiverEvents
    <2>2. Current(m) /\ sigData' = m /\ UNCHANGED <<subData, rx, rProc>>
        BY <1>3 DEF HandleSignal, CurrentSignals
    <2>3. QED
        BY <1>1, <1>2, <2>1, <2>2 DEF ReceiverCurrent, Current, Registered
<1>4. ASSUME NEW m \in CurrentSubPackets, HandleSubPacket(m)
      PROVE  ReceiverCurrent'
    <2>1. Waiting("signaled")' => Waiting("signaled")
        BY <1>1, <1>4, PostWaits DEF HandleSubPacket, ReceiverEvents
    <2>2. Current(m) /\ subData' = m /\ UNCHANGED <<sigData, rx, rProc>>
        BY <1>4 DEF HandleSubPacket, CurrentSubPackets
    <2>3. QED
        BY <1>1, <1>2, <2>1, <2>2 DEF ReceiverCurrent, Current, Registered
<1>5. CASE ReceiverTimerExpires
    <2>1. rQueue' = Post(rQueue, "timer") /\ UNCHANGED <<sigData, subData, rx, rProc>>
        BY <1>5 DEF ReceiverTimerExpires, Post
    <2>2. \A d : Waiting(d)' => Waiting(d) \/ d = "timer"
        BY <1>1, <2>1, PostWaits DEF ReceiverEvents
    <2>3. QED
        BY <1>1, <1>2, <2>1, <2>2 DEF ReceiverCurrent, Current, Registered
<1>6. CASE DeliverToReceiver
    <2>1. UNCHANGED <<sigData, subData>>
        BY <1>6 DEF DeliverToReceiver, DeliverTimeout, DeliverSubPacket, DeliverSignaled, DeliverReceived
    <2>2. \A d : Waiting(d)' => Waiting(d) \/ d = "received"
        BY <1>1, <1>6, DeliveryWaits
    <2>3. rProc'.running => Registered /\ rx'.id = packetId
        BY <1>1, <1>6, DeliveryRuns, HeadWaits DEF ReceiverCurrent, Current, Belongs
    <2>4. QED
        BY <1>1, <1>2, <2>1, <2>2, <2>3 DEF ReceiverCurrent, Current, Registered
<1>7. CASE ReceiverReset
    BY <1>7 DEF ReceiverReset, ReceiverCurrent, Waiting
<1>8. QED
    BY <1>3, <1>4, <1>5, <1>6, <1>7 DEF ReceiverStep

\* What the receiver asks for are sub-packets of the registered packet.
LEMMA ReceiverSendsCurrent ==
    ASSUME SystemInv, ReceiverStep(Signals, SubPackets), NEW m \in Datagrams(out')
    PROVE  Current(m)
<1>1. ReceiverStateOK /\ ReceiverCurrent /\ Coherent
    BY DEF SystemInv, TypeOK
<1>2. PICK k \in 1..Len(out') : m = out'[k] /\ out'[k].type # "printed"
    BY DEF Datagrams
<1>3. ASSUME NEW id, NEW mask, m = Request(id, mask), Registered, id = packetId,
             mask \subseteq LowBits(NumSubPackets(PacketLen[id]))
      PROVE  Current(m)
    BY <1>3 DEF Request, Current, Belongs
<1>4. CASE k \in 1..Len(TimeoutRequest) /\ out'[k] = TimeoutRequest[k]
    <2>1. TimedOut /\ TimeoutRequest = <<Request(rx.id, MissingMask(rx.mask, rx.num))>>
        BY <1>4 DEF TimeoutRequest
    <2>2. m = Request(rx.id, MissingMask(rx.mask, rx.num))
        BY <1>2, <1>4, <2>1
    <2>3. Registered /\ rx.id = packetId /\ rx.num = NumSubPackets(PacketLen[rx.id])
        BY <1>1, <2>1 DEF TimedOut, ReceiverCurrent, Coherent
    <2>4. MissingMask(rx.mask, rx.num) \subseteq LowBits(rx.num)
        BY DEF MissingMask
    <2>5. QED
        BY <1>3, <2>2, <2>3, <2>4
<1>5. CASE NextEvent("signaled") /\ out'[k] = Request(sigData.id, LowBits(sigData.num))
    <2>1. Current(sigData) /\ sigData = SignalOf(sigData.id)
        BY <1>1, <1>5, HeadWaits DEF ReceiverCurrent, Coherent
    <2>2. Registered /\ sigData.id = packetId
        BY <2>1 DEF Current, Belongs
    <2>3. sigData.num = NumSubPackets(PacketLen[sigData.id])
        BY <2>1 DEF SignalOf, Signal
    <2>4. QED
        BY <1>2, <1>3, <1>5, <2>2, <2>3
<1>6. QED
    BY <1>1, <1>2, <1>4, <1>5, RequestSource

-----------------------------------------------------------------------------
(***************************************************************************)
(* The sender's part.                                                      *)
(***************************************************************************)

\* What a delivery leaves to send is of the registered packet.
LEMMA SenderCurrentDelivery ==
    ASSUME SystemInv, DeliverToSender
    PROVE  SenderCurrent' /\ \A m : Current(m)' <=> Current(m)
<1>1. SenderStateOK /\ SenderCurrent /\ NoStuckSending
    BY DEF SystemInv, TypeOK, SendingInv
<1>2. /\ tx'.num = tx.num /\ tx'.len = tx.len /\ tx'.body = tx.body
      /\ RequestWaits' => RequestWaits
      /\ UNCHANGED <<reqData, packetId>>
      /\ \/ tx'.id = tx.id /\ tx'.mask \subseteq tx.mask /\ (sending' => sending \/ Wakes)
         \/ RequestWaits /\ tx'.id = reqData.id /\ tx'.mask \subseteq reqData.mask
    BY <1>1, DeliveryKeepsPacket
<1>3. (Registered' <=> Registered) /\ \A m : Current(m)' <=> Current(m)
    BY <1>2, CurrentKept
<1>4. RequestWaits => Registered /\ reqData.id = packetId /\ reqData.mask \subseteq LowBits(tx.num)
    <2>1. RequestWaits => Current(reqData) /\ reqData.type = "request"
        BY <1>1 DEF SenderCurrent, SenderStateOK, Requests
    <2>2. QED
        BY <2>1 DEF Current, Registered, Belongs
<1>5. Wakes => sending
    BY <1>1 DEF Wakes, NoStuckSending
<1>6. sending' => Registered /\ tx'.id = packetId /\ tx'.mask \subseteq LowBits(tx.num)
    BY <1>1, <1>2, <1>4, <1>5 DEF SenderCurrent
<1>7. RequestWaits' => Current(reqData)' 
    BY <1>1, <1>2, <1>3 DEF SenderCurrent, Current, Registered
<1>8. QED
    BY <1>2, <1>3, <1>6, <1>7 DEF SenderCurrent

\* A frame of the registered packet is one of its sub-packets.
LEMMA FrameOfPacket ==
    ASSUME NEW t \in TxType, t.mask # {}, t.mask \subseteq LowBits(t.num), NEW id,
           t.id = id, t.body = id, t.len = PacketLen[id], t.num = NumSubPackets(PacketLen[id])
    PROVE  LET f == NextFrame(t) IN f = SubPacketOf(id, f.idx) /\ f.idx \in t.mask
BY FrameOfMask DEF SubPacketOf

\* What the sender sends, in a delivery, are sub-packets of the registered packet.
LEMMA FramesAreCurrent ==
    ASSUME SystemInv, SenderStep, NEW f \in Frames(out')
    PROVE  Current(f) /\ f.type = "subpacket"
<1>1. SenderStateOK /\ SenderCurrent /\ NoStuckSending
    BY DEF SystemInv, TypeOK, SendingInv
<1>2. f.type = "subpacket"
    BY DEF Frames
<1>3. ASSUME NEW t \in TxType, f = NextFrame(t), t.mask # {}, t.mask \subseteq LowBits(tx.num),
             Registered, t.id = packetId, t.num = tx.num, t.len = tx.len, t.body = tx.body
      PROVE  Current(f)
    <2>1. f = SubPacketOf(packetId, f.idx) /\ f.idx \in LowBits(tx.num)
        BY <1>3, FrameOfPacket DEF Registered
    <2>2. f.id = packetId
        BY <2>1 DEF SubPacketOf, SubPacket
    <2>3. QED
        BY <1>2, <1>3, <2>1, <2>2 DEF Current, Registered, Belongs
<1>4. CASE GoesOn
    <2>1. sending /\ tx.mask # {} /\ f = NextFrame(tx)
        BY <1>1, <1>4, FramesOfOne DEF GoesOn, Wakes, Done, NoStuckSending
    <2>2. tx \in TxType
        BY <1>1 DEF SenderStateOK, TxType
    <2>3. Registered /\ tx.id = packetId /\ tx.mask \subseteq LowBits(tx.num)
        BY <1>1, <2>1 DEF SenderCurrent
    <2>4. QED
        BY <1>2, <1>3, <2>1, <2>2, <2>3
<1>5. CASE StartsWith
    <2>1. RequestWaits /\ reqData.mask # {} /\ f = NextFrame(Requested(tx))
        <3>1. sQueue # <<>> /\ Head(sQueue) = "requested" /\ sQueue \in Seq(SenderEvents)
            BY <1>1, <1>5 DEF StartsWith, SenderStateOK
        <3>2. 1 \in 1..Len(sQueue) /\ sQueue[1] = "requested"
            BY <3>1
        <3>3. QED
            BY <1>5, <3>2, FramesOfOne DEF StartsWith, RequestWaits
    <2>2. Current(reqData) /\ reqData.type = "request"
        BY <1>1, <2>1 DEF SenderCurrent, SenderStateOK, Requests
    <2>3. Registered /\ reqData.id = packetId /\ reqData.mask \subseteq LowBits(tx.num)
        BY <2>2 DEF Current, Registered, Belongs
    <2>4. /\ Requested(tx) \in TxType
          /\ Requested(tx).num = tx.num /\ Requested(tx).len = tx.len /\ Requested(tx).body = tx.body
          /\ Requested(tx).id = reqData.id /\ Requested(tx).mask = reqData.mask
        BY <1>1, RequestedType DEF Requested, SenderStateOK
    <2>5. /\ Requested(tx).mask # {} /\ Requested(tx).mask \subseteq LowBits(tx.num)
          /\ Requested(tx).id = packetId
        BY <2>1, <2>3, <2>4
    <2>6. QED
        BY <1>2, <1>3, <2>1, <2>3, <2>4, <2>5
<1>6. QED
    BY <1>1, <1>2, <1>4, <1>5, FrameSent

\* A delivery sends no signal.
LEMMA DeliverySendsFrames ==
    ASSUME DeliverToSender
    PROVE  Datagrams(out') \subseteq Frames(out')
<1>1. out' = <<>> \/ \E t : out' = <<NextFrame(t)>>
    BY Zenon DEF DeliverToSender, DeliverPeriod, DeliverRequested, Resume, StartSending, TakeOverSending,
        TakeOverAfterFrame, SendFrame, FinishSending
<1>2. CASE out' = <<>>
    BY <1>2 DEF Datagrams
<1>3. ASSUME NEW t, out' = <<NextFrame(t)>>
      PROVE  Datagrams(out') \subseteq Frames(out')
    <2>1. NextFrame(t).type = "subpacket"
        BY DEF NextFrame, SubPacket
    <2>2. Len(out') = 1 /\ out'[1] = NextFrame(t)
        BY <1>3
    <2>3. QED
        BY <2>1, <2>2 DEF Datagrams, Frames
<1>4. QED
    BY <1>1, <1>2, <1>3

\* The packet signaled is the one registered from now on.
LEMMA RegisterCurrent ==
    ASSUME SenderStateOK, RegisterAndSignal(packetId'), packetId' \in PacketIds,
           NEW m \in Datagrams(out')
    PROVE  Current(m)'
<1>1. Registrable(PacketLen[packetId']) /\ out' = <<SignalOf(packetId')>>
    BY DEF RegisterAndSignal, Datagrams
<1>2. m = SignalOf(packetId')
    BY <1>1 DEF Datagrams
<1>3. m.id = packetId' /\ m.type = "signal"
    BY <1>2 DEF SignalOf, Signal
<1>4. Registered'
    BY <1>1 DEF RegisterAndSignal, Registered, SenderStateOK
<1>5. QED
    BY <1>2, <1>3, <1>4 DEF Current, Belongs

\* Nothing of the packet before is on its way when the next is signaled.
LEMMA NotifyCurrent ==
    ASSUME SystemInv, OnePacketAtATime, SenderNotifies
    PROVE  ReceiverCurrent' /\ SenderCurrent' /\ \A m \in Datagrams(out') : Current(m)'
<1>1. SenderStateOK /\ Notify /\ UNCHANGED receiver
    BY DEF SystemInv, TypeOK, SenderNotifies
<1>2. rQueue = <<>> /\ sQueue = <<>> /\ ~sending /\ ~rProc.running
    BY DEF OnePacketAtATime, SenderNotifies, NothingOnItsWay
<1>3. UNCHANGED sendVars
    BY <1>1 DEF Notify, NoRoot, RootWithoutRoute, RootWithRoute, RouteEstablished
<1>4. ReceiverCurrent'
    BY <1>1, <1>2 DEF ReceiverCurrent, Waiting, receiver
<1>5. SenderCurrent'
    BY <1>2, <1>3 DEF SenderCurrent, RequestWaits, sendVars
<1>6. \A m \in Datagrams(out') : Current(m)'
    <2>1. CASE out' = <<>>
        BY <2>1 DEF Datagrams
    <2>2. CASE RegisterAndSignal(packetId') /\ packetId' \in PacketIds
        BY <1>1, <2>2, RegisterCurrent
    <2>3. IdAtLoopTop \in PacketIds /\ packetId \in PacketIds
        BY <1>1, IdType DEF SenderStateOK
    <2>4. QED
        BY <1>1, <2>1, <2>2, <2>3 DEF Notify, NoRoot, RootWithoutRoute, RootWithRoute, RouteEstablished
<1>7. QED
    BY <1>4, <1>5, <1>6

-----------------------------------------------------------------------------
(***************************************************************************)
(* The invariant holds, and what follows from it.                          *)
(***************************************************************************)

\* A step of the network alone, or a turn of the nodes, leaves what is on its way to the
\* registered packet.
LEMMA CurrentStep ==
    ASSUME OnePacketAtATime, SystemInv, Next, TypeOK'
    PROVE  ReceiverCurrent' /\ SenderCurrent' /\ NetCurrent'
<1>1. TypeOK /\ SenderStateOK /\ ReceiverCurrent /\ SenderCurrent /\ NetCurrent
    BY DEF SystemInv, TypeOK
<1>2. BagToSet(net') \subseteq BagToSet(net) \cup Datagrams(out')
    BY <1>1, InFlightAfter DEF TypeOK
<1>3. ASSUME \A m : Current(m) => Current(m)', \A m \in Datagrams(out') : Current(m)'
      PROVE  NetCurrent'
    BY <1>1, <1>2, <1>3 DEF NetCurrent
<1>4. UNCHANGED <<tx, packetId>> =>
          (Registered' <=> Registered) /\ \A m : Current(m)' <=> Current(m)
    BY CurrentKept
<1>5. UNCHANGED receiver /\ UNCHANGED <<tx, packetId>> => ReceiverCurrent'
    BY <1>1, <1>4 DEF ReceiverCurrent, Current, Registered, Waiting, receiver
<1>6. UNCHANGED sender => SenderCurrent' /\ UNCHANGED <<tx, packetId>>
    BY <1>1, <1>4 DEF SenderCurrent, Current, Registered, RequestWaits, sender
<1>7. out' = <<>> => Datagrams(out') = {}
    BY DEF Datagrams
<1>8. CASE ReceiverStep(CurrentSignals, CurrentSubPackets) /\ UNCHANGED sender
    <2>1. CurrentSignals \subseteq Signals /\ CurrentSubPackets \subseteq SubPackets
        BY DEF CurrentSignals, CurrentSubPackets
    <2>2. \A m \in Datagrams(out') : Current(m)
        BY <1>8, <2>1, StepOfMore, ReceiverSendsCurrent
    <2>3. QED
        BY <1>3, <1>4, <1>6, <1>8, <2>2, ReceiverCurrentStep
<1>9. CASE out' = <<>> /\ UNCHANGED <<receiver, sender>>
    BY <1>3, <1>4, <1>5, <1>6, <1>7, <1>9
<1>10. CASE SenderDelivers
    <2>1. DeliverToSender /\ UNCHANGED receiver
        BY <1>10 DEF SenderDelivers
    <2>2. SenderCurrent' /\ \A m : Current(m)' <=> Current(m)
        BY <2>1, SenderCurrentDelivery
    <2>3. \A m \in Datagrams(out') : Current(m)
        BY <2>1, DeliverySendsFrames, FramesAreCurrent DEF SenderStep
    <2>4. /\ tx'.num = tx.num /\ tx'.len = tx.len /\ tx'.body = tx.body /\ UNCHANGED packetId
        BY <1>1, <2>1, DeliveryKeepsPacket
    <2>5. Registered' <=> Registered
        BY <2>4, CurrentKept
    <2>6. ReceiverCurrent'
        BY <1>1, <2>1, <2>2, <2>4, <2>5 DEF ReceiverCurrent, Current, Registered, Waiting, receiver
    <2>7. QED
        BY <1>3, <2>2, <2>3, <2>6
<1>11. CASE SenderTimesOut
    <2>1. /\ UNCHANGED <<receiver, tx, packetId, sending, reqData>>
          /\ sQueue' = Append(sQueue, "timer") /\ out' = <<>>
        BY <1>11 DEF SenderTimesOut, SenderTimerExpires, notifyVars
    <2>2. RequestWaits' => RequestWaits
        BY <1>1, <2>1 DEF RequestWaits, SenderStateOK
    <2>3. SenderCurrent'
        BY <1>1, <1>4, <2>1, <2>2 DEF SenderCurrent, Current, Registered
    <2>4. QED
        BY <1>3, <1>4, <1>5, <1>7, <2>1, <2>3
<1>12. CASE SenderNotifies
    <2>1. ReceiverCurrent' /\ SenderCurrent' /\ \A m \in Datagrams(out') : Current(m)'
        BY <1>12, NotifyCurrent
    <2>2. BagToSet(net) = {}
        BY <1>12 DEF SenderNotifies, OnePacketAtATime, NothingOnItsWay, EmptyBag, SetToBag, BagToSet
    <2>3. NetCurrent'
        BY <1>2, <2>1, <2>2 DEF NetCurrent
    <2>4. QED
        BY <2>1, <2>3
<1>13. CASE \E m \in Requests \cap BagToSet(net) : HandleRequest(m) /\ UNCHANGED receiver
    <2>1. PICK m \in Requests \cap BagToSet(net) : HandleRequest(m) /\ UNCHANGED receiver
        BY <1>13
    <2>2. UNCHANGED <<receiver, tx, packetId, sending>> /\ reqData' = m /\ out' = <<>>
        BY <2>1 DEF HandleRequest, notifyVars
    <2>3. Current(m)'
        BY <1>1, <1>4, <2>1, <2>2 DEF NetCurrent
    <2>4. SenderCurrent'
        BY <1>1, <1>4, <2>2, <2>3 DEF SenderCurrent, Current, Registered
    <2>5. QED
        BY <1>3, <1>4, <1>5, <1>7, <2>2, <2>4
<1>14. ~SenderRestarts
    BY <1>1, SystemAssumption DEF SenderRestarts, OnePacketAtATime, TypeOK, Faults
<1>15. QED
    BY <1>8, <1>9, <1>10, <1>11, <1>12, <1>13, <1>14, StepOfCurrent

LEMMA SystemStep ==
    ASSUME OnePacketAtATime, SystemInv, Next
    PROVE  SystemInv'
<1>1. TypeOK /\ ReceiverStateOK /\ SenderStateOK /\ SendingInv /\ Coherent /\ MarkedIsStored
    BY DEF SystemInv, TypeOK
<1>2. TypeOK'
    BY <1>1, SystemTypeStep
<1>3. SendingInv'
    BY <1>1, SendingSystemStep
<1>4. Coherent' /\ MarkedIsStored'
    <2>1. CASE ReceiverStep(CurrentSignals, CurrentSubPackets)
        <3>1. ReceiverStep(TrueSignals, TrueSubPackets)
            BY <1>1, <2>1, CurrentIsTrue, StepOfMore
        <3>2. QED
            BY <1>1, <3>1, CoherentStep, StoredStep
    <2>2. CASE UNCHANGED receiver
        BY <1>1, <2>2 DEF Coherent, Waiting, MarkedIsStored, receiver
    <2>3. QED
        BY <2>1, <2>2, StepOfCurrent DEF SenderDelivers, SenderTimesOut, SenderNotifies, SenderRestarts
<1>5. QED
    BY <1>2, <1>3, <1>4, CurrentStep DEF SystemInv

\* What is on its way belongs to the packet registered last, however datagrams are lost,
\* duplicated and reordered and whenever the receiver restarts.
LEMMA SystemInvariant ==
    ASSUME OnePacketAtATime
    PROVE  Spec => []SystemInv
<1>1. Init => SystemInv
    <2> SUFFICES ASSUME Init PROVE SystemInv
        OBVIOUS
    <2>1. TypeOK /\ SendingInv
        BY SystemTypeInit, SendingSystemInit
    <2>2. /\ ~Waiting("signaled") /\ ~Waiting("subpacket") /\ ~RequestWaits
          /\ rx = [id |-> 0, num |-> 0, mask |-> {}, len |-> 0] /\ ~rProc.running /\ ~sending
        BY DEF Init, ReceiverInit, SenderInit, Waiting, RequestWaits
    <2>3. BagToSet(net) = {}
        BY DEF Init, EmptyBag, SetToBag, BagToSet
    <2>4. QED
        BY <2>1, <2>2, <2>3
        DEF SystemInv, Coherent, MarkedIsStored, ReceiverCurrent, SenderCurrent, NetCurrent
<1>2. SystemInv /\ [Next]_vars => SystemInv'
    <2>1. CASE Next
        BY <2>1, SystemStep
    <2>2. CASE UNCHANGED vars
        <3>1. SystemInv => SystemInv'
            BY <2>2 DEF vars, receiver, sender, SystemInv, TypeOK, ReceiverStateOK, SenderStateOK,
                SendingInv, NoStuckSending, IdleMeansDone, IdleIsTimerless, Coherent, MarkedIsStored,
                Waiting, ReceiverCurrent, SenderCurrent, RequestWaits, NetCurrent, Current, Registered
        <3>2. QED
            BY <3>1
    <2>3. QED
        BY <2>1, <2>2
<1>3. QED
    BY <1>1, <1>2, PTL DEF Spec

\* A sub-packet marked as received lies at its place with its own bytes, whatever the sender goes
\* through and the network does in the meantime.
THEOREM MarkedHolds ==
    ASSUME OnePacketAtATime
    PROVE  Spec => []MarkedIsStored
<1>1. SystemInv => MarkedIsStored
    BY DEF SystemInv
<1>2. QED
    BY <1>1, SystemInvariant, PTL

\* large_packet_receive_proc never goes on once it has received the whole packet.
THEOREM EndsHolds ==
    ASSUME OnePacketAtATime
    PROVE  Spec => []EndsWhenAllReceived
<1>1. SystemInv => EndsWhenAllReceived
    BY DEF SystemInv, Coherent, EndsWhenAllReceived
<1>2. QED
    BY <1>1, SystemInvariant, PTL

\* Where the receive process stops: with the packet whole, or out of retries, for no sub-packet
\* of another packet comes.
LEMMA LeavesStep ==
    ASSUME SystemInv, ReceiverStep(Signals, SubPackets), rProc.running, ~rProc'.running
    PROVE  ReceiverReset \/ rx'.mask = 0..(rx'.num - 1) \/ rProc.left = 0
<1>1. ReceiverStateOK /\ ReceiverCurrent /\ Coherent
    BY DEF SystemInv, TypeOK
<1>2. CASE CheckTimeout
    BY <1>1, <1>2 DEF CheckTimeout, Rerequest, GiveUp, ReceiverStateOK
<1>3. CASE NextEvent("subpacket") /\ LeaveOnForeignId
    BY <1>1, <1>3, HeadWaits DEF ReceiverCurrent, Current, Belongs, LeaveOnForeignId
<1>4. CASE NextEvent("subpacket") /\ TakeSubPacket
    <2>1. subData.id = rx.id /\ subData = SubPacketOf(subData.id, subData.idx)
        BY <1>1, <1>4, HeadWaits DEF TakeSubPacket, Coherent
    <2>2. subData.num = rx.num /\ FitsMask(rx.num) /\ rx.num \in Nat
        BY <1>1, <2>1 DEF SubPacketOf, SubPacket, Coherent, ReceiverStateOK
    <2>3. rx'.num = rx.num
        BY <1>1, <1>4 DEF TakeSubPacket, ReceiverStateOK
    <2>4. rx'.mask = LowBits(rx.num)
        BY <1>4, <2>2 DEF TakeSubPacket, AllReceived
    <2>5. QED
        BY <2>2, <2>3, <2>4, LowBitsExact
<1>5. CASE StartReception
    BY <1>5 DEF StartReception
<1>6. QED
    BY <1>2, <1>3, <1>4, <1>5
    DEF ReceiverStep, HandleSignal, HandleSubPacket, ReceiverTimerExpires, DeliverToReceiver,
        DeliverTimeout, DeliverSubPacket, DiscardSubPacket, DeliverSignaled, RefuseSignal, DeliverReceived

\* A reception is left only with the packet whole, after its last re-request, or by a restart of
\* the receiver: no late sub-packet of another packet ends it.
THEOREM LeavesHolds ==
    ASSUME OnePacketAtATime
    PROVE  Spec => LeavesOnlyWhenDone
<1>1. SystemInv /\ [Next]_vars =>
          [ rProc.running /\ ~rProc'.running =>
                ReceiverReset \/ rx'.mask = 0..(rx'.num - 1) \/ rProc.left = 0 ]_receiverVars
    <2> SUFFICES ASSUME SystemInv, [Next]_vars, rProc.running, ~rProc'.running
                 PROVE  ReceiverReset \/ rx'.mask = 0..(rx'.num - 1) \/ rProc.left = 0
        OBVIOUS
    <2>1. ~UNCHANGED receiver
        BY DEF receiver
    <2>2. Next
        BY <2>1 DEF vars
    <2>3. ReceiverStep(Signals, SubPackets)
        BY <2>1, <2>2, StepOfAny DEF SystemInv
    <2>4. QED
        BY <2>3, LeavesStep
<1>2. QED
    BY <1>1, SystemInvariant, PTL DEF Spec, LeavesOnlyWhenDone

\* The frames of a step are sent by the sender.
LEMMA FramesComeFromSender ==
    ASSUME TypeOK, Next, Frames(out') # {}
    PROVE  SenderStep
<1>1. CASE ReceiverStep(Signals, SubPackets)
    <2>1. out' \in Seq(ReceiverOutputs)
        BY <1>1, ReceiverTypeStep DEF TypeOK, ReceiverTypeOK
    <2>2. \A m \in ReceiverOutputs : m.type # "subpacket"
        BY DEF ReceiverOutputs, Requests
    <2>3. QED
        BY <2>1, <2>2 DEF Frames
<1>2. CASE out' = <<>>
    BY <1>2 DEF Frames
<1>3. QED
    BY <1>1, <1>2, StepOfAny

\* The bytes sent under an id are those registered under it, though a request's id is copied into
\* large_packet_tx unchecked.
THEOREM SendsHolds ==
    ASSUME OnePacketAtATime
    PROVE  Spec => SendsWhatItNames
<1>1. SystemInv /\ [Next]_vars => [ \A f \in Frames(out') : f.body = f.id ]_senderVars
    <2> SUFFICES ASSUME SystemInv, Next, NEW f \in Frames(out')
                 PROVE  f.body = f.id
        BY DEF vars, senderVars, sender
    <2>1. Current(f) /\ f.type = "subpacket"
        BY FramesComeFromSender, FramesAreCurrent DEF SystemInv
    <2>2. f = SubPacketOf(packetId, f.idx)
        BY <2>1 DEF Current, Belongs
    <2>3. QED
        BY <2>2 DEF SubPacketOf, SubPacket
<1>2. QED
    BY <1>1, SystemInvariant, PTL DEF Spec, SendsWhatItNames

\* Every frame carries the bytes at its place of the packet registered, the last one up to its
\* end, whatever the packets before were cut into.
THEOREM TilesHolds ==
    ASSUME OnePacketAtATime
    PROVE  Spec => FramesTilePacket
<1>1. SystemInv /\ [Next]_vars =>
          [ \A f \in Frames(out') :
                /\ f.num = tx.num
                /\ f.body = tx.body
                /\ f.idx * SubpacketMaxBytes + f.size <= tx.len
                /\ f.size < SubpacketMaxBytes => f.idx * SubpacketMaxBytes + f.size = tx.len
                /\ f.idx = f.num - 1 => f.idx * SubpacketMaxBytes + f.size = tx.len ]_senderVars
    <2> SUFFICES ASSUME SystemInv, Next, NEW f \in Frames(out')
                 PROVE  /\ f.num = tx.num
                        /\ f.body = tx.body
                        /\ f.idx * SubpacketMaxBytes + f.size <= tx.len
                        /\ f.size < SubpacketMaxBytes => f.idx * SubpacketMaxBytes + f.size = tx.len
                        /\ f.idx = f.num - 1 => f.idx * SubpacketMaxBytes + f.size = tx.len
        BY DEF vars, senderVars, sender
    <2>1. Current(f) /\ f.type = "subpacket"
        BY FramesComeFromSender, FramesAreCurrent DEF SystemInv
    <2>2. /\ f = SubPacketOf(packetId, f.idx) /\ f.idx \in LowBits(NumSubPackets(tx.len))
          /\ tx.len = PacketLen[packetId] /\ tx.num = NumSubPackets(tx.len) /\ tx.body = packetId
        BY <2>1 DEF Current, Registered, Belongs
    <2>3. /\ f.num = tx.num /\ f.body = tx.body
          /\ f.size = SubPacketSize(f.idx, NumSubPackets(tx.len), tx.len)
        BY <2>2 DEF SubPacketOf, SubPacket
    <2>4. tx.len \in Nat
        BY DEF SystemInv, TypeOK, SenderStateOK
    <2>5. /\ f.idx * SubpacketMaxBytes + f.size <= tx.len
          /\ f.idx = f.num - 1 => f.idx * SubpacketMaxBytes + f.size = tx.len
          /\ f.idx # f.num - 1 => f.size = SubpacketMaxBytes
        BY <2>2, <2>3, <2>4, SubPacketsTile
    <2>6. f.size < SubpacketMaxBytes => f.idx = f.num - 1
        BY <2>5, SizeAssumption
    <2>7. QED
        BY <2>3, <2>5, <2>6
<1>2. QED
    BY <1>1, SystemInvariant, PTL DEF Spec, FramesTilePacket

\* Each step of the sender sends just the sub-packets whose bits it clears, and no others than
\* the receiver asked for: packets of unequal numbers of sub-packets do no harm one at a time.
THEOREM ServedHolds ==
    ASSUME OnePacketAtATime
    PROVE  Spec => SentIsRequested
<1>1. SystemInv /\ [Next]_vars =>
          [ LET sent == { f.idx : f \in Frames(out') } IN
            IF sQueue # <<>> /\ Head(sQueue) = "requested"
            THEN \/ sent \subseteq tx.mask
                 \/ sent = reqData.mask \ tx'.mask
            ELSE SenderReset \/ sent = tx.mask \ tx'.mask ]_senderVars
    <2> SUFFICES ASSUME SystemInv, Next
                 PROVE  IF sQueue # <<>> /\ Head(sQueue) = "requested"
                        THEN IndicesSent \subseteq tx.mask \/ IndicesSent = reqData.mask \ tx'.mask
                        ELSE SenderReset \/ IndicesSent = tx.mask \ tx'.mask
        BY DEF vars, senderVars, sender, IndicesSent
    <2>1. SenderStateOK /\ SenderCurrent /\ NoStuckSending
        BY DEF SystemInv, TypeOK, SendingInv
    <2>2. SendsWithin
        BY <2>1 DEF SendsWithin, SenderCurrent, Current, Registered, Belongs, SenderStateOK, Requests
    <2>3. CASE SenderStep
        BY <2>1, <2>2, <2>3, RequestedStep
    <2>4. CASE ~SenderStep
        <3>1. IndicesSent = {}
            BY <2>4, FramesComeFromSender DEF SystemInv, IndicesSent
        <3>2. UNCHANGED sender
            BY <2>4, StepOfAny DEF SystemInv
        <3>3. QED
            BY <3>1, <3>2 DEF sender
    <2>5. QED
        BY <2>3, <2>4
<1>2. QED
    BY <1>1, SystemInvariant, PTL DEF Spec, SentIsRequested

\* Every request the sender gets asks exactly for the sub-packets the reception lacks.
THEOREM AsksHolds ==
    ASSUME OnePacketAtATime
    PROVE  Spec => RequestsWhatIsMissing
<1>1. SystemInv /\ [Next]_vars =>
          [ \A k \in 1..Len(out') : out'[k].type = "request" =>
                /\ out'[k].mask # {}
                /\ \E r \in {rx, rx'} : AsksFor(out'[k], r) ]_receiverVars
    <2> SUFFICES ASSUME SystemInv, Next, NEW k \in 1..Len(out'), out'[k].type = "request"
                 PROVE  out'[k].mask # {} /\ \E r \in {rx, rx'} : AsksFor(out'[k], r)
        BY DEF vars, receiverVars
    <2>1. CASE ReceiverStep(Signals, SubPackets)
        BY <2>1, RequestsStep DEF SystemInv, TypeOK
    <2>2. CASE SenderStep
        <3>1. out' \in Seq(SenderOutputs)
            BY <2>2, SenderTypeStep DEF SystemInv, TypeOK, SenderTypeOK
        <3>2. \A m \in SenderOutputs : m.type # "request"
            BY DEF SenderOutputs, Signals, SubPackets
        <3>3. QED
            BY <3>1, <3>2
    <2>3. QED
        BY <2>1, <2>2, StepOfAny DEF SystemInv
<1>2. QED
    BY <1>1, SystemInvariant, PTL DEF Spec, RequestsWhatIsMissing

-----------------------------------------------------------------------------
(***************************************************************************)
(* What is displayed.  A signal on its way is the only one, and meets no   *)
(* reception: so a packet announced stays as it was received until it is   *)
(* printed.  Its length covers it, unless the 16 bits overflow, and the    *)
(* '\0' then falls behind its last byte.                                   *)
(***************************************************************************)

\* The uint16_t the received bytes are counted in has room for one more sub-packet.
NoOverflow == rProc.running => rx.len + SubpacketMaxBytes < LenModulus

SignalInFlight == \E m \in BagToSet(net) : m.type = "signal"

SignaledOnce ==
    \A j, k \in 1..Len(rQueue) : rQueue[j] = "signaled" /\ rQueue[k] = "signaled" => j = k

OneSignal ==
    /\ \A m \in BagToSet(net) : m.type = "signal" => net[m] = 1 /\ ~Waiting("signaled")
    /\ SignaledOnce
    /\ SignalInFlight \/ Waiting("signaled") => ~rProc.running /\ ~Waiting("received")

\* Each sub-packet marked as received lies at its place, and its bytes are counted.
Intact ==
    /\ \A i \in rx.mask :
           storage[i] = [body |-> rx.id, idx |-> i, size |-> SubPacketOf(rx.id, i).size]
    /\ rx.len >= BytesOf(rx.mask, rx.id)

AllMarked == rx.num > 0 /\ rx.mask = LowBits(rx.num)

DisplayInv ==
    /\ rProc.running \/ Waiting("received") => Intact
    /\ Waiting("received") => ~rProc.running /\ AllMarked

\* A sub-packet taken is stored, and its bytes are counted.
LEMMA TakeSubPacketIntact ==
    ASSUME ReceiverStateOK, Coherent, Intact, rx.len + SubpacketMaxBytes < LenModulus,
           rProc.running, NextEvent("subpacket"), TakeSubPacket
    PROVE  Intact'
<1> DEFINE i == subData.idx
           size == SubPacketOf(rx.id, i).size
<1>1. /\ subData = SubPacketOf(rx.id, i) /\ i \in LowBits(subData.num)
      /\ subData \in SubPackets /\ rx.id \in PacketIds /\ rx.mask \in Masks
    BY HeadWaits DEF Coherent, TakeSubPacket, ReceiverStateOK
<1>2. subData.num = NumSubPackets(PacketLen[rx.id]) /\ subData.body = rx.id /\ subData.size = size
    BY <1>1 DEF SubPacketOf, SubPacket
<1>3. size \in 1..SubpacketMaxBytes
    <2>1. i \in Indices
        BY <1>1 DEF SubPackets
    <2>2. size > 0 /\ subData.size \in 0..SubpacketMaxBytes
        BY <1>1, <2>1, SubPacketOfType DEF SubPackets
    <2>3. QED
        BY <1>2, <2>2, SizeAssumption
<1>4. storage' = [storage EXCEPT ![i] = [body |-> rx.id, idx |-> i, size |-> size]]
    BY <1>2, <1>3 DEF TakeSubPacket, Stored
<1>5. rx'.id = rx.id /\ rx'.mask = rx.mask \cup {i} /\ rx'.len = (rx.len + size) % LenModulus
    BY <1>2 DEF TakeSubPacket, ReceiverStateOK
<1>6. rx'.len = rx.len + size
    <2> HIDE DEF size
    <2>1. \A a \in Nat, n \in Nat \ {0} : a < n => a % n = a
        OBVIOUS
    <2>2. rx.len \in Nat /\ LenModulus \in Nat \ {0} /\ SubpacketMaxBytes \in Nat
        BY ReceiverAssumption, SizeAssumption DEF ReceiverStateOK
    <2>3. rx.len + size \in Nat /\ rx.len + size < LenModulus
        BY <1>3, <2>2
    <2>4. QED
        BY <1>5, <2>1, <2>2, <2>3
<1>7. /\ BytesOf(rx.mask, rx.id) \in Int /\ BytesOf(rx.mask \cup {i}, rx.id) \in Int
      /\ BytesOf(rx.mask \cup {i}, rx.id) <= BytesOf(rx.mask, rx.id) + size
    BY <1>1, <1>2, BytesOfOneMore
<1>8. rx.len + size >= BytesOf(rx.mask \cup {i}, rx.id)
    BY <1>3, <1>7, ReceiverAssumption DEF Intact, ReceiverStateOK
<1>9. \A j \in rx'.mask :
          storage'[j] = [body |-> rx.id, idx |-> j, size |-> SubPacketOf(rx.id, j).size]
    <2>1. \A j \in rx.mask \cup {i} : j \in Indices
        BY <1>1 DEF Masks, SubPackets
    <2>2. QED
        BY <1>4, <1>5, <2>1 DEF Intact, ReceiverStateOK
<1>10. QED
    BY <1>5, <1>6, <1>8, <1>9 DEF Intact

\* The sub-packets of a packet all received end within its length.
LEMMA IntactIsLongEnough ==
    ASSUME ReceiverStateOK, Coherent, Intact, AllMarked, NEW i \in rx.mask
    PROVE  LET size == SubPacketOf(rx.id, i).size
           IN  size \in 1..SubpacketMaxBytes /\ i * SubpacketMaxBytes + size <= rx.len
<1> DEFINE num  == NumSubPackets(PacketLen[rx.id])
           size == SubPacketOf(rx.id, i).size
<1>1. rx.num = num /\ FitsMask(num) /\ num > 0 /\ rx.mask = LowBits(num) /\ rx.id \in PacketIds
    BY DEF Coherent, AllMarked, ReceiverStateOK
<1>2. PacketLen[rx.id] \in Nat /\ rx.len \in Nat
    BY <1>1, PacketAssumption, ReceiverAssumption DEF ReceiverStateOK
<1>3. rx.len >= PacketLen[rx.id]
    BY <1>1, BytesOfAll DEF Intact
<1>4. size = SubPacketSize(i, num, PacketLen[rx.id])
    BY DEF SubPacketOf, SubPacket
<1>5. size \in 1..SubpacketMaxBytes /\ i * SubpacketMaxBytes + size <= PacketLen[rx.id]
    BY <1>1, <1>2, <1>4, SubPacketSizeType, SubPacketsTile
<1>6. i * SubpacketMaxBytes \in Nat
    BY <1>1, SizeAssumption DEF LowBits, Indices
<1>7. i * SubpacketMaxBytes + size <= rx.len
    BY <1>2, <1>3, <1>5, <1>6, SizeAssumption
<1>8. QED
    BY <1>5, <1>7

\* The '\0' falls behind the last byte of a packet all received.
LEMMA TerminatedKeeps ==
    ASSUME ReceiverStateOK, Coherent, Intact, AllMarked, NEW i \in rx.mask
    PROVE  Terminated[i] = storage[i]
<1> DEFINE size == SubPacketOf(rx.id, i).size
           place == rx.len \div SubpacketMaxBytes
           rest == rx.len % SubpacketMaxBytes
<1>1. size \in 1..SubpacketMaxBytes /\ i * SubpacketMaxBytes + size <= rx.len
    BY IntactIsLongEnough
<1>2. i \in Indices /\ rx.len \in Nat
    BY ReceiverAssumption DEF ReceiverStateOK, Masks
<1>3. storage[i].size = size
    <2>1. storage[i] = [body |-> rx.id, idx |-> i, size |-> SubPacketOf(rx.id, i).size]
        BY DEF Intact
    <2>2. QED
        BY <2>1
<1>4. /\ place \in Nat /\ rest \in Nat
      /\ rx.len = SubpacketMaxBytes * place + rest
    BY <1>2, DivisionByMaxBytes
<1> HIDE DEF size, place, rest
<1>5. i = place => ~(rest < size)
    <2>1. SubpacketMaxBytes * place \in Nat /\ place * SubpacketMaxBytes = SubpacketMaxBytes * place
        BY <1>4, SizeAssumption
    <2>2. ASSUME i = place, NEW n \in Nat, n = SubpacketMaxBytes * place
          PROVE  ~(rest < size)
        <3>1. n + size <= n + rest
            BY <1>1, <1>4, <2>1, <2>2
        <3>2. QED
            BY <1>1, <1>4, <2>2, <3>1, SizeAssumption
    <2>3. QED
        BY <2>1, <2>2
<1>6. QED
    BY <1>2, <1>3, <1>5 DEF Terminated, place, rest

\* A step keeps what has been received as it was, until it is printed.
LEMMA DisplayStep ==
    ASSUME ReceiverStateOK, Coherent, OneSignal, DisplayInv, NoOverflow,
           ReceiverStep(Signals, SubPackets)
    PROVE  DisplayInv'
<1>1. ASSUME UNCHANGED <<rx, storage>>, rProc'.running => rProc.running,
             Waiting("received")' => Waiting("received"), Waiting("received") => ~rProc'.running
      PROVE  DisplayInv'
    BY <1>1 DEF DisplayInv, Intact, AllMarked
<1>2. ASSUME NEW e \in ReceiverEvents, e # "received", rQueue' = Post(rQueue, e),
             UNCHANGED <<rx, storage, rProc>>
      PROVE  DisplayInv'
    <2>1. Waiting("received")' => Waiting("received")
        BY <1>2, PostWaits
    <2>2. QED
        BY <1>1, <1>2, <2>1 DEF DisplayInv
<1>3. CASE \/ \E m \in Signals : HandleSignal(m)
           \/ \E m \in SubPackets : HandleSubPacket(m)
           \/ ReceiverTimerExpires
    BY <1>2, <1>3 DEF HandleSignal, HandleSubPacket, ReceiverTimerExpires, Post, ReceiverEvents
<1>4. ASSUME rQueue # <<>>, rQueue' = Tail(rQueue), UNCHANGED <<rx, storage>>,
             rProc'.running => rProc.running
      PROVE  DisplayInv'
    <2>1. Waiting("received")' => Waiting("received")
        BY <1>4, TailWaits
    <2>2. QED
        BY <1>1, <1>4, <2>1 DEF DisplayInv
<1>5. CASE DeliverTimeout
    BY <1>4, <1>5, CheckTimeoutStops, HeadWaits DEF DeliverTimeout
<1>6. CASE DeliverSubPacket
    <2>1. rQueue # <<>> /\ NextEvent("subpacket")
        BY <1>6, HeadWaits DEF DeliverSubPacket
    <2>2. CASE CheckTimeout /\ rQueue' = Tail(rQueue) /\ UNCHANGED <<rx, storage>>
        BY <1>4, <2>1, <2>2, CheckTimeoutStops
    <2>3. CASE DiscardSubPacket \/ LeaveOnForeignId
        BY <1>4, <2>1, <2>3 DEF DiscardSubPacket, LeaveOnForeignId, ReceiverStateOK
    <2>4. CASE rProc.running /\ TakeSubPacket
        <3>1. ~Waiting("received") /\ Intact /\ rx.len + SubpacketMaxBytes < LenModulus
            BY <2>4 DEF DisplayInv, NoOverflow
        <3>2. Intact'
            BY <2>1, <2>4, <3>1, TakeSubPacketIntact
        <3>3. CASE AllReceived(rx'.mask, subData.num)
            <4>1. subData.id = rx.id /\ subData = SubPacketOf(subData.id, subData.idx)
                BY <2>1, <2>4, HeadWaits DEF TakeSubPacket, Coherent
            <4>2. subData.num = rx.num /\ rx.num > 0
                BY <2>4, <4>1 DEF SubPacketOf, SubPacket, Coherent
            <4>3. rx'.num = rx.num /\ ~rProc'.running
                BY <2>4, <3>3 DEF TakeSubPacket, ReceiverStateOK
            <4>4. rx'.mask = LowBits(rx'.num)
                BY <3>3, <4>2, <4>3 DEF AllReceived
            <4>5. QED
                BY <3>2, <4>2, <4>3, <4>4 DEF DisplayInv, AllMarked
        <3>4. CASE ~AllReceived(rx'.mask, subData.num)
            <4>1. rQueue' = Tail(rQueue)
                BY <2>4, <3>4 DEF TakeSubPacket
            <4>2. ~Waiting("received")'
                BY <2>1, <3>1, <4>1, TailWaits
            <4>3. QED
                BY <3>2, <4>2 DEF DisplayInv
        <3>5. QED
            BY <3>3, <3>4
    <2>5. QED
        BY <1>6, <2>2, <2>3, <2>4 DEF DeliverSubPacket
<1>7. CASE DeliverSignaled
    <2>1. rQueue # <<>> /\ rQueue' = Tail(rQueue) /\ UNCHANGED storage /\ Waiting("signaled")
        BY <1>7, HeadWaits DEF DeliverSignaled
    <2>2. CASE StartReception
        <3>1. ~Waiting("received")'
            BY <2>1, TailWaits DEF OneSignal
        <3>2. rx'.mask = {} /\ rx'.len = 0
            BY <2>2 DEF StartReception
        <3>3. Intact'
            BY <3>2, BytesOfNone DEF Intact
        <3>4. QED
            BY <3>1, <3>3 DEF DisplayInv
    <2>3. CASE RefuseSignal
        BY <1>4, <2>1, <2>3, CheckTimeoutStops DEF RefuseSignal
    <2>4. QED
        BY <1>7, <2>2, <2>3 DEF DeliverSignaled
<1>8. CASE DeliverReceived
    <2>1. /\ rQueue # <<>> /\ rQueue' = Tail(rQueue) /\ Waiting("received")
          /\ UNCHANGED rx /\ storage' = Terminated /\ CheckTimeout
        BY <1>8, HeadWaits DEF DeliverReceived
    <2>2. ~rProc.running /\ Intact /\ AllMarked
        BY <2>1 DEF DisplayInv
    <2>3. \A i \in rx.mask : storage'[i] = storage[i]
        BY <2>1, <2>2, TerminatedKeeps
    <2>4. Intact' /\ AllMarked'
        BY <2>1, <2>2, <2>3 DEF Intact, AllMarked
    <2>5. ~rProc'.running
        BY <2>1, <2>2, CheckTimeoutStops
    <2>6. QED
        BY <2>4, <2>5 DEF DisplayInv
<1>9. CASE ReceiverReset
    BY <1>9 DEF ReceiverReset, DisplayInv, Waiting
<1>10. QED
    BY <1>3, <1>5, <1>6, <1>7, <1>8, <1>9 DEF ReceiverStep, DeliverToReceiver

-----------------------------------------------------------------------------
(***************************************************************************)
(* One signal: in flight, then waiting to be delivered, then gone.         *)
(***************************************************************************)

\* No second "signaled" event joins a first.
LEMMA SignaledOncePost ==
    ASSUME ReceiverStateOK, SignaledOnce, NEW e \in ReceiverEvents, rQueue' = Post(rQueue, e),
           e # "signaled" \/ ~Waiting("signaled")
    PROVE  SignaledOnce'
BY DEF SignaledOnce, Waiting, Post, ReceiverStateOK

\* The "signaled" event delivered was the last.
LEMMA SignaledOnceDelivery ==
    ASSUME ReceiverStateOK, SignaledOnce, DeliverToReceiver
    PROVE  SignaledOnce' /\ (NextEvent("signaled") => ~Waiting("signaled")')
<1>1. rQueue # <<>>
    BY DEF DeliverToReceiver, DeliverTimeout, DeliverSubPacket, DeliverSignaled, DeliverReceived, NextEvent
<1>2. rQueue' = Tail(rQueue) \/ rQueue' = Post(Tail(rQueue), "received")
    BY DEF DeliverToReceiver, DeliverTimeout, DeliverSubPacket, DiscardSubPacket, LeaveOnForeignId,
        TakeSubPacket, DeliverSignaled, DeliverReceived
<1>3. \A k \in 1..Len(rQueue') : rQueue'[k] = "signaled" =>
          k + 1 \in 1..Len(rQueue) /\ rQueue[k + 1] = "signaled"
    <2>1. CASE rQueue' = Tail(rQueue)
        BY <1>1, <2>1 DEF ReceiverStateOK
    <2>2. CASE rQueue' = Post(Tail(rQueue), "received")
        <3> SUFFICES ASSUME NEW k \in 1..Len(rQueue'), rQueue'[k] = "signaled"
                     PROVE  k + 1 \in 1..Len(rQueue) /\ rQueue[k + 1] = "signaled"
            OBVIOUS
        <3>1. QED
            BY <1>1, <2>2 DEF Post, ReceiverStateOK
    <2>3. QED
        BY <1>2, <2>1, <2>2
<1>4. SignaledOnce'
    BY <1>3 DEF SignaledOnce
<1>5. ASSUME NextEvent("signaled"), Waiting("signaled")'
      PROVE  FALSE
    <2>1. PICK k \in 1..Len(rQueue') : rQueue'[k] = "signaled"
        BY <1>5 DEF Waiting
    <2>2. k + 1 \in 1..Len(rQueue) /\ rQueue[k + 1] = "signaled" /\ k + 1 # 1
        BY <1>3, <2>1
    <2>3. 1 \in 1..Len(rQueue) /\ rQueue[1] = "signaled"
        BY <1>1, <1>5 DEF NextEvent, ReceiverStateOK
    <2>4. QED
        BY <2>2, <2>3 DEF SignaledOnce
<1>6. QED
    BY <1>4, <1>5

\* Only a running process announces a packet.
LEMMA AnnouncementSource ==
    ASSUME ReceiverStateOK, DeliverToReceiver, Waiting("received")'
    PROVE  Waiting("received") \/ rProc.running
<1>1. rQueue # <<>>
    BY DEF DeliverToReceiver, DeliverTimeout, DeliverSubPacket, DeliverSignaled, DeliverReceived, NextEvent
<1>2. rQueue' = Tail(rQueue) \/ rProc.running
    BY DEF DeliverToReceiver, DeliverTimeout, DeliverSubPacket, DeliverSignaled, DeliverReceived
<1>3. QED
    BY <1>1, <1>2, TailWaits

\* A datagram in flight after a step in which it is not sent was in flight before.
LEMMA SignalsKept ==
    ASSUME TypeOK, OneSignal, Calm, Next, ~SenderNotifies,
           NEW m \in BagToSet(net'), m.type = "signal"
    PROVE  m \in BagToSet(net) /\ net'[m] = net[m] /\ ~Arrives(m)
<1>1. IsABag(net) /\ \A x \in BagToSet(net) : x.type = "signal" => net[x] = 1
    BY DEF TypeOK, OneSignal
<1>2. ASSUME NEW x \in BagToSet(net), net' = BagRemove(net, x)
      PROVE  m \in BagToSet(net) /\ net'[m] = net[m] /\ m # x
    BY <1>1, <1>2, BagRemoveType DEF BagToSet
<1>3. ASSUME NEW x \in BagToSet(net), net' = BagAdd(net, x), x.type # "signal"
      PROVE  m \in BagToSet(net) /\ net'[m] = net[m]
    <2>1. m # x
        BY <1>3
    <2>2. m \in DOMAIN BagAdd(net, x) /\ x \in DOMAIN net
        BY <1>3 DEF BagToSet
    <2>3. /\ DOMAIN BagAdd(net, x) = DOMAIN net \cup {x}
          /\ \A y \in DOMAIN net \ {x} : BagAdd(net, x)[y] = net[y]
        BY <1>1, BagAddType
    <2>4. QED
        BY <1>3, <2>1, <2>2, <2>3 DEF BagToSet
<1>4. ASSUME NEW X, out' \in Seq(X), Sending(net), m \notin Datagrams(out')
      PROVE  m \in BagToSet(net) /\ net'[m] = net[m]
    BY <1>1, <1>4, SendingType DEF BagToSet
<1>5. ~Arrives(m)
    <2>1. Arrives(m) => net' = BagRemove(net, m)
        BY DEF Arrives
    <2>2. m \notin DOMAIN net => BagRemove(net, m) = net
        BY DEF BagRemove
    <2>3. QED
        BY <1>2, <2>1, <2>2 DEF BagToSet
<1>6. out' \in Seq(ReceiverOutputs \cup SenderOutputs)
    BY SystemTypeStep DEF TypeOK
<1>7. CASE ReceiverDelivers
    <2>1. out' \in Seq(ReceiverOutputs)
        BY <1>7, ReceiverTypeStep DEF ReceiverDelivers, ReceiverStep, TypeOK, ReceiverTypeOK
    <2>2. \A x \in ReceiverOutputs : x.type # "signal"
        BY DEF ReceiverOutputs, Requests
    <2>3. m \notin Datagrams(out')
        BY <2>1, <2>2 DEF Datagrams
    <2>4. QED
        BY <1>4, <1>5, <1>6, <1>7, <2>3 DEF ReceiverDelivers
<1>8. CASE SenderDelivers
    <2>1. m \notin Datagrams(out')
        BY <1>8, DeliverySendsFrames DEF SenderDelivers, Frames
    <2>2. QED
        BY <1>4, <1>5, <1>6, <1>8, <2>1 DEF SenderDelivers
<1>9. CASE UNCHANGED net
    BY <1>5, <1>9
<1>10. CASE Arrival \/ \E x \in BagToSet(net) : Loses(x) \/ Duplicates(x)
    BY <1>2, <1>3, <1>5, <1>10 DEF Arrival, Arrives, Loses, Duplicates
<1>11. QED
    BY <1>7, <1>8, <1>9, <1>10 DEF Next, ReceiverTimesOut, ReceiverRestarts, SenderTimesOut, SenderRestarts

\* While a signal is on its way no reception goes on, so a delivery starts one only for it.
LEMMA OneSignalDelivery ==
    ASSUME ReceiverStateOK, OneSignal, DeliverToReceiver,
           \A m \in BagToSet(net') : m.type = "signal" => m \in BagToSet(net) /\ net'[m] = net[m]
    PROVE  OneSignal'
<1>1. SignaledOnce' /\ (NextEvent("signaled") => ~Waiting("signaled")')
    BY SignaledOnceDelivery DEF OneSignal
<1>2. Waiting("signaled")' => Waiting("signaled")
    BY DeliveryWaits
<1>3. SignalInFlight' => SignalInFlight
    BY DEF SignalInFlight
<1>4. SignalInFlight => ~Waiting("signaled")
    BY DEF OneSignal, SignalInFlight
<1>5. ASSUME SignalInFlight' \/ Waiting("signaled")'
      PROVE  ~rProc'.running /\ ~Waiting("received")'
    <2>1. ~rProc.running /\ ~Waiting("received")
        BY <1>2, <1>3, <1>5 DEF OneSignal
    <2>2. ~NextEvent("signaled")
        BY <1>1, <1>3, <1>4, <1>5, HeadWaits
    <2>3. QED
        BY <2>1, <2>2, DeliveryRuns, AnnouncementSource
<1>6. \A m \in BagToSet(net') : m.type = "signal" => net'[m] = 1 /\ ~Waiting("signaled")'
    BY <1>2 DEF OneSignal
<1>7. QED
    BY <1>1, <1>5, <1>6 DEF OneSignal

\* A signal that arrives was the only one.
LEMMA OneSignalArrival ==
    ASSUME SystemInv, OneSignal, Calm, Next, ~SenderNotifies,
           NEW s \in BagToSet(net), Arrives(s), s.type = "signal"
    PROVE  OneSignal'
<1>1. ReceiverStateOK /\ HandleSignal(s)
    BY DEF Arrives, SystemInv, TypeOK
<1>2. ~SignalInFlight'
    <2>1. ASSUME NEW m \in BagToSet(net'), m.type = "signal"
          PROVE  FALSE
        <3>1. m \in BagToSet(net) /\ ~Arrives(m)
            BY <2>1, SignalsKept DEF SystemInv
        <3>2. m = SignalOf(packetId) /\ s = SignalOf(packetId)
            BY <2>1, <3>1 DEF SystemInv, NetCurrent, Current, Belongs
        <3>3. QED
            BY <3>1, <3>2
    <2>2. QED
        BY <2>1 DEF SignalInFlight
<1>3. ~Waiting("signaled") /\ ~rProc.running /\ ~Waiting("received")
    BY DEF OneSignal, SignalInFlight
<1>4. rQueue' = Post(rQueue, "signaled") /\ UNCHANGED rProc
    BY <1>1 DEF HandleSignal
<1>5. SignaledOnce' /\ ~Waiting("received")'
    BY <1>1, <1>3, <1>4, SignaledOncePost, PostWaits DEF OneSignal, ReceiverEvents
<1>6. QED
    BY <1>2, <1>3, <1>4, <1>5 DEF OneSignal, SignalInFlight

\* A packet is signaled when nothing of the one before is on its way.
LEMMA OneSignalSent ==
    ASSUME TypeOK, OnePacketAtATime, SenderNotifies
    PROVE  OneSignal'
<1>1. Notify /\ Sending(net) /\ UNCHANGED receiver /\ DOMAIN net = {} /\ rQueue = <<>> /\ ~rProc.running
    BY DEF SenderNotifies, OnePacketAtATime, NothingOnItsWay, EmptyBag, SetToBag
<1>2. out' = <<>> \/ \E m : out' = <<m>>
    BY <1>1 DEF Notify, NoRoot, RootWithoutRoute, RootWithRoute, RouteEstablished, RegisterAndSignal
<1>3. out' \in Seq(SenderOutputs)
    BY <1>1, SenderTypeStep DEF SenderStep, SenderTypeOK, TypeOK
<1>4. /\ DOMAIN net' = Datagrams(out')
      /\ \A m \in Datagrams(out') : net'[m] = Copies(m, out')
    BY <1>1, <1>3, SendingType DEF TypeOK
<1>5. \A m \in Datagrams(out') : Copies(m, out') = 1
    BY <1>2, CopiesOfOne DEF Datagrams
<1>6. rQueue' = <<>> /\ ~rProc'.running
    BY <1>1 DEF receiver
<1>7. SignaledOnce' /\ ~Waiting("signaled")' /\ ~Waiting("received")'
    BY <1>6 DEF SignaledOnce, Waiting
<1>8. QED
    BY <1>4, <1>5, <1>6, <1>7 DEF OneSignal, BagToSet

LEMMA OneSignalStep ==
    ASSUME SystemInv, OneSignal, OnePacketAtATime, Next
    PROVE  OneSignal'
<1>1. TypeOK /\ ReceiverStateOK /\ Calm
    BY DEF SystemInv, TypeOK, OnePacketAtATime
<1>2. CASE SenderNotifies
    BY <1>1, <1>2, OneSignalSent
<1>3. CASE ~SenderNotifies
    <2>1. \A m \in BagToSet(net') :
              m.type = "signal" => m \in BagToSet(net) /\ net'[m] = net[m] /\ ~Arrives(m)
        BY <1>1, <1>3, SignalsKept
    <2>2. SignalInFlight' => SignalInFlight
        BY <2>1 DEF SignalInFlight
    <2>3. ASSUME UNCHANGED rProc, SignaledOnce', Waiting("signaled")' => Waiting("signaled"),
                 Waiting("received")' => Waiting("received")
          PROVE  OneSignal'
        BY <2>1, <2>2, <2>3 DEF OneSignal
    <2>4. CASE UNCHANGED receiver
        BY <2>3, <2>4 DEF receiver, OneSignal, SignaledOnce, Waiting
    <2>5. ASSUME NEW e \in ReceiverEvents, e # "signaled", e # "received",
                 rQueue' = Post(rQueue, e), UNCHANGED rProc
          PROVE  OneSignal'
        BY <1>1, <2>3, <2>5, SignaledOncePost, PostWaits DEF OneSignal
    <2>6. CASE ReceiverDelivers
        BY <1>1, <2>1, <2>6, OneSignalDelivery DEF ReceiverDelivers
    <2>7. CASE ReceiverTimesOut
        BY <2>5, <2>7 DEF ReceiverTimesOut, ReceiverTimerExpires, Post, ReceiverEvents
    <2>8. CASE ReceiverRestarts
        <3>1. rQueue' = <<>> /\ ~rProc'.running
            BY <2>8 DEF ReceiverRestarts, ReceiverReset
        <3>2. SignaledOnce' /\ ~Waiting("signaled")' /\ ~Waiting("received")'
            BY <3>1 DEF SignaledOnce, Waiting
        <3>3. QED
            BY <2>1, <3>1, <3>2 DEF OneSignal
    <2>9. ASSUME NEW m \in BagToSet(net), Arrives(m)
          PROVE  OneSignal'
        <3>1. CASE m.type = "signal"
            BY <1>1, <1>3, <2>9, <3>1, OneSignalArrival
        <3>2. CASE HandleSubPacket(m)
            BY <2>5, <3>2 DEF HandleSubPacket, ReceiverEvents
        <3>3. QED
            BY <2>4, <2>9, <3>1, <3>2 DEF Arrives
    <2>10. QED
        BY <1>3, <2>4, <2>6, <2>7, <2>8, <2>9
        DEF Next, SenderDelivers, SenderTimesOut, SenderRestarts, Arrival, Loses, Duplicates
<1>4. QED
    BY <1>2, <1>3

-----------------------------------------------------------------------------
(***************************************************************************)
(* The display.                                                            *)
(***************************************************************************)

\* What is printed in a step that finds the packet intact is the packet.
LEMMA PrintsIntact ==
    ASSUME SystemInv, DisplayInv, Next, NEW k \in 1..Len(out'), out'[k].type = "printed"
    PROVE  /\ DeliverReceived /\ rx.id \in SentPackets
           /\ \A i \in LowBits(NumSubPackets(PacketLen[rx.id])) :
                  out'[k].text[i] = [body |-> rx.id, idx |-> i, size |-> SubPacketOf(rx.id, i).size]
<1>1. TypeOK /\ ReceiverStateOK /\ Coherent
    BY DEF SystemInv, TypeOK
<1>2. DeliverReceived
    <2>1. ReceiverStep(Signals, SubPackets)
        <3>1. ASSUME SenderStep
              PROVE  FALSE
            <4>1. out' \in Seq(SenderOutputs)
                BY <1>1, <3>1, SenderTypeStep DEF TypeOK, SenderTypeOK
            <4>2. \A m \in SenderOutputs : m.type # "printed"
                BY DEF SenderOutputs, Signals, SubPackets
            <4>3. QED
                BY <4>1, <4>2
        <3>2. QED
            BY <1>1, <3>1, StepOfAny
    <2>2. CASE out' = <<>>
        BY <2>2
    <2>3. ASSUME NEW j \in 1..Len(TimeoutRequest)
          PROVE  TimeoutRequest[j].type # "printed"
        BY DEF TimeoutRequest, Request
    <2>4. CASE out' = TimeoutRequest
        BY <2>3, <2>4
    <2>5. CASE StartReception
        <3>1. out' = TimeoutRequest \o <<Request(sigData.id, LowBits(sigData.num))>>
            BY <2>5 DEF StartReception
        <3>2. TimeoutRequest \in Seq(ReceiverOutputs)
            BY <1>1, TimeoutRequestType
        <3>3. \/ k \in 1..Len(TimeoutRequest) /\ out'[k] = TimeoutRequest[k]
              \/ out'[k] = Request(sigData.id, LowBits(sigData.num))
            BY <3>1, <3>2
        <3>4. QED
            BY <2>3, <3>3 DEF Request
    <2>6. QED
        BY <2>1, <2>2, <2>4, <2>5
        DEF ReceiverStep, HandleSignal, HandleSubPacket, ReceiverTimerExpires, DeliverToReceiver,
            DeliverTimeout, DeliverSubPacket, DeliverSignaled, RefuseSignal, ReceiverReset
<1>3. ~rProc.running /\ Intact /\ AllMarked
    BY <1>1, <1>2, HeadWaits DEF DeliverReceived, DisplayInv
<1> DEFINE text == [i \in Indices |-> IF i * SubpacketMaxBytes < rx.len THEN storage'[i] ELSE Blank]
<1>4. out'[k].text = text
    <2>1. TimeoutRequest = <<>>
        BY <1>3 DEF TimeoutRequest, TimedOut
    <2>2. out' = <<Printed(rx.len, text)>>
        BY <1>2, <2>1 DEF DeliverReceived
    <2>3. out'[k] = Printed(rx.len, text)
        BY <2>2
    <2>4. QED
        BY <2>3 DEF Printed
<1>5. /\ rx.num = NumSubPackets(PacketLen[rx.id]) /\ rx.num \in 1..MaxSubpackets
      /\ rx.id \in PacketIds /\ rx.mask = LowBits(rx.num)
    BY <1>1, <1>3, SizeAssumption DEF Coherent, AllMarked, FitsMask, ReceiverStateOK
<1>6. rx.id \in SentPackets
    BY <1>5 DEF SentPackets
<1>7. ASSUME NEW i \in LowBits(rx.num)
      PROVE  text[i] = [body |-> rx.id, idx |-> i, size |-> SubPacketOf(rx.id, i).size]
    <2>1. i \in rx.mask /\ i \in Indices
        BY <1>5 DEF LowBits
    <2>2. storage'[i] = storage[i]
        BY <1>1, <1>2, <1>3, <2>1, TerminatedKeeps DEF DeliverReceived
    <2>3. storage[i] = [body |-> rx.id, idx |-> i, size |-> SubPacketOf(rx.id, i).size]
        BY <1>3, <2>1 DEF Intact
    <2>4. i * SubpacketMaxBytes < rx.len
        <3> DEFINE size == SubPacketOf(rx.id, i).size
        <3>1. size \in 1..SubpacketMaxBytes /\ i * SubpacketMaxBytes + size <= rx.len
            BY <1>1, <1>3, <2>1, IntactIsLongEnough
        <3>2. i * SubpacketMaxBytes \in Nat /\ rx.len \in Nat
            BY <1>1, <2>1, SizeAssumption, ReceiverAssumption DEF Indices, ReceiverStateOK
        <3> HIDE DEF size
        <3>3. QED
            BY <3>1, <3>2, SizeAssumption
    <2>5. QED
        BY <2>1, <2>2, <2>3, <2>4
<1>8. QED
    BY <1>2, <1>4, <1>5, <1>6, <1>7

LEMMA OneSignalHolds ==
    ASSUME OnePacketAtATime
    PROVE  Spec => []OneSignal
<1>1. Init => OneSignal
    <2> SUFFICES ASSUME Init PROVE OneSignal
        OBVIOUS
    <2>1. rQueue = <<>> /\ BagToSet(net) = {}
        BY DEF Init, ReceiverInit, EmptyBag, SetToBag, BagToSet
    <2>2. QED
        BY <2>1 DEF OneSignal, SignalInFlight, SignaledOnce, Waiting
<1>2. SystemInv /\ OneSignal /\ [Next]_vars => OneSignal'
    <2>1. CASE Next
        BY <2>1, OneSignalStep
    <2>2. CASE UNCHANGED vars
        BY <2>2 DEF vars, receiver, OneSignal, SignalInFlight, SignaledOnce, Waiting
    <2>3. QED
        BY <2>1, <2>2
<1>3. QED
    BY <1>1, <1>2, SystemInvariant, PTL DEF Spec

LEMMA DisplayInvariant ==
    ASSUME OnePacketAtATime
    PROVE  Spec /\ []NoOverflow => []DisplayInv
<1>1. Init => DisplayInv
    BY DEF Init, ReceiverInit, DisplayInv, Waiting
<1>2. SystemInv /\ OneSignal /\ DisplayInv /\ NoOverflow /\ [Next]_vars => DisplayInv'
    <2> SUFFICES ASSUME SystemInv, OneSignal, DisplayInv, NoOverflow, [Next]_vars
                 PROVE  DisplayInv'
        OBVIOUS
    <2>1. CASE UNCHANGED receiver
        BY <2>1 DEF receiver, DisplayInv, Intact, AllMarked, Waiting
    <2>2. CASE ReceiverStep(Signals, SubPackets)
        BY <2>2, DisplayStep DEF SystemInv, TypeOK
    <2>3. CASE Next
        BY <2>1, <2>2, <2>3, StepOfAny DEF SystemInv
    <2>4. QED
        BY <2>1, <2>3 DEF vars
<1>3. QED
    BY <1>1, <1>2, SystemInvariant, OneSignalHolds, PTL DEF Spec

\* What is displayed is one whole packet of the sender, each sub-packet at its place with its own
\* bytes, unless the received bytes overflow their 16 bits.  The packet announced is the one
\* received: nothing is stored, and no reception starts, until it is printed.
THEOREM DisplaysHolds ==
    ASSUME OnePacketAtATime
    PROVE  Spec /\ []NoOverflow => DisplaysWholePacket
<1>1. SystemInv /\ DisplayInv /\ [Next]_vars =>
          [ \A k \in 1..Len(out') : out'[k].type = "printed" =>
                \E p \in SentPackets : \A i \in LowBits(NumSubPackets(PacketLen[p])) :
                    out'[k].text[i] = [body |-> p, idx |-> i, size |-> SubPacketOf(p, i).size]
          ]_receiverVars
    <2>1. UNCHANGED vars => UNCHANGED receiverVars
        BY DEF vars, receiverVars
    <2>2. QED
        BY <2>1, PrintsIntact
<1>2. QED
    BY <1>1, SystemInvariant, DisplayInvariant, PTL DEF Spec, DisplaysWholePacket
=============================================================================
