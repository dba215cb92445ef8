------------------------------ MODULE CountProofs ------------------------------
(***************************************************************************)
(* The receiver counts each byte once, for every value of the constants,   *)
(* and so the service is kept whatever the length counted.                 *)
(***************************************************************************)
EXTENDS ServiceProofs

-----------------------------------------------------------------------------
(***************************************************************************)
(* What is on its way is there once.  With prompt nodes and a patient      *)
(* time-out the receiver asks only when nothing it asked for before is on  *)
(* its way, so no sub-packet travels twice, unless the network duplicates  *)
(* it.                                                                     *)
(***************************************************************************)

\* An event with data is posted only to an empty queue.
Prompted ==
    /\ \A k \in 1..Len(rQueue) : rQueue[k] \in {"signaled", "subpacket"} => k = 1
    /\ \A k \in 1..Len(sQueue) : sQueue[k] = "requested" => k = 1

NobodySends == ~sending /\ ~Waiting("subpacket")

\* A request is the only thing on its way; what it asks for is then on its way once, and lacks.
Once ==
    rProc.running =>
        /\ \A m \in BagToSet(net) :
               /\ net[m] = 1
               /\ m.type = "request" =>
                      /\ BagToSet(net) = {m} /\ NobodySends /\ ~RequestWaits
                      /\ m.mask \cap rx.mask = {}
               /\ m.type = "subpacket" =>
                      /\ m.idx \notin rx.mask
                      /\ sending => m.idx \notin tx.mask
                      /\ Waiting("subpacket") => m.idx # subData.idx
        /\ RequestWaits => BagToSet(net) = {} /\ NobodySends /\ reqData.mask \cap rx.mask = {}
        /\ Waiting("subpacket") => /\ subData.idx \notin rx.mask
                                   /\ sending => subData.idx \notin tx.mask
        /\ sending => tx.mask \cap rx.mask = {}

OnceInv == QuietInv /\ Prompted /\ Once

\* After a delivery no event with data waits.
LEMMA DeliveryLeavesNoData ==
    ASSUME ReceiverStateOK, Prompted, DeliverToReceiver
    PROVE  \A k \in 1..Len(rQueue') : rQueue'[k] \notin {"signaled", "subpacket"}
<1>1. rQueue # <<>>
    BY DEF DeliverToReceiver, DeliverTimeout, DeliverSubPacket, DeliverSignaled, DeliverReceived, NextEvent
<1>2. rQueue' = Tail(rQueue) \/ rQueue' = Post(Tail(rQueue), "received")
    BY DEF DeliverToReceiver, DeliverTimeout, DeliverSubPacket, DiscardSubPacket, LeaveOnForeignId,
        TakeSubPacket, DeliverSignaled, DeliverReceived
<1> DEFINE q == Tail(rQueue)
<1>3. q \in Seq(ReceiverEvents)
    BY <1>1 DEF ReceiverStateOK
<1>4. ASSUME NEW k \in 1..Len(q)
      PROVE  q[k] \notin {"signaled", "subpacket"}
    <2>1. k + 1 \in 1..Len(rQueue) /\ q[k] = rQueue[k + 1] /\ k + 1 # 1
        BY <1>1 DEF ReceiverStateOK
    <2>2. QED
        BY <2>1 DEF Prompted
<1> HIDE DEF q
<1>5. CASE rQueue' = q
    BY <1>4, <1>5
<1>6. CASE rQueue' = Post(q, "received")
    BY <1>3, <1>4, <1>6 DEF Post
<1>7. QED
    BY <1>2, <1>5, <1>6 DEF q

\* Nor a request after a delivery to the sender.
LEMMA DeliveryLeavesNoRequest ==
    ASSUME SenderStateOK, Prompted, DeliverToSender
    PROVE  /\ \A k \in 1..Len(sQueue') : sQueue'[k] # "requested"
           /\ ~RequestWaits'
<1>1. sQueue # <<>> /\ sQueue' = Tail(sQueue)
    BY DEF DeliverToSender, DeliverPeriod, DeliverRequested
<1>2. ASSUME NEW k \in 1..Len(sQueue')
      PROVE  sQueue'[k] # "requested"
    <2>1. k + 1 \in 1..Len(sQueue) /\ sQueue'[k] = sQueue[k + 1] /\ k + 1 # 1
        BY <1>1 DEF SenderStateOK
    <2>2. QED
        BY <2>1 DEF Prompted
<1>3. QED
    BY <1>2 DEF RequestWaits

LEMMA PromptedStep ==
    ASSUME TypeOK, Prompted, Prompt, Next
    PROVE  Prompted'
<1>1. ReceiverStateOK /\ SenderStateOK
    BY DEF TypeOK
<1>2. ASSUME UNCHANGED sQueue,
             \/ UNCHANGED rQueue \/ rQueue' = Append(rQueue, "timer") \/ rQueue' = <<>>
             \/ rQueue = <<>> /\ \E e \in ReceiverEvents : rQueue' = Post(rQueue, e)
             \/ DeliverToReceiver
      PROVE  Prompted'
    <2>1. CASE UNCHANGED rQueue \/ rQueue' = <<>>
        BY <1>2, <2>1 DEF Prompted
    <2>2. CASE rQueue' = Append(rQueue, "timer")
        BY <1>1, <1>2, <2>2 DEF Prompted, ReceiverStateOK
    <2>3. CASE rQueue = <<>> /\ \E e \in ReceiverEvents : rQueue' = Post(rQueue, e)
        <3>1. PICK e : rQueue' = <<e>>
            BY <2>3, QueueAssumption DEF Post
        <3>2. QED
            BY <1>2, <3>1 DEF Prompted
    <2>4. CASE DeliverToReceiver
        BY <1>1, <1>2, <2>4, DeliveryLeavesNoData DEF Prompted
    <2>5. QED
        BY <1>2, <2>1, <2>2, <2>3, <2>4
<1>3. ASSUME UNCHANGED rQueue,
             \/ UNCHANGED sQueue \/ sQueue' = Append(sQueue, "timer") \/ sQueue' = <<>>
             \/ sQueue = <<>> /\ sQueue' = Post(sQueue, "requested")
             \/ DeliverToSender
      PROVE  Prompted'
    <2>1. CASE UNCHANGED sQueue \/ sQueue' = <<>>
        BY <1>3, <2>1 DEF Prompted
    <2>2. CASE sQueue' = Append(sQueue, "timer")
        BY <1>1, <1>3, <2>2 DEF Prompted, SenderStateOK
    <2>3. CASE sQueue = <<>> /\ sQueue' = Post(sQueue, "requested")
        <3>1. sQueue' = <<"requested">>
            BY <2>3, QueueAssumption DEF Post
        <3>2. QED
            BY <1>3, <3>1 DEF Prompted
    <2>4. CASE DeliverToSender
        BY <1>1, <1>3, <2>4, DeliveryLeavesNoRequest DEF Prompted
    <2>5. QED
        BY <1>3, <2>1, <2>2, <2>3, <2>4
<1>4. CASE ReceiverDelivers \/ ReceiverTimesOut \/ ReceiverRestarts
    BY <1>2, <1>4 DEF ReceiverDelivers, ReceiverTimesOut, ReceiverTimerExpires, ReceiverRestarts,
        ReceiverReset, sender
<1>5. CASE SenderDelivers \/ SenderTimesOut \/ SenderNotifies \/ SenderRestarts
    <2>1. SenderNotifies => UNCHANGED sQueue
        BY DEF SenderNotifies, Notify, NoRoot, RootWithoutRoute, RootWithRoute, RouteEstablished, sendVars
    <2>2. QED
        BY <1>3, <1>5, <2>1 DEF SenderDelivers, SenderTimesOut, SenderTimerExpires, SenderNotifies,
            SenderRestarts, SenderReset, receiver
<1>6. CASE \E m \in BagToSet(net) : Arrives(m)
    BY <1>2, <1>3, <1>6 DEF Arrives, HandleSignal, HandleSubPacket, HandleRequest, ReceiverEvents, sender, receiver
<1>7. CASE \E m \in BagToSet(net) : Loses(m) \/ Duplicates(m)
    BY <1>3, <1>7 DEF Loses, Duplicates, sender, receiver
<1>8. QED
    BY <1>4, <1>5, <1>6, <1>7 DEF Next, Arrival

\* The datagram that leaves was there once, and all others stay.
LEMMA OneLess ==
    ASSUME TypeOK, NEW m \in BagToSet(net), net' = BagRemove(net, m), net[m] = 1
    PROVE  BagToSet(net') = BagToSet(net) \ {m} /\ \A x \in BagToSet(net') : net'[x] = net[x]
BY DEF BagRemove, BagToSet

\* Nothing sent changes nothing in flight.
LEMMA NoneMore ==
    ASSUME TypeOK, Sending(net), Datagrams(out') = {}, NEW X, out' \in Seq(X)
    PROVE  BagToSet(net') = BagToSet(net) /\ \A x \in BagToSet(net') : net'[x] = net[x]
BY SendingType DEF TypeOK, BagToSet

\* One datagram sent that was not in flight is there once.
LEMMA OneMore ==
    ASSUME TypeOK, Sending(net), NEW m, m.type # "printed", out' = <<m>>, m \notin BagToSet(net)
    PROVE  /\ BagToSet(net') = BagToSet(net) \cup {m}
           /\ net'[m] = 1 /\ \A x \in BagToSet(net) : net'[x] = net[x]
<1>1. /\ 1 \in 1..Len(out') /\ out'[1] = m /\ \A k \in 1..Len(out') : k = 1
      /\ out' \in Seq({m}) /\ IsABag(net)
    BY DEF TypeOK
<1>2. Datagrams(out') = {m}
    BY <1>1 DEF Datagrams
<1>3. Copies(m, out') = 1
    BY CopiesOfOne
<1>4. QED
    BY <1>1, <1>2, <1>3, SendingType DEF BagToSet

\* A reception that asks for something finds nothing under way.
LEMMA OnceAsks ==
    ASSUME TypeOK, Sending(net), UNCHANGED sender, BagToSet(net) = {}, sQueue = <<>>, ~sending,
           ~Waiting("subpacket")', NEW id, NEW mask, out' = <<Request(id, mask)>>, mask \cap rx'.mask = {}
    PROVE  Once'
<1> DEFINE r == Request(id, mask)
<1>1. r.type = "request" /\ r.mask = mask
    BY DEF Request
<1> HIDE DEF r
<1>2. BagToSet(net') = {r} /\ net'[r] = 1
    BY <1>1, OneMore DEF r
<1>3. ~sending' /\ ~RequestWaits' /\ NobodySends'
    BY DEF sender, RequestWaits, NobodySends
<1>4. \A m \in BagToSet(net') : m = r
    BY <1>2
<1>5. QED
    BY <1>1, <1>2, <1>3, <1>4 DEF Once

\* The delivery of any other event, the reception going on.
LEMMA OnceDelivery ==
    ASSUME OnceInv, OnePacketAtATime, Next, ReceiverDelivers
    PROVE  Once'
<1> SUFFICES ASSUME rProc'.running PROVE Once'
    BY DEF Once
<1>1. /\ TypeOK /\ ReceiverStateOK /\ Prompted /\ Once /\ QuietInv /\ DeliverToReceiver
      /\ Sending(net) /\ UNCHANGED sender
    BY DEF OnceInv, QuietInv, AloneInv, SystemInv, TypeOK, ReceiverDelivers
<1>2. ~Waiting("subpacket")'
    BY <1>1, DeliveryLeavesNoData DEF Waiting
<1>3. ASSUME DeliverSignaled, StartReception
      PROVE  Once'
    <2>1. Waiting("signaled") /\ ~rProc.running
        <3>1. Waiting("signaled")
            BY <1>1, <1>3, HeadWaits DEF DeliverSignaled
        <3>2. QED
            BY <1>1, <3>1 DEF QuietInv, AloneInv, OneSignal
    <2>2. BagToSet(net) = {} /\ sQueue = <<>> /\ ~sending
        BY <1>1, <2>1 DEF QuietInv, AloneInv, SignalAlone, OneSignal
    <2>3. out' = <<Request(sigData.id, LowBits(sigData.num))>> /\ rx'.mask = {}
        BY <1>3, <2>1 DEF StartReception, TimeoutRequest, TimedOut
    <2>4. QED
        BY <1>1, <1>2, <2>2, <2>3, OnceAsks
<1>4. ASSUME TimedOut, UNCHANGED rx, out' = TimeoutRequest, rProc.left > 0
      PROVE  Once'
    <2>1. BagToSet(net) = {} /\ sQueue = <<>> /\ ~sending
        BY <1>1, <1>4 DEF QuietInv, Quiet
    <2>2. out' = <<Request(rx.id, LowBits(rx.num) \ rx.mask)>>
        BY <1>4 DEF TimeoutRequest, MissingMask
    <2>3. (LowBits(rx.num) \ rx.mask) \cap rx'.mask = {}
        BY <1>4
    <2>4. QED
        BY <1>1, <1>2, <2>1, <2>2, <2>3, OnceAsks
<1>5. ASSUME rProc.running, Datagrams(out') = {},
             \/ rx'.mask = rx.mask
             \/ Waiting("subpacket") /\ rx'.mask = rx.mask \cup {subData.idx}
      PROVE  Once'
    <2>1. out' \in Seq(ReceiverOutputs)
        BY <1>1, ReceiverTypeStep DEF ReceiverStep, ReceiverTypeOK
    <2>2. BagToSet(net') = BagToSet(net) /\ \A m \in BagToSet(net') : net'[m] = net[m]
        BY <1>1, <1>5, <2>1, NoneMore
    <2>3. (RequestWaits' <=> RequestWaits) /\ UNCHANGED <<reqData, sending, tx>>
        BY <1>1 DEF sender, RequestWaits
    <2>4. ASSUME NEW m \in BagToSet(net')
          PROVE  /\ net'[m] = 1
                 /\ m.type = "request" =>
                        /\ BagToSet(net') = {m} /\ NobodySends' /\ ~RequestWaits'
                        /\ m.mask \cap rx'.mask = {}
                 /\ m.type = "subpacket" =>
                        m.idx \notin rx'.mask /\ (sending' => m.idx \notin tx'.mask)
        <3>1. m \in BagToSet(net)
            BY <2>2, <2>4
        <3>2. net'[m] = 1
            BY <1>1, <1>5, <2>2, <3>1 DEF Once
        <3>3. m.type = "request" =>
                  /\ BagToSet(net') = {m} /\ NobodySends' /\ ~RequestWaits'
                  /\ m.mask \cap rx'.mask = {}
            BY <1>1, <1>2, <1>5, <2>2, <2>3, <3>1 DEF Once, NobodySends
        <3>4. m.type = "subpacket" =>
                  m.idx \notin rx'.mask /\ (sending' => m.idx \notin tx'.mask)
            BY <1>1, <1>5, <2>3, <3>1 DEF Once
        <3>5. QED
            BY <3>2, <3>3, <3>4
    <2>5. RequestWaits' => BagToSet(net') = {} /\ NobodySends' /\ reqData'.mask \cap rx'.mask = {}
        BY <1>1, <1>2, <1>5, <2>2, <2>3 DEF Once, NobodySends
    <2>6. sending' => tx'.mask \cap rx'.mask = {}
        BY <1>1, <1>5, <2>3 DEF Once
    <2>7. QED
        BY <1>2, <2>4, <2>5, <2>6 DEF Once
<1>6. ASSUME CheckTimeout, UNCHANGED rx, out' = TimeoutRequest \/ (~TimedOut /\ Datagrams(out') = {})
      PROVE  Once'
    <2>1. rProc.running
        BY <1>1, <1>6, CheckTimeoutStops
    <2>2. CASE TimedOut
        <3>1. rProc.left > 0
            BY <1>1, <1>6, <2>2 DEF CheckTimeout, Rerequest, GiveUp, ReceiverStateOK
        <3>2. QED
            BY <1>4, <1>6, <2>2, <3>1
    <2>3. CASE ~TimedOut
        <3>1. TimeoutRequest = <<>>
            BY <2>3 DEF TimeoutRequest
        <3>2. Datagrams(out') = {}
            BY <1>6, <3>1 DEF Datagrams
        <3>3. QED
            BY <1>5, <1>6, <2>1, <3>2
    <2>4. QED
        BY <2>2, <2>3
<1>7. CASE DeliverTimeout
    BY <1>6, <1>7 DEF DeliverTimeout
<1>8. CASE DeliverReceived
    <2>1. Waiting("received")
        BY <1>1, <1>8, HeadWaits DEF DeliverReceived
    <2>2. ~rProc.running
        BY <1>1, <2>1 DEF QuietInv, AloneInv, Announced
    <2>3. QED
        BY <1>1, <1>8, <2>2, CheckTimeoutStops DEF DeliverReceived
<1>9. CASE DeliverSignaled
    BY <1>3, <1>6, <1>9 DEF DeliverSignaled, RefuseSignal
<1>10. CASE DeliverSubPacket
    <2>1. Waiting("subpacket")
        BY <1>1, <1>10, HeadWaits DEF DeliverSubPacket
    <2>2. CASE rProc.running /\ ~TimedOut
        <3>1. Datagrams(out') = {}
            <4>1. out' = <<>>
                BY <1>10, <2>2 DEF DeliverSubPacket, TimeoutRequest
            <4>2. QED
                BY <4>1 DEF Datagrams
        <3>2. CASE TakeSubPacket
            <4>1. rx'.mask = rx.mask \cup {subData.idx}
                BY <1>1, <3>2 DEF TakeSubPacket, ReceiverStateOK
            <4>2. QED
                BY <1>5, <2>1, <2>2, <3>1, <4>1
        <3>3. CASE DiscardSubPacket
            BY <1>5, <2>2, <3>1, <3>3 DEF DiscardSubPacket
        <3>4. ~LeaveOnForeignId
            BY <1>1 DEF LeaveOnForeignId, ReceiverStateOK
        <3>5. QED
            BY <1>10, <2>2, <3>2, <3>3, <3>4 DEF DeliverSubPacket
    <2>3. CASE ~(rProc.running /\ ~TimedOut)
        BY <1>6, <1>10, <2>3 DEF DeliverSubPacket
    <2>4. QED
        BY <2>2, <2>3
<1>11. QED
    BY <1>1, <1>7, <1>8, <1>9, <1>10 DEF DeliverToReceiver

\* A frame sent or refused, of a mask of which the receiver has nothing and nothing is in flight.
LEMMA OnceFrame ==
    ASSUME TypeOK, Sending(net), UNCHANGED receiver,
           NEW t \in TxType, NEW accepted \in BOOLEAN, SendFrame(t, accepted),
           t.mask # {}, t.mask \subseteq LowBits(t.num), t.mask \cap rx.mask = {}, ~RequestWaits',
           \A m \in BagToSet(net) :
               /\ net[m] = 1 /\ m.type # "request"
               /\ m.type = "subpacket" =>
                      /\ m.idx \notin rx.mask /\ m.idx \notin t.mask
                      /\ Waiting("subpacket") => m.idx # subData.idx,
           Waiting("subpacket") => subData.idx \notin rx.mask /\ subData.idx \notin t.mask
    PROVE  Once'
<1> DEFINE f == NextFrame(t)
<1>1. /\ UNCHANGED <<rx, subData>> /\ (Waiting("subpacket")' <=> Waiting("subpacket"))
    BY DEF receiver, Waiting
<1>2. f.type = "subpacket" /\ f.idx \in t.mask
    BY FrameOfMask DEF NextFrame, SubPacket
<1> HIDE DEF f
<1>3. CASE accepted
    <2>1. out' = <<f>> /\ tx' = [t EXCEPT !.mask = @ \ {f.idx}]
        BY <1>3, Zenon DEF SendFrame, f
    <2>2. tx'.mask = t.mask \ {f.idx}
        BY <2>1 DEF TxType
    <2>3. f \notin BagToSet(net)
        BY <1>2
    <2>4. /\ BagToSet(net') = BagToSet(net) \cup {f}
          /\ net'[f] = 1 /\ \A x \in BagToSet(net) : net'[x] = net[x]
        BY <1>2, <2>1, <2>3, OneMore
    <2>5. \A m \in BagToSet(net') :
              /\ net'[m] = 1 /\ m.type # "request"
              /\ m.type = "subpacket" =>
                     /\ m.idx \notin rx.mask /\ m.idx \notin tx'.mask
                     /\ Waiting("subpacket") => m.idx # subData.idx
        BY <1>2, <2>2, <2>4
    <2>6. tx'.mask \cap rx.mask = {} /\ (Waiting("subpacket") => subData.idx \notin tx'.mask)
        BY <2>2
    <2>7. QED
        BY <1>1, <2>5, <2>6 DEF Once
<1>4. CASE ~accepted
    <2>1. out' = <<>> /\ tx' = t
        BY <1>4, Zenon DEF SendFrame
    <2>2. BagToSet(net') = BagToSet(net) /\ \A x \in BagToSet(net') : net'[x] = net[x]
        <3>1. Datagrams(out') = {} /\ out' \in Seq(SenderOutputs)
            BY <2>1 DEF Datagrams
        <3>2. QED
            BY <3>1, NoneMore
    <2>3. QED
        BY <1>1, <2>1, <2>2 DEF Once
<1>5. QED
    BY <1>3, <1>4

\* A step that sends nothing and leaves less to send.
LEMMA OnceSilent ==
    ASSUME TypeOK, Once, rProc.running, UNCHANGED receiver, ~RequestWaits',
           BagToSet(net') \subseteq BagToSet(net), \A m \in BagToSet(net') : net'[m] = net[m],
           sending' => sending /\ tx'.mask = tx.mask
    PROVE  Once'
<1>1. /\ UNCHANGED <<rx, subData>> /\ (Waiting("subpacket")' <=> Waiting("subpacket"))
    BY DEF receiver, Waiting
<1>2. NobodySends => NobodySends'
    BY <1>1 DEF NobodySends
<1>3. ASSUME NEW m \in BagToSet(net')
      PROVE  /\ net'[m] = 1
             /\ m.type = "request" =>
                    /\ BagToSet(net') = {m} /\ NobodySends' /\ ~RequestWaits'
                    /\ m.mask \cap rx'.mask = {}
             /\ m.type = "subpacket" =>
                    /\ m.idx \notin rx'.mask
                    /\ sending' => m.idx \notin tx'.mask
                    /\ Waiting("subpacket")' => m.idx # subData'.idx
    <2>1. m \in BagToSet(net)
        BY <1>3
    <2>2. net'[m] = 1
        BY <1>3, <2>1 DEF Once
    <2>3. m.type = "request" =>
              BagToSet(net') = {m} /\ NobodySends' /\ m.mask \cap rx'.mask = {}
        BY <1>1, <1>2, <1>3, <2>1 DEF Once
    <2>4. m.type = "subpacket" =>
              /\ m.idx \notin rx'.mask
              /\ sending' => m.idx \notin tx'.mask
              /\ Waiting("subpacket")' => m.idx # subData'.idx
        BY <1>1, <2>1 DEF Once
    <2>5. QED
        BY <2>2, <2>3, <2>4
<1>4. Waiting("subpacket")' => /\ subData'.idx \notin rx'.mask
                               /\ sending' => subData'.idx \notin tx'.mask
    BY <1>1 DEF Once
<1>5. sending' => tx'.mask \cap rx'.mask = {}
    BY <1>1 DEF Once
<1>6. QED
    BY <1>3, <1>4, <1>5 DEF Once

\* The sender works on a transmission.  No request finds one going on.
LEMMA OnceSenderDelivers ==
    ASSUME OnceInv, SenderDelivers
    PROVE  Once'
<1> SUFFICES ASSUME rProc'.running PROVE Once'
    BY DEF Once
<1>1. /\ TypeOK /\ SenderStateOK /\ Prompted /\ Once /\ AloneInv /\ DeliverToSender
      /\ Sending(net) /\ UNCHANGED receiver /\ rProc.running
    BY DEF OnceInv, QuietInv, AloneInv, SystemInv, TypeOK, SenderDelivers, receiver
<1>2. ~RequestWaits' /\ out' \in Seq(SenderOutputs)
    BY <1>1, DeliveryLeavesNoRequest, DeliverType DEF SenderTypeOK
<1>3. ASSUME out' = <<>>, sending' => sending /\ tx'.mask = tx.mask
      PROVE  Once'
    <2>1. Datagrams(out') = {}
        BY <1>3 DEF Datagrams
    <2>2. BagToSet(net') = BagToSet(net) /\ \A m \in BagToSet(net') : net'[m] = net[m]
        BY <1>1, <1>2, <2>1, NoneMore
    <2>3. QED
        BY <1>1, <1>2, <1>3, <2>2, OnceSilent
<1>4. Wakes => sending
    BY <1>1 DEF Wakes, AloneInv, SystemInv, SendingInv, NoStuckSending
<1>5. CASE DeliverPeriod
    <2>1. CASE ~Wakes
        BY <1>3, <1>5, <2>1 DEF DeliverPeriod
    <2>2. CASE Wakes /\ Done
        <3>1. out' = <<>> /\ ~sending'
            BY <1>5, <2>2, Zenon DEF DeliverPeriod, Resume, FinishSending
        <3>2. QED
            BY <1>3, <3>1
    <2>3. CASE Wakes /\ ~Done
        <3>1. PICK accepted \in BOOLEAN : SendFrame(tx, accepted)
            BY <1>5, <2>3, Zenon DEF DeliverPeriod, Resume
        <3>2. sending /\ tx.mask # {} /\ tx.mask \cap rx.mask = {}
            BY <1>1, <1>4, <2>3 DEF Done, Once
        <3>3. tx \in TxType /\ tx.mask \subseteq LowBits(tx.num)
            BY <1>1, <3>2, MasksOfPacket
        <3>4. \A m \in BagToSet(net) :
                  /\ net[m] = 1 /\ m.type # "request"
                  /\ m.type = "subpacket" =>
                         /\ m.idx \notin rx.mask /\ m.idx \notin tx.mask
                         /\ Waiting("subpacket") => m.idx # subData.idx
            BY <1>1, <3>2 DEF Once, NobodySends
        <3>5. Waiting("subpacket") => subData.idx \notin rx.mask /\ subData.idx \notin tx.mask
            BY <1>1, <3>2 DEF Once
        <3>6. QED
            BY <1>1, <1>2, <3>1, <3>2, <3>3, <3>4, <3>5, OnceFrame
    <2>4. QED
        BY <2>1, <2>2, <2>3
<1>6. CASE DeliverRequested
    <2>1. RequestWaits
        BY <1>1, <1>6 DEF DeliverRequested, RequestWaits, SenderStateOK
    <2>2. BagToSet(net) = {} /\ ~sending /\ ~Waiting("subpacket") /\ reqData.mask \cap rx.mask = {}
        BY <1>1, <2>1 DEF Once, NobodySends
    <2>3. StartSending
        BY <1>6, <2>2 DEF DeliverRequested, TakeOverSending, TakeOverAfterFrame
    <2>4. CASE reqData.mask = {}
        <3>1. out' = <<>> /\ ~sending'
            BY <2>3, <2>4, Zenon DEF StartSending, FinishSending
        <3>2. QED
            BY <1>3, <3>1
    <2>5. CASE reqData.mask # {}
        <3>1. PICK accepted \in BOOLEAN : SendFrame(Requested(tx), accepted)
            BY <2>3, <2>5, Zenon DEF StartSending
        <3>2. /\ Requested(tx) \in TxType /\ Requested(tx).mask = reqData.mask
              /\ Requested(tx).mask \subseteq LowBits(Requested(tx).num)
            BY <1>1, <2>1, MasksOfPacket
        <3>3. Requested(tx).mask # {} /\ Requested(tx).mask \cap rx.mask = {}
            BY <2>2, <2>5, <3>2
        <3>4. QED
            BY <1>1, <1>2, <2>2, <3>1, <3>2, <3>3, OnceFrame
    <2>6. QED
        BY <2>4, <2>5
<1>7. QED
    BY <1>1, <1>5, <1>6 DEF DeliverToSender

\* Either timer goes off.
LEMMA OnceTimesOut ==
    ASSUME OnceInv, ReceiverTimesOut \/ SenderTimesOut
    PROVE  Once'
<1>1. /\ TypeOK /\ ReceiverStateOK /\ SenderStateOK /\ Once
      /\ UNCHANGED <<rx, rProc, subData, tx, sending, reqData, net>>
    BY DEF OnceInv, QuietInv, AloneInv, SystemInv, TypeOK, ReceiverTimesOut, ReceiverTimerExpires,
        SenderTimesOut, SenderTimerExpires, receiver, sender
<1>2. Waiting("subpacket")' <=> Waiting("subpacket")
    <2>1. CASE ReceiverTimesOut
        <3>1. rQueue' = Post(rQueue, "timer") /\ "timer" \in ReceiverEvents
            BY <2>1 DEF ReceiverTimesOut, ReceiverTimerExpires, Post, ReceiverEvents
        <3>2. QED
            BY <1>1, <3>1, PostStays
    <2>2. CASE SenderTimesOut
        BY <2>2 DEF SenderTimesOut, receiver, Waiting
    <2>3. QED
        BY <2>1, <2>2
<1>3. RequestWaits' <=> RequestWaits
    <2>1. CASE ReceiverTimesOut
        BY <2>1 DEF ReceiverTimesOut, sender, RequestWaits
    <2>2. CASE SenderTimesOut
        <3>1. sQueue' = Append(sQueue, "timer")
            BY <2>2 DEF SenderTimesOut, SenderTimerExpires
        <3>2. QED
            BY <1>1, <3>1 DEF RequestWaits, SenderStateOK
    <2>3. QED
        BY <2>1, <2>2
<1>4. BagToSet(net') = BagToSet(net) /\ (NobodySends' <=> NobodySends)
    BY <1>1, <1>2 DEF BagToSet, NobodySends
<1>5. QED
    BY <1>1, <1>2, <1>3, <1>4 DEF Once

\* A datagram that arrives waits as it was on its way, and is in flight no more.
LEMMA OnceArrives ==
    ASSUME OnceInv, OnePacketAtATime, Prompt, NEW m \in BagToSet(net), Arrives(m)
    PROVE  Once'
<1> SUFFICES ASSUME rProc'.running PROVE Once'
    BY DEF Once
<1>1. /\ TypeOK /\ Once /\ AloneInv /\ NetCurrent /\ rQueue = <<>> /\ sQueue = <<>>
      /\ net' = BagRemove(net, m)
    BY DEF OnceInv, QuietInv, AloneInv, SystemInv, Arrives
<1>2. /\ ~Waiting("subpacket") /\ ~RequestWaits /\ rProc.running
      /\ UNCHANGED <<rx, rProc, tx, sending>>
    BY <1>1 DEF Waiting, RequestWaits, Arrives, HandleSignal, HandleSubPacket, HandleRequest, receiver, sender
<1>3. /\ BagToSet(net') = BagToSet(net) \ {m} /\ \A x \in BagToSet(net') : net'[x] = net[x]
      /\ \A x \in BagToSet(net') : net'[x] = 1
    <2>1. \A x \in BagToSet(net) : net[x] = 1
        BY <1>1, <1>2 DEF Once
    <2>2. BagToSet(net') = BagToSet(net) \ {m} /\ \A x \in BagToSet(net') : net'[x] = net[x]
        BY <1>1, <2>1, OneLess
    <2>3. QED
        BY <2>1, <2>2
<1>4. CASE m.type = "signal"
    BY <1>1, <1>2, <1>4 DEF AloneInv, OneSignal, SignalInFlight
<1>5. CASE m.type = "subpacket" /\ HandleSubPacket(m) /\ UNCHANGED sender
    <2>1. rQueue' = <<"subpacket">> /\ subData' = m /\ ~RequestWaits'
        BY <1>1, <1>2, <1>5, QueueAssumption DEF HandleSubPacket, Post, RequestWaits, sender
    <2>2. \A x \in BagToSet(net) : x.type # "request"
        BY <1>1, <1>2, <1>5 DEF Once
    <2>3. ASSUME NEW x \in BagToSet(net'), x.type = "subpacket"
          PROVE  x.idx # m.idx
        <3>1. x # m /\ x = SubPacketOf(packetId, x.idx) /\ m = SubPacketOf(packetId, m.idx)
            BY <1>1, <1>3, <1>5, <2>3 DEF NetCurrent, Current, Belongs
        <3>2. QED
            BY <3>1
    <2>4. m.idx \notin rx.mask /\ (sending => m.idx \notin tx.mask)
        BY <1>1, <1>2, <1>5 DEF Once
    <2>5. \A x \in BagToSet(net') : x.type = "subpacket" =>
              x.idx \notin rx.mask /\ (sending => x.idx \notin tx.mask)
        BY <1>1, <1>2, <1>3 DEF Once
    <2>6. sending => tx.mask \cap rx.mask = {}
        BY <1>1, <1>2 DEF Once
    <2>7. \A x \in BagToSet(net') : x.type # "request"
        BY <1>3, <2>2
    <2>8. QED
        BY <1>2, <1>3, <2>1, <2>3, <2>4, <2>5, <2>6, <2>7 DEF Once
<1>6. CASE m.type = "request" /\ HandleRequest(m) /\ UNCHANGED receiver
    <2>1. reqData' = m /\ ~Waiting("subpacket")'
        BY <1>2, <1>6 DEF HandleRequest, receiver, Waiting
    <2>2. BagToSet(net) = {m} /\ ~sending /\ m.mask \cap rx.mask = {}
        BY <1>1, <1>2, <1>6 DEF Once, NobodySends
    <2>3. BagToSet(net') = {}
        BY <1>3, <2>2
    <2>4. QED
        BY <1>2, <2>1, <2>2, <2>3 DEF Once, NobodySends
<1>7. QED
    BY <1>4, <1>5, <1>6 DEF Arrives

\* A datagram lost is on its way no more.
LEMMA OnceLoses ==
    ASSUME OnceInv, NEW m \in BagToSet(net), Loses(m)
    PROVE  Once'
<1> SUFFICES ASSUME rProc'.running PROVE Once'
    BY DEF Once
<1>1. /\ TypeOK /\ Once /\ net' = BagRemove(net, m) /\ UNCHANGED <<receiver, sender>> /\ rProc.running
    BY DEF OnceInv, QuietInv, AloneInv, SystemInv, Loses, receiver
<1>2. BagToSet(net') = BagToSet(net) \ {m} /\ \A x \in BagToSet(net') : net'[x] = net[x]
    <2>1. net[m] = 1
        BY <1>1 DEF Once
    <2>2. QED
        BY <1>1, <2>1, OneLess
<1>3. CASE ~RequestWaits
    BY <1>1, <1>2, <1>3, OnceSilent DEF sender, RequestWaits
<1>4. CASE RequestWaits
    BY <1>1, <1>4 DEF Once
<1>5. QED
    BY <1>3, <1>4

LEMMA OnceStep ==
    ASSUME OnceInv, OnePacketAtATime, Prompt, MaxDuplicates = 0, Next
    PROVE  Once'
<1>1. TypeOK /\ ~SenderRestarts /\ \A m : ~Duplicates(m)
    BY SystemAssumption
    DEF SenderRestarts, Duplicates, OnePacketAtATime, OnceInv, QuietInv, AloneInv, SystemInv, TypeOK, Faults
<1>2. CASE ReceiverRestarts \/ SenderNotifies
    <2>1. ~rProc'.running
        BY <1>2 DEF ReceiverRestarts, ReceiverReset, SenderNotifies, OnePacketAtATime, receiver
    <2>2. QED
        BY <2>1 DEF Once
<1>3. QED
    BY <1>1, <1>2, OnceDelivery, OnceTimesOut, OnceSenderDelivers, OnceArrives, OnceLoses DEF Next, Arrival

LEMMA OnceInvariant ==
    ASSUME OnePacketAtATime, Prompt, Patient, MaxDuplicates = 0
    PROVE  Spec => []OnceInv
<1>1. Init => Prompted /\ Once
    BY DEF Init, ReceiverInit, SenderInit, Prompted, Once
<1>2. QuietInv /\ Prompted /\ Once /\ [Next]_vars => (Prompted /\ Once)'
    <2>1. ASSUME UNCHANGED vars, Prompted, Once
          PROVE  (Prompted /\ Once)'
        <3>1. UNCHANGED <<receiver, sender, net>>
            BY <2>1 DEF vars
        <3>2. QED
            BY <2>1, <3>1
            DEF Prompted, Once, NobodySends, Waiting, RequestWaits, receiver, sender, BagToSet
    <2>2. QuietInv => TypeOK
        BY DEF QuietInv, AloneInv, SystemInv
    <2>3. QED
        BY <2>1, <2>2, PromptedStep, OnceStep DEF OnceInv
<1>3. QuietInv /\ Prompted /\ Once => OnceInv
    BY DEF OnceInv
<1>4. QED
    BY <1>1, <1>2, <1>3, QuietInvariant, PTL DEF Spec

-----------------------------------------------------------------------------
(***************************************************************************)
(* So the length counts each sub-packet received once, and cannot pass its *)
(* modulus when that has room for the longest packet.                      *)
(***************************************************************************)

LengthFits == SubpacketMaxBytes * MaxSubpackets < LenModulus

Counted == rx.len = BytesOf(rx.mask, rx.id)

CountInv == OnceInv /\ Counted

\* A reception going on has room for one more sub-packet.
LEMMA RoomForOneMore ==
    ASSUME OnceInv, rProc.running
    PROVE  /\ BytesOf(rx.mask, rx.id) \in Nat
           /\ BytesOf(rx.mask, rx.id) + SubpacketMaxBytes <= SubpacketMaxBytes * MaxSubpackets
<1>1. ReceiverStateOK /\ Coherent
    BY DEF OnceInv, QuietInv, AloneInv, SystemInv, TypeOK
<1>2. rx.id \in PacketIds /\ rx.mask \in Masks
    BY <1>1 DEF ReceiverStateOK
<1>3. rx.mask # Indices
    BY <1>1 DEF Coherent, LowBits
<1>4. QED
    BY <1>2, <1>3, BytesOfBound

\* A sub-packet taken was not received before.
LEMMA TakeCounts ==
    ASSUME CountInv, LengthFits, rProc.running, NextEvent("subpacket"), TakeSubPacket
    PROVE  Counted'
<1> DEFINE i == subData.idx
           size == SubPacketOf(rx.id, i).size
           bytes == BytesOf(rx.mask, rx.id)
           room == SubpacketMaxBytes * MaxSubpackets
<1>1. /\ ReceiverStateOK /\ Coherent /\ Once /\ Waiting("subpacket")
    BY HeadWaits DEF CountInv, OnceInv, QuietInv, AloneInv, SystemInv, TypeOK
<1>2. /\ subData = SubPacketOf(rx.id, i) /\ i \in LowBits(subData.num) /\ i \notin rx.mask
      /\ subData \in SubPackets /\ rx.id \in PacketIds /\ rx.mask \in Masks
    BY <1>1 DEF Coherent, Once, TakeSubPacket, ReceiverStateOK
<1>3. subData.num = NumSubPackets(PacketLen[rx.id]) /\ subData.size = size
    BY <1>2 DEF SubPacketOf, SubPacket
<1>4. size \in 0..SubpacketMaxBytes
    BY <1>2, <1>3 DEF SubPackets
<1>5. rx'.id = rx.id /\ rx'.mask = rx.mask \cup {i} /\ rx'.len = (rx.len + size) % LenModulus
    BY <1>1, <1>3 DEF TakeSubPacket, ReceiverStateOK
<1>6. BytesOf(rx.mask \cup {i}, rx.id) = bytes + size
    BY <1>2, <1>3, BytesOfOneMore
<1>7. rx.len = bytes /\ bytes \in Nat /\ bytes + SubpacketMaxBytes <= room
    BY RoomForOneMore DEF CountInv, Counted
<1>8. room < LenModulus /\ room \in Nat /\ LenModulus \in Nat \ {0} /\ SubpacketMaxBytes \in Nat
    BY SizeAssumption, ReceiverAssumption DEF LengthFits
<1> HIDE DEF i, size, bytes, room
<1>9. bytes + size \in Nat /\ bytes + size < LenModulus
    BY <1>4, <1>7, <1>8
<1>10. \A a \in Nat, n \in Nat \ {0} : a < n => a % n = a
    OBVIOUS
<1>11. rx'.len = bytes + size
    BY <1>5, <1>7, <1>8, <1>9, <1>10
<1>12. QED
    BY <1>5, <1>6, <1>11 DEF Counted

LEMMA CountedStep ==
    ASSUME CountInv, LengthFits, Next
    PROVE  Counted'
<1>1. TypeOK /\ ReceiverStateOK
    BY DEF CountInv, OnceInv, QuietInv, AloneInv, SystemInv, TypeOK
<1>2. UNCHANGED rx => Counted'
    BY DEF CountInv, Counted
<1>3. StartReception \/ ReceiverReset => rx'.mask = {} /\ rx'.len = 0
    BY DEF StartReception, ReceiverReset
<1>4. StartReception \/ ReceiverReset => Counted'
    BY <1>3, BytesOfNone DEF Counted
<1>5. CASE ReceiverStep(Signals, SubPackets)
    <2>1. CASE DeliverSubPacket
        BY <1>2, <2>1, TakeCounts DEF DeliverSubPacket, DiscardSubPacket, LeaveOnForeignId
    <2>2. CASE ~DeliverSubPacket
        BY <1>2, <1>4, <1>5, <2>2
        DEF ReceiverStep, HandleSignal, HandleSubPacket, ReceiverTimerExpires, DeliverToReceiver,
            DeliverTimeout, DeliverSignaled, RefuseSignal, DeliverReceived
    <2>3. QED
        BY <2>1, <2>2
<1>6. CASE UNCHANGED receiver
    BY <1>2, <1>6 DEF receiver
<1>7. QED
    BY <1>1, <1>5, <1>6, StepOfAny

LEMMA CountInvariant ==
    ASSUME OnePacketAtATime, Prompt, Patient, MaxDuplicates = 0, LengthFits
    PROVE  Spec => []CountInv
<1>1. Init => Counted
    <2>1. Init => rx.mask = {} /\ rx.len = 0
        BY DEF Init, ReceiverInit
    <2>2. QED
        BY <2>1, BytesOfNone DEF Counted
<1>2. OnceInv /\ Counted /\ [Next]_vars => Counted'
    <2>1. UNCHANGED vars /\ Counted => Counted'
        BY DEF vars, receiver, Counted
    <2>2. QED
        BY <2>1, CountedStep DEF CountInv
<1>3. OnceInv /\ Counted => CountInv
    BY DEF CountInv
<1>4. QED
    BY <1>1, <1>2, <1>3, OnceInvariant, PTL DEF Spec

\* "Large packet received, %d bytes" prints the length of the packet: when the nodes deliver
\* their events before the next datagram comes, the time-out is longer than anything is on its
\* way and the network duplicates nothing, no sub-packet is counted twice, whatever is lost or
\* refused and however often the receiver asks again or restarts.
THEOREM CountsHold ==
    ASSUME OnePacketAtATime, Prompt, Patient, MaxDuplicates = 0, LengthFits
    PROVE  Spec => []CountsEachByteOnce
<1>1. CountInv => CountsEachByteOnce
    <2> SUFFICES ASSUME CountInv, rx.num > 0, rx.mask = 0..(rx.num - 1)
                 PROVE  rx.len = PacketLen[rx.id]
        BY DEF CountsEachByteOnce
    <2>1. ReceiverStateOK /\ Coherent /\ Counted
        BY DEF CountInv, OnceInv, QuietInv, AloneInv, SystemInv, TypeOK
    <2>2. rx.id \in PacketIds /\ rx.num \in Nat
        BY <2>1 DEF ReceiverStateOK
    <2>3. FitsMask(rx.num) /\ rx.num = NumSubPackets(PacketLen[rx.id])
        BY <2>1 DEF Coherent
    <2>4. LowBits(rx.num) = 0..(rx.num - 1)
        BY <2>2, <2>3, LowBitsExact
    <2>5. QED
        BY <2>1, <2>2, <2>3, <2>4, BytesOfAll DEF Counted
<1>2. QED
    BY <1>1, CountInvariant, PTL

\* Bytes counted once leave room for one sub-packet more while a reception goes on.
LEMMA RoomHolds ==
    ASSUME LengthFits
    PROVE  CountInv => NoOverflow
<1> SUFFICES ASSUME CountInv, rProc.running
             PROVE  rx.len + SubpacketMaxBytes < LenModulus
    BY DEF NoOverflow
<1> DEFINE bytes == BytesOf(rx.mask, rx.id)
           room == SubpacketMaxBytes * MaxSubpackets
<1>1. rx.len = bytes /\ bytes \in Nat /\ bytes + SubpacketMaxBytes <= room
    BY RoomForOneMore DEF CountInv, Counted
<1>2. room < LenModulus /\ room \in Nat /\ LenModulus \in Nat /\ SubpacketMaxBytes \in Nat
    BY SizeAssumption, ReceiverAssumption DEF LengthFits
<1> HIDE DEF bytes, room
<1>3. QED
    BY <1>1, <1>2

\* What large_packet_monitor_proc prints is one whole packet of the sender, with nothing assumed of
\* the length counted, although sub-packets are lost, refused, discarded and asked for again and
\* the receiver restarts in between: the '\0' it writes at that length spoils no byte.
THEOREM CarefulDisplaysHold ==
    ASSUME OnePacketAtATime, Prompt, Patient, MaxDuplicates = 0, LengthFits
    PROVE  Spec => DisplaysWholePacket
<1>1. CountInv => NoOverflow
    BY RoomHolds
<1>2. Spec => []CountInv
    BY CountInvariant
<1>3. Spec /\ []NoOverflow => DisplaysWholePacket
    BY DisplaysHolds
<1>4. QED
    BY <1>1, <1>2, <1>3, PTL

\* The service again, with nothing assumed of the length counted: nodes that deliver their
\* events before the next datagram comes, and time out when nothing is on its way, display the
\* packet received or miss it with its signal, or give it up after more losses than re-requests,
\* unless the network duplicates or the fault injection drops what came.
THEOREM CarefulServiceKept ==
    ASSUME CarefulNodes, MaxDuplicates = 0, LengthFits
    PROVE  Spec => KeepsService
<1>1. OnePacketAtATime /\ Prompt /\ Patient /\ ~FaultInjection
    BY DEF CarefulNodes
<1>2. CountInv => NoOverflow
    BY RoomHolds
<1>3. Spec => []CountInv
    BY <1>1, CountInvariant
<1>4. Spec /\ []NoOverflow => KeepsService
    BY <1>1, ServiceKept
<1>5. QED
    BY <1>2, <1>3, <1>4, PTL
=============================================================================
