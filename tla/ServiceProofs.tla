------------------------------ MODULE ServiceProofs ------------------------------
(***************************************************************************)
(* The two nodes implement the abstract service, for every value of their  *)
(* constants.                                                              *)
(***************************************************************************)
EXTENDS SystemProofs

-----------------------------------------------------------------------------
(***************************************************************************)
(* Between two receptions.  A signal travels alone: nothing of the packet  *)
(* before is left, and nothing of its own is sent until a reception starts *)
(* for it.  So the receiver's queue has room for it, and it is not lost    *)
(* other than by the network.  A packet announced is the one received.     *)
(***************************************************************************)

IdleIsUntimed == ~rProc.running => rTimer # "set"

AnnouncedOnce ==
    \A j, k \in 1..Len(rQueue) : rQueue[j] = "received" /\ rQueue[k] = "received" => j = k

Announced ==
    /\ AnnouncedOnce
    /\ Waiting("received") => ~rProc.running /\ rx.id = packetId

SignalAlone ==
    /\ SignalInFlight => rQueue = <<>>
    /\ SignalInFlight \/ Waiting("signaled") =>
           /\ \A m \in BagToSet(net) : m.type = "signal"
           /\ sQueue = <<>> /\ ~sending

AloneInv == SystemInv /\ OneSignal /\ IdleIsUntimed /\ Announced /\ SignalAlone

\* The timer stops with the process.
LEMMA UntimedStep ==
    ASSUME ReceiverStateOK, IdleIsUntimed, ReceiverStep(Signals, SubPackets)
    PROVE  IdleIsUntimed'
<1>1. CASE CheckTimeout
    BY <1>1 DEF CheckTimeout, Rerequest, GiveUp, TimedOut, IdleIsUntimed, ReceiverStateOK
<1>2. CASE DeliverSubPacket
    BY <1>1, <1>2 DEF DeliverSubPacket, DiscardSubPacket, LeaveOnForeignId, TakeSubPacket,
        IdleIsUntimed, ReceiverStateOK
<1>3. CASE StartReception \/ ReceiverReset \/ ReceiverTimerExpires
    BY <1>3 DEF StartReception, ReceiverReset, ReceiverTimerExpires, IdleIsUntimed
<1>4. QED
    BY <1>1, <1>2, <1>3
    DEF ReceiverStep, HandleSignal, HandleSubPacket, DeliverToReceiver, DeliverTimeout,
        DeliverSignaled, RefuseSignal, DeliverReceived, IdleIsUntimed

\* No second announcement joins a first.
LEMMA AnnouncedOncePost ==
    ASSUME NEW q \in Seq(ReceiverEvents), NEW e \in ReceiverEvents, rQueue' = Post(q, e),
           \A j, k \in 1..Len(q) : q[j] = "received" /\ q[k] = "received" => j = k,
           e # "received" \/ \A k \in 1..Len(q) : q[k] # "received"
    PROVE  AnnouncedOnce'
BY DEF AnnouncedOnce, Post

\* The announcement delivered was the last.
LEMMA AnnouncedOnceTail ==
    ASSUME ReceiverStateOK, AnnouncedOnce, rQueue # <<>>
    PROVE  /\ Tail(rQueue) \in Seq(ReceiverEvents)
           /\ \A j, k \in 1..Len(Tail(rQueue)) :
                  Tail(rQueue)[j] = "received" /\ Tail(rQueue)[k] = "received" => j = k
           /\ \A k \in 1..Len(Tail(rQueue)) : Tail(rQueue)[k] = "received" =>
                  Waiting("received") /\ rQueue[1] # "received"
<1>1. Tail(rQueue) \in Seq(ReceiverEvents)
    BY DEF ReceiverStateOK
<1>2. \A k \in 1..Len(Tail(rQueue)) :
          k + 1 \in 1..Len(rQueue) /\ Tail(rQueue)[k] = rQueue[k + 1]
    BY DEF ReceiverStateOK
<1>3. 1 \in 1..Len(rQueue)
    BY DEF ReceiverStateOK
<1>4. \A k \in 1..Len(Tail(rQueue)) : k + 1 # 1
    OBVIOUS
<1>5. \A j, k \in 1..Len(Tail(rQueue)) : j + 1 = k + 1 => j = k
    OBVIOUS
<1>6. QED
    BY <1>1, <1>2, <1>3, <1>4, <1>5 DEF AnnouncedOnce, Waiting

\* A packet announced is closed, and is the one the sender signaled last.
LEMMA AnnouncedStep ==
    ASSUME SystemInv, OneSignal, Announced, ReceiverStep(Signals, SubPackets), UNCHANGED packetId
    PROVE  Announced'
<1>1. ReceiverStateOK /\ ReceiverCurrent
    BY DEF SystemInv, TypeOK
<1>2. ASSUME NEW e \in ReceiverEvents, e # "received", rQueue' = Post(rQueue, e),
             UNCHANGED <<rx, rProc>>
      PROVE  Announced'
    <2>1. AnnouncedOnce'
        BY <1>1, <1>2, AnnouncedOncePost DEF Announced, AnnouncedOnce, ReceiverStateOK
    <2>2. Waiting("received")' => Waiting("received")
        BY <1>1, <1>2, PostWaits
    <2>3. QED
        BY <1>2, <2>1, <2>2 DEF Announced
<1>3. CASE \/ \E m \in Signals : HandleSignal(m)
           \/ \E m \in SubPackets : HandleSubPacket(m)
           \/ ReceiverTimerExpires
    BY <1>2, <1>3 DEF HandleSignal, HandleSubPacket, ReceiverTimerExpires, Post, ReceiverEvents
<1>4. ASSUME rQueue # <<>>, rQueue' = Tail(rQueue),
             Waiting("received") => UNCHANGED rx /\ ~rProc'.running
      PROVE  Announced'
    <2>1. AnnouncedOnce'
        BY <1>1, <1>4, AnnouncedOnceTail DEF Announced, AnnouncedOnce
    <2>2. Waiting("received")' => Waiting("received")
        BY <1>1, <1>4, TailWaits
    <2>3. QED
        BY <1>4, <2>1, <2>2 DEF Announced
<1>5. ASSUME rQueue # <<>>, rQueue' = Tail(rQueue), UNCHANGED rx, CheckTimeout
      PROVE  Announced'
    BY <1>1, <1>4, <1>5, CheckTimeoutStops DEF Announced
<1>6. CASE DeliverSubPacket
    <2>1. rQueue # <<>>
        BY <1>6 DEF DeliverSubPacket, NextEvent
    <2>2. CASE rProc.running /\ rQueue' = Tail(rQueue)
        BY <1>4, <2>1, <2>2 DEF Announced
    <2>3. CASE rProc.running /\ TakeSubPacket /\ rQueue' = Post(Tail(rQueue), "received")
                   /\ ~rProc'.running
        <3>1. ~Waiting("received") /\ rx.id = packetId
            BY <1>1, <2>3 DEF Announced, ReceiverCurrent
        <3>2. AnnouncedOnce'
            <4>1. \A k \in 1..Len(Tail(rQueue)) : Tail(rQueue)[k] # "received"
                BY <1>1, <2>1, <3>1, AnnouncedOnceTail DEF Announced
            <4>2. Tail(rQueue) \in Seq(ReceiverEvents)
                BY <1>1, <2>1 DEF ReceiverStateOK
            <4>3. QED
                BY <2>3, <4>1, <4>2, AnnouncedOncePost DEF ReceiverEvents
        <3>3. rx'.id = rx.id
            BY <1>1, <2>3 DEF TakeSubPacket, ReceiverStateOK
        <3>4. QED
            BY <2>3, <3>1, <3>2, <3>3 DEF Announced
    <2>4. rProc' = [rProc EXCEPT !.running = FALSE] => ~rProc'.running
        BY <1>1 DEF ReceiverStateOK
    <2>5. QED
        BY <1>5, <1>6, <2>1, <2>2, <2>3, <2>4
        DEF DeliverSubPacket, DiscardSubPacket, LeaveOnForeignId, TakeSubPacket
<1>7. CASE DeliverSignaled
    <2>1. rQueue # <<>> /\ rQueue' = Tail(rQueue) /\ ~Waiting("received")
        BY <1>1, <1>7, HeadWaits DEF DeliverSignaled, OneSignal
    <2>2. QED
        BY <1>4, <2>1
<1>8. CASE DeliverTimeout \/ DeliverReceived
    BY <1>5, <1>8 DEF DeliverTimeout, DeliverReceived, NextEvent
<1>9. CASE ReceiverReset
    BY <1>9 DEF ReceiverReset, Announced, AnnouncedOnce, Waiting
<1>10. QED
    BY <1>3, <1>6, <1>7, <1>8, <1>9 DEF ReceiverStep, DeliverToReceiver

\* A packet is signaled when all is silent, and the signal finds it so.
LEMMA SignalSentAlone ==
    ASSUME AloneInv, OnePacketAtATime, SenderNotifies
    PROVE  SignalAlone'
<1>1. TypeOK /\ Notify /\ Sending(net) /\ UNCHANGED receiver
    BY DEF AloneInv, SystemInv, SenderNotifies
<1>2. DOMAIN net = {} /\ rQueue = <<>> /\ sQueue = <<>> /\ ~sending
    BY DEF SenderNotifies, OnePacketAtATime, NothingOnItsWay, EmptyBag, SetToBag
<1>3. UNCHANGED <<rQueue, sQueue, sending>>
    BY <1>1 DEF Notify, NoRoot, RootWithoutRoute, RootWithRoute, RouteEstablished, sendVars, receiver
<1>4. \A m \in BagToSet(net') : m.type = "signal"
    <2>1. out' \in Seq(SenderOutputs)
        BY <1>1, SenderTypeStep DEF SenderStep, SenderTypeOK, TypeOK
    <2>2. BagToSet(net') = Datagrams(out')
        BY <1>1, <1>2, <2>1, SendingType DEF TypeOK, BagToSet
    <2>3. out' = <<>> \/ \E id : out' = <<SignalOf(id)>>
        BY <1>1 DEF Notify, NoRoot, RootWithoutRoute, RootWithRoute, RouteEstablished, RegisterAndSignal
    <2>4. QED
        BY <2>2, <2>3 DEF Datagrams, SignalOf, Signal
<1>5. QED
    BY <1>2, <1>3, <1>4 DEF SignalAlone

\* While a signal is in flight nothing happens to the nodes but a restart of the receiver.
LEMMA SignalFliesAlone ==
    ASSUME AloneInv, OnePacketAtATime, Next, ~SenderNotifies, SignalInFlight'
    PROVE  SignalInFlight /\ ReceiverRestarts
<1>1. PICK s \in BagToSet(net') : s.type = "signal"
    BY DEF SignalInFlight
<1>2. s \in BagToSet(net) /\ net'[s] = net[s] /\ ~Arrives(s) /\ SignalInFlight
    BY <1>1, SignalsKept DEF AloneInv, SystemInv, OnePacketAtATime, SignalInFlight
<1>3. /\ \A m \in BagToSet(net) : m.type = "signal"
      /\ rQueue = <<>> /\ sQueue = <<>> /\ ~sending /\ ~rProc.running
    BY <1>2 DEF AloneInv, SignalAlone, OneSignal
<1>4. \A m \in BagToSet(net) : m = s
    BY <1>2, <1>3 DEF AloneInv, SystemInv, NetCurrent, Current, Belongs
<1>5. ~ReceiverDelivers /\ ~SenderDelivers
    BY <1>3 DEF ReceiverDelivers, DeliverToReceiver, DeliverTimeout, DeliverSubPacket, DeliverSignaled,
        DeliverReceived, NextEvent, SenderDelivers, DeliverToSender, DeliverPeriod, DeliverRequested
<1>6. ~ReceiverTimesOut /\ ~SenderTimesOut
    BY <1>3 DEF AloneInv, IdleIsUntimed, SystemInv, SendingInv, IdleIsTimerless,
        ReceiverTimesOut, ReceiverTimerExpires, SenderTimesOut, SenderTimerExpires
<1>7. ~SenderRestarts
    BY SystemAssumption DEF SenderRestarts, OnePacketAtATime, AloneInv, SystemInv, TypeOK, Faults
<1>8. ~Arrival /\ ~\E m \in BagToSet(net) : Loses(m) \/ Duplicates(m)
    <2>1. net[s] = 1 /\ IsABag(net) /\ s \in DOMAIN net
        BY <1>1, <1>2 DEF AloneInv, OneSignal, SystemInv, TypeOK, BagToSet
    <2>2. s \notin DOMAIN BagRemove(net, s)
        BY <2>1, BagRemoveType
    <2>3. QED
        BY <1>1, <1>2, <1>4, <2>2 DEF Arrival, Loses, Duplicates, OnePacketAtATime, BagToSet
<1>9. QED
    BY <1>2, <1>5, <1>6, <1>7, <1>8 DEF Next

\* A process that does not run asks for nothing when an event other than a signal is delivered.
LEMMA IdleAsksNothing ==
    ASSUME ReceiverStateOK, DeliverToReceiver, ~rProc.running, ~NextEvent("signaled")
    PROVE  Datagrams(out') = {}
<1>1. TimeoutRequest = <<>>
    BY DEF TimeoutRequest, TimedOut
<1>2. out' = <<>> \/ \E len, text : out' = <<Printed(len, text)>>
    BY <1>1 DEF DeliverToReceiver, DeliverTimeout, DeliverSubPacket, DeliverSignaled, DeliverReceived
<1>3. QED
    BY <1>2 DEF Datagrams, Printed

\* While a signal waits to be delivered only the receiver takes steps.
LEMMA SignalWaitsAlone ==
    ASSUME AloneInv, OnePacketAtATime, Next, ~SenderNotifies, Waiting("signaled")
    PROVE  /\ ReceiverDelivers \/ ReceiverRestarts
           /\ BagToSet(net) = {} /\ ~rProc.running
<1>1. BagToSet(net) = {} /\ sQueue = <<>> /\ ~sending /\ ~rProc.running
    BY DEF AloneInv, SignalAlone, OneSignal
<1>2. ~SenderDelivers
    BY <1>1 DEF SenderDelivers, DeliverToSender, DeliverPeriod, DeliverRequested
<1>3. ~ReceiverTimesOut /\ ~SenderTimesOut
    BY <1>1 DEF AloneInv, IdleIsUntimed, SystemInv, SendingInv, IdleIsTimerless,
        ReceiverTimesOut, ReceiverTimerExpires, SenderTimesOut, SenderTimerExpires
<1>4. ~SenderRestarts
    BY SystemAssumption DEF SenderRestarts, OnePacketAtATime, AloneInv, SystemInv, TypeOK, Faults
<1>5. QED
    BY <1>1, <1>2, <1>3, <1>4 DEF Next, Arrival

\* A "signaled" event comes only with the signal, which is then in flight no more.
LEMMA SignalArrives ==
    ASSUME AloneInv, OnePacketAtATime, Next, ~SenderNotifies, ~Waiting("signaled"),
           Waiting("signaled")'
    PROVE  /\ \E s \in BagToSet(net) : Arrives(s) /\ s.type = "signal" /\ HandleSignal(s)
           /\ SignalInFlight /\ BagToSet(net') = {} /\ UNCHANGED sender
<1>1. ReceiverStateOK
    BY DEF AloneInv, SystemInv, TypeOK
<1>2. ~UNCHANGED rQueue
    BY DEF Waiting
<1>3. ~DeliverToReceiver
    BY <1>1, DeliveryWaits
<1>4. \A e \in ReceiverEvents : rQueue' = Post(rQueue, e) => e = "signaled"
    BY <1>1, PostWaits
<1>5. ~ReceiverTimerExpires /\ ~ReceiverReset /\ \A m : ~HandleSubPacket(m)
    BY <1>4 DEF ReceiverTimerExpires, ReceiverReset, HandleSubPacket, Post, ReceiverEvents, Waiting
<1>6. PICK s \in BagToSet(net) : Arrives(s) /\ s.type = "signal" /\ HandleSignal(s) /\ UNCHANGED sender
    <2>1. Arrival
        BY <1>2, <1>3, <1>5
        DEF Next, ReceiverDelivers, ReceiverTimesOut, ReceiverRestarts, SenderDelivers, SenderTimesOut,
            SenderRestarts, Loses, Duplicates, receiver
    <2>2. QED
        BY <1>2, <1>5, <2>1 DEF Arrival, Arrives, receiver
<1>7. SignalInFlight
    BY <1>6 DEF SignalInFlight
<1>8. \A m \in BagToSet(net) : m = s
    BY <1>6, <1>7 DEF AloneInv, SignalAlone, SystemInv, NetCurrent, Current, Belongs
<1>9. BagToSet(net') = {}
    <2>1. net' = BagRemove(net, s) /\ IsABag(net) /\ s \in DOMAIN net /\ net[s] = 1
        BY <1>6 DEF Arrives, AloneInv, OneSignal, SystemInv, TypeOK, BagToSet
    <2>2. s \notin DOMAIN net' /\ DOMAIN net' \subseteq DOMAIN net
        BY <2>1, BagRemoveType
    <2>3. QED
        BY <1>8, <2>2 DEF BagToSet
<1>10. QED
    BY <1>6, <1>7, <1>9

LEMMA SignalAloneStep ==
    ASSUME AloneInv, OnePacketAtATime, Next, ~SenderNotifies
    PROVE  SignalAlone'
<1>1. CASE SignalInFlight'
    <2>1. SignalInFlight /\ ReceiverReset /\ UNCHANGED <<sender, net>>
        BY <1>1, SignalFliesAlone DEF ReceiverRestarts
    <2>2. /\ \A m \in BagToSet(net) : m.type = "signal"
          /\ sQueue = <<>> /\ ~sending
        BY <2>1 DEF AloneInv, SignalAlone
    <2>3. QED
        BY <2>1, <2>2 DEF SignalAlone, ReceiverReset, sender
<1>2. CASE ~SignalInFlight' /\ Waiting("signaled") /\ Waiting("signaled")'
    <2>1. ReceiverDelivers /\ BagToSet(net) = {} /\ ~rProc.running
        BY <1>2, SignalWaitsAlone DEF ReceiverRestarts, ReceiverReset, Waiting
    <2>2. ReceiverStateOK /\ TypeOK /\ OneSignal
        BY DEF AloneInv, SystemInv, TypeOK
    <2>3. ~NextEvent("signaled")
        BY <1>2, <2>1, <2>2, SignaledOnceDelivery DEF ReceiverDelivers, OneSignal
    <2>4. Datagrams(out') = {}
        BY <2>1, <2>2, <2>3, IdleAsksNothing DEF ReceiverDelivers
    <2>5. BagToSet(net') = {}
        BY <2>1, <2>2, <2>4, InFlightAfter, SystemTypeStep DEF TypeOK
    <2>6. sQueue = <<>> /\ ~sending /\ UNCHANGED sender
        BY <1>2, <2>1 DEF AloneInv, SignalAlone, ReceiverDelivers
    <2>7. QED
        BY <1>2, <2>5, <2>6 DEF SignalAlone, sender
<1>3. CASE ~SignalInFlight' /\ ~Waiting("signaled") /\ Waiting("signaled")'
    <2>1. SignalInFlight /\ BagToSet(net') = {} /\ UNCHANGED sender
        BY <1>3, SignalArrives
    <2>2. sQueue = <<>> /\ ~sending
        BY <2>1 DEF AloneInv, SignalAlone
    <2>3. QED
        BY <1>3, <2>1, <2>2 DEF SignalAlone, sender
<1>4. QED
    BY <1>1, <1>2, <1>3 DEF SignalAlone

LEMMA AloneStep ==
    ASSUME AloneInv, OnePacketAtATime, Next
    PROVE  AloneInv'
<1>1. SystemInv /\ OneSignal /\ TypeOK /\ ReceiverStateOK /\ IdleIsUntimed /\ Announced
    BY DEF AloneInv, SystemInv, TypeOK
<1>2. SystemInv' /\ OneSignal'
    BY <1>1, SystemStep, OneSignalStep
<1>3. SignalAlone'
    BY SignalSentAlone, SignalAloneStep
<1>4. IdleIsUntimed'
    <2>1. UNCHANGED receiver => IdleIsUntimed'
        BY <1>1 DEF receiver, IdleIsUntimed
    <2>2. QED
        BY <1>1, <2>1, UntimedStep, StepOfAny
<1>5. Announced'
    <2>1. ReceiverStep(Signals, SubPackets) /\ UNCHANGED sender => Announced'
        BY <1>1, AnnouncedStep DEF sender
    <2>2. UNCHANGED <<receiver, packetId>> => Announced'
        BY <1>1 DEF Announced, AnnouncedOnce, Waiting, receiver
    <2>3. CASE SenderNotifies
        <3>1. rQueue' = <<>>
            BY <2>3 DEF SenderNotifies, OnePacketAtATime, NothingOnItsWay, receiver
        <3>2. QED
            BY <3>1 DEF Announced, AnnouncedOnce, Waiting
    <2>4. SenderDelivers => UNCHANGED packetId
        BY <1>1, DeliveryKeepsPacket DEF SenderDelivers, TypeOK
    <2>5. SenderTimesOut => UNCHANGED packetId
        BY DEF SenderTimesOut, SenderTimerExpires, notifyVars
    <2>6. \A m : HandleRequest(m) => UNCHANGED packetId
        BY DEF HandleRequest, notifyVars
    <2>7. ~SenderRestarts
        BY SystemAssumption DEF SenderRestarts, OnePacketAtATime, AloneInv, SystemInv, TypeOK, Faults
    <2>8. ReceiverStep(Signals \cap BagToSet(net), SubPackets \cap BagToSet(net)) =>
              ReceiverStep(Signals, SubPackets)
        <3>1. Signals \cap BagToSet(net) \subseteq Signals /\ SubPackets \cap BagToSet(net) \subseteq SubPackets
            OBVIOUS
        <3>2. QED
            BY <3>1, StepOfMore
    <2>9. QED
        BY <1>1, <2>1, <2>2, <2>3, <2>4, <2>5, <2>6, <2>7, <2>8, StepOfOne
        DEF SenderDelivers, SenderTimesOut, sender
<1>6. QED
    BY <1>2, <1>3, <1>4, <1>5 DEF AloneInv

\* With one packet at a time, each signal travels and is delivered with nothing else under way.
LEMMA AloneInvariant ==
    ASSUME OnePacketAtATime
    PROVE  Spec => []AloneInv
<1>1. Init => IdleIsUntimed /\ Announced /\ SignalAlone
    <2> SUFFICES ASSUME Init PROVE IdleIsUntimed /\ Announced /\ SignalAlone
        OBVIOUS
    <2>1. rQueue = <<>> /\ sQueue = <<>> /\ ~sending /\ rTimer = "off" /\ BagToSet(net) = {}
        BY DEF Init, ReceiverInit, SenderInit, EmptyBag, SetToBag, BagToSet
    <2>2. QED
        BY <2>1 DEF IdleIsUntimed, Announced, AnnouncedOnce, SignalAlone, Waiting
<1>2. ASSUME AloneInv, SystemInv', OneSignal', [Next]_vars
      PROVE  AloneInv'
    <2>1. CASE Next
        BY <1>2, <2>1, AloneStep
    <2>2. CASE UNCHANGED vars
        <3>1. IdleIsUntimed' /\ Announced' /\ SignalAlone'
            BY <1>2, <2>2 DEF AloneInv, vars, receiver, sender, IdleIsUntimed, Announced, AnnouncedOnce,
                SignalAlone, SignalInFlight, Waiting
        <3>2. QED
            BY <1>2, <3>1 DEF AloneInv
    <2>3. QED
        BY <1>2, <2>1, <2>2
<1>3. SystemInv /\ OneSignal /\ IdleIsUntimed /\ Announced /\ SignalAlone => AloneInv
    BY DEF AloneInv
<1>4. QED
    BY <1>1, <1>2, <1>3, SystemInvariant, OneSignalHolds, PTL DEF Spec

-----------------------------------------------------------------------------
(***************************************************************************)
(* The abstract service.                                                   *)
(***************************************************************************)

Offered == SignalInFlight \/ Waiting("signaled")

\* The phase is that of a packet offered, being received, or announced, and no two at a time.
PhaseRight ==
    /\ Offered => Phase = "offered" /\ ~rProc.running /\ ~Waiting("received")
    /\ rProc.running => Phase = "receiving" /\ ~Offered /\ ~Waiting("received")
    /\ Waiting("received") => Phase = "received" /\ ~Offered /\ ~rProc.running
    /\ ~Offered /\ ~rProc.running /\ ~Waiting("received") => Phase = "idle"

LEMMA Phases == AloneInv => PhaseRight
<1> SUFFICES ASSUME OneSignal, Announced PROVE PhaseRight
    BY DEF AloneInv
<1>1. /\ Offered => ~rProc.running /\ ~Waiting("received")
      /\ rProc.running => ~Waiting("received")
    BY DEF OneSignal, Announced, Offered
<1>2. /\ (\E m \in BagToSet(net) : m.type = "signal") \/ Contains(rQueue, "signaled") <=> Offered
      /\ Contains(rQueue, "received") <=> Waiting("received")
    BY DEF Offered, SignalInFlight, Waiting, Contains
<1>3. Phase = CASE Offered -> "offered"
                [] rProc.running -> "receiving"
                [] Waiting("received") -> "received"
                [] OTHER -> "idle"
    BY <1>2 DEF Phase
<1>4. QED
    BY <1>1, <1>3 DEF PhaseRight

LEMMA PhasesAfter == AloneInv' => PhaseRight'
BY Phases, PTL

\* What the mapping makes of the variable `shown`.
Shown ==
    IF ~Prints THEN NoBody
    ELSE IF \E id \in SentPackets : Displayed(id)
    THEN CHOOSE id \in SentPackets : Displayed(id)
    ELSE Damaged

\* A step that leaves the packet where it is, and shows none.
LEMMA RestMaps ==
    ASSUME Phase' = Phase, UNCHANGED packetId, ~Prints',
           faults'.losses = faults.losses, faults'.receiverRestarts = faults.receiverRestarts
    PROVE  Service!Rest
BY DEF Service!Rest

\* A loss that leaves the packet where it is.
LEMMA LoseMaps ==
    ASSUME Phase' = Phase, UNCHANGED packetId, ~Prints',
           faults'.losses = faults.losses + 1, faults'.receiverRestarts = faults.receiverRestarts
    PROVE  Service!Lose
BY DEF Service!Lose

\* A packet taken further.
LEMMA MovesMap ==
    ASSUME NEW from \in {"offered", "receiving", "received"},
           NEW to \in {"idle", "offered", "receiving", "received"},
           Phase = from, Phase' = to, UNCHANGED packetId
    PROVE  Service!Moves(from, to)
BY DEF Service!Moves

\* Nothing that decides on the phase changes.
LEMMA PhaseKept ==
    ASSUME AloneInv, AloneInv', Offered' <=> Offered, rProc'.running <=> rProc.running,
           Waiting("received")' <=> Waiting("received")
    PROVE  Phase' = Phase
<1>1. PhaseRight /\ PhaseRight'
    BY Phases, PhasesAfter
<1>2. QED
    BY <1>1 DEF PhaseRight

\* Another event posted leaves an event waiting.
LEMMA PostStays ==
    ASSUME ReceiverStateOK, NEW e \in ReceiverEvents, rQueue' = Post(rQueue, e), NEW d, d # e
    PROVE  Waiting(d)' <=> Waiting(d)
<1>1. Waiting(d)' => Waiting(d)
    BY PostWaits
<1>2. ASSUME Waiting(d)
      PROVE  Waiting(d)'
    <2>1. PICK k \in 1..Len(rQueue) : rQueue[k] = d
        BY <1>2 DEF Waiting
    <2>2. k \in 1..Len(rQueue') /\ rQueue'[k] = d
        BY <2>1, PostKeeps DEF ReceiverStateOK
    <2>3. QED
        BY <2>2 DEF Waiting
<1>3. QED
    BY <1>1, <1>2

\* Another event delivered leaves an event waiting.
LEMMA DeliveryStays ==
    ASSUME ReceiverStateOK, DeliverToReceiver, NEW d, Waiting(d), ~NextEvent(d)
    PROVE  Waiting(d)'
<1>1. rQueue # <<>>
    BY DEF DeliverToReceiver, DeliverTimeout, DeliverSubPacket, DeliverSignaled, DeliverReceived, NextEvent
<1>2. PICK k \in 1..Len(rQueue) : rQueue[k] = d
    BY DEF Waiting
<1>3. k # 1
    BY <1>1, <1>2 DEF NextEvent, ReceiverStateOK
<1>4. k - 1 \in 1..Len(Tail(rQueue)) /\ Tail(rQueue)[k - 1] = d
    BY <1>1, <1>2, <1>3 DEF ReceiverStateOK
<1>5. rQueue' = Tail(rQueue) \/ rQueue' = Post(Tail(rQueue), "received")
    BY DEF DeliverToReceiver, DeliverTimeout, DeliverSubPacket, DiscardSubPacket, LeaveOnForeignId,
        TakeSubPacket, DeliverSignaled, DeliverReceived
<1>6. Tail(rQueue) \in Seq(ReceiverEvents) /\ "received" \in ReceiverEvents
    BY <1>1 DEF ReceiverStateOK, ReceiverEvents
<1>7. k - 1 \in 1..Len(rQueue') /\ rQueue'[k - 1] = d
    <2>1. CASE rQueue' = Tail(rQueue)
        BY <1>4, <2>1
    <2>2. CASE rQueue' = Post(Tail(rQueue), "received")
        <3> DEFINE q == Tail(rQueue)
                   j == k - 1
        <3> HIDE DEF q, j
        <3>1. /\ q \in Seq(ReceiverEvents) /\ j \in 1..Len(q) /\ q[j] = d
              /\ "received" \in ReceiverEvents
            BY <1>4, <1>6 DEF q, j
        <3>2. j \in 1..Len(Post(q, "received")) /\ Post(q, "received")[j] = d
            BY <3>1, PostKeeps
        <3>3. QED
            BY <2>2, <3>2 DEF q, j
    <2>3. QED
        BY <1>5, <2>1, <2>2
<1>8. QED
    BY <1>7 DEF Waiting

\* What either node sends when no packet is signaled leaves the signals in flight as they are.
LEMMA SignalsStay ==
    ASSUME TypeOK, NEW X, out' \in Seq(X), Sending(net), \A m \in X : m.type # "signal"
    PROVE  SignalInFlight' <=> SignalInFlight
<1>1. DOMAIN net' = DOMAIN net \cup Datagrams(out')
    BY SendingType DEF TypeOK
<1>2. \A m \in Datagrams(out') : m.type # "signal"
    BY DEF Datagrams
<1>3. QED
    BY <1>1, <1>2 DEF SignalInFlight, BagToSet

\* A reception that ends with nothing announced has timed out with no re-request left.
LEMMA EndsUnannounced ==
    ASSUME SystemInv, DeliverToReceiver, rProc.running, ~rProc'.running, ~Waiting("received")'
    PROVE  TimedOut /\ rProc.left = 0
<1>1. ReceiverStateOK /\ ReceiverCurrent
    BY DEF SystemInv, TypeOK
<1>2. CASE CheckTimeout
    BY <1>1, <1>2 DEF CheckTimeout, Rerequest, GiveUp, ReceiverStateOK
<1>3. ~(NextEvent("subpacket") /\ LeaveOnForeignId)
    BY <1>1, HeadWaits DEF ReceiverCurrent, Current, Belongs, LeaveOnForeignId
<1>4. ASSUME rQueue # <<>>, rQueue' = Post(Tail(rQueue), "received")
      PROVE  FALSE
    <2>1. Len(Tail(rQueue)) < QueueSize /\ Tail(rQueue) \in Seq(ReceiverEvents)
        BY <1>1, <1>4, QueueAssumption DEF ReceiverStateOK
    <2>2. rQueue' = Append(Tail(rQueue), "received")
        BY <1>4, <2>1 DEF Post
    <2>3. Len(rQueue') \in 1..Len(rQueue') /\ rQueue'[Len(rQueue')] = "received"
        BY <2>1, <2>2
    <2>4. QED
        BY <2>3 DEF Waiting
<1>5. ~StartReception
    BY DEF StartReception
<1>6. rQueue # <<>>
    BY DEF DeliverToReceiver, DeliverTimeout, DeliverSubPacket, DeliverSignaled, DeliverReceived, NextEvent
<1>7. QED
    BY <1>2, <1>3, <1>4, <1>5, <1>6
    DEF DeliverToReceiver, DeliverTimeout, DeliverSubPacket, DiscardSubPacket, TakeSubPacket,
        DeliverSignaled, RefuseSignal, DeliverReceived

\* What is printed is the packet the sender signaled last.
LEMMA PrintsCurrent ==
    ASSUME AloneInv, DisplayInv, Next, DeliverReceived, UNCHANGED packetId
    PROVE  Prints' /\ Shown' = packetId /\ ~rProc.running
<1>1. SystemInv /\ ReceiverStateOK /\ Waiting("received")
    BY HeadWaits DEF AloneInv, SystemInv, TypeOK, DeliverReceived
<1>2. rx.id = packetId /\ ~rProc.running
    BY <1>1 DEF AloneInv, Announced
<1>3. Prints'
    <2>1. TimeoutRequest = <<>>
        BY <1>2 DEF TimeoutRequest, TimedOut
    <2>2. \E len, text : out' = <<Printed(len, text)>>
        BY <2>1 DEF DeliverReceived
    <2>3. 1 \in 1..Len(out') /\ out'[1].type = "printed"
        BY <2>2 DEF Printed
    <2>4. QED
        BY <2>3 DEF Prints
<1>4. ASSUME NEW k \in 1..Len(out'), out'[k].type = "printed"
      PROVE  /\ packetId \in SentPackets
             /\ \A i \in LowBits(NumSubPackets(PacketLen[packetId])) :
                    out'[k].text[i] =
                        [body |-> packetId, idx |-> i, size |-> SubPacketOf(packetId, i).size]
    BY <1>1, <1>2, <1>4, PrintsIntact
<1>5. packetId \in SentPackets /\ Displayed(packetId)'
    BY <1>3, <1>4 DEF Prints, Displayed
<1>6. ASSUME NEW q \in SentPackets, Displayed(q)'
      PROVE  q = packetId
    <2>1. PICK k \in 1..Len(out') :
              /\ out'[k].type = "printed"
              /\ \A i \in LowBits(NumSubPackets(PacketLen[q])) :
                     out'[k].text[i] = [body |-> q, idx |-> i, size |-> SubPacketOf(q, i).size]
        BY <1>6 DEF Displayed
    <2>2. 0 \in LowBits(NumSubPackets(PacketLen[q])) /\ 0 \in LowBits(NumSubPackets(PacketLen[packetId]))
        BY <1>5, SizeAssumption DEF SentPackets, LowBits, Indices
    <2>3. out'[k].text[0] = [body |-> q, idx |-> 0, size |-> SubPacketOf(q, 0).size]
        BY <2>1, <2>2
    <2>4. out'[k].text[0] = [body |-> packetId, idx |-> 0, size |-> SubPacketOf(packetId, 0).size]
        BY <1>4, <2>1, <2>2
    <2>5. QED
        BY <2>3, <2>4
<1>7. (CHOOSE id \in SentPackets : Displayed(id)') = packetId
    BY <1>5, <1>6
<1>8. QED
    BY <1>2, <1>3, <1>5, <1>7 DEF Shown

\* The times the receiver has asked again.
Used == MaxRetransmissionRequests - rProc.left

\* With prompt nodes and a patient time-out, each time-out has a loss of its own.
TimesOutAfterLoss == Prompt /\ Patient /\ TimedOut => faults.losses > Used

\* A packet the sender registers has no more sub-packets than a mask has bits.
LEMMA RegistrableFits ==
    ASSUME NEW id \in PacketIds, Registrable(PacketLen[id])
    PROVE  FitsMask(NumSubPackets(PacketLen[id]))
<1> DEFINE S == SubpacketMaxBytes
           M == MaxSubpackets
           q == PacketLen[id] \div S
           r == PacketLen[id] % S
<1>1. /\ q \in Nat /\ r \in Nat /\ S \in Nat /\ S > 0 /\ M \in Nat
      /\ S * q + r <= S * M
    BY PacketAssumption, SizeAssumption, DivisionByMaxBytes DEF Registrable
<1>2. NumSubPackets(PacketLen[id]) = q + (IF r > 0 THEN 1 ELSE 0)
    BY DEF NumSubPackets
<1> HIDE DEF S, M, q, r
<1>3. \A a \in Nat : q >= M + a => S * q >= S * M + S * a
    <2> SUFFICES ASSUME NEW a \in Nat, q >= M + a PROVE S * q >= S * M + S * a
        OBVIOUS
    <2>1. PICK d \in Nat : q = M + a + d
        <3>1. q - (M + a) \in Nat /\ q = M + a + (q - (M + a))
            BY <1>1
        <3>2. QED
            BY <3>1
    <2>2. S * q = S * M + S * a + S * d /\ S * d \in Nat
        BY <1>1, <2>1
    <2>3. S * M \in Nat /\ S * a \in Nat
        BY <1>1
    <2>4. QED
        BY <2>2, <2>3
<1>4. q <= M /\ (r > 0 => q < M)
    <2>1. S * q \in Nat /\ S * M \in Nat /\ S * 0 = 0 /\ S * 1 = S
        BY <1>1
    <2>2. q >= M + 1 => S * q >= S * M + S * 1
        BY <1>3
    <2>3. q >= M + 0 => S * q >= S * M + S * 0
        BY <1>3
    <2>4. QED
        BY <1>1, <2>1, <2>2, <2>3
<1>5. QED
    BY <1>1, <1>2, <1>4 DEF FitsMask, M

\* The receiver takes a packet up, completes or abandons it, or shows it.
LEMMA ReceiverDeliversMaps ==
    ASSUME AloneInv, AloneInv', DisplayInv, TimesOutAfterLoss, Next, ReceiverDelivers
    PROVE  Service!Next
<1>1. /\ SystemInv /\ TypeOK /\ ReceiverStateOK /\ OneSignal /\ Announced /\ PhaseRight /\ PhaseRight'
      /\ DeliverToReceiver /\ Sending(net) /\ UNCHANGED <<packetId, faults>>
    BY Phases, PhasesAfter DEF AloneInv, SystemInv, TypeOK, ReceiverDelivers, sender
<1>2. SignalInFlight' <=> SignalInFlight
    <2>1. out' \in Seq(ReceiverOutputs)
        BY <1>1, ReceiverTypeStep DEF ReceiverStep, ReceiverTypeOK
    <2>2. \A m \in ReceiverOutputs : m.type # "signal"
        BY DEF ReceiverOutputs, Requests
    <2>3. QED
        BY <1>1, <2>1, <2>2, SignalsStay
<1>3. Prints' => DeliverReceived /\ Waiting("received") /\ ~rProc.running
    <2>1. Prints' => DeliverReceived
        BY <1>1, PrintsIntact DEF Prints
    <2>2. QED
        BY <1>1, <2>1, HeadWaits DEF DeliverReceived, Announced
<1>4. Waiting("signaled")' => Waiting("signaled")
    BY <1>1, DeliveryWaits
<1>5. CASE rProc.running /\ rProc'.running
    <2>1. Phase' = Phase
        BY <1>1, <1>5 DEF PhaseRight
    <2>2. QED
        BY <1>1, <1>3, <1>5, <2>1, RestMaps DEF Service!Next
<1>6. CASE rProc.running /\ ~rProc'.running
    <2>1. Phase = "receiving" /\ ~Offered'
        BY <1>1, <1>2, <1>4, <1>6 DEF PhaseRight, Offered
    <2>2. CASE Waiting("received")'
        <3>1. Phase' = "received"
            BY <1>1, <2>2 DEF PhaseRight
        <3>2. Service!Complete
            BY <1>1, <1>3, <1>6, <2>1, <3>1, MovesMap DEF Service!Complete
        <3>3. QED
            BY <3>2 DEF Service!Next
    <2>3. CASE ~Waiting("received")'
        <3>1. Phase' = "idle"
            BY <1>1, <1>6, <2>1, <2>3 DEF PhaseRight
        <3>2. TimedOut /\ rProc.left = 0
            BY <1>1, <1>6, <2>3, EndsUnannounced
        <3>3. Prompt /\ Patient => faults.losses > MaxRetransmissionRequests
            BY <3>2, ReceiverAssumption DEF TimesOutAfterLoss, Used
        <3>4. Service!Abandon
            BY <1>1, <1>3, <1>6, <2>1, <3>1, <3>3, MovesMap DEF Service!Abandon
        <3>5. QED
            BY <3>4 DEF Service!Next
    <2>4. QED
        BY <2>2, <2>3
<1>7. CASE ~rProc.running /\ rProc'.running
    <2>1. NextEvent("signaled")
        BY <1>1, <1>7, DeliveryRuns
    <2>2. Phase = "offered" /\ ~Waiting("received")
        BY <1>1, <2>1, HeadWaits DEF PhaseRight, Offered
    <2>3. Phase' = "receiving"
        BY <1>1, <1>7 DEF PhaseRight
    <2>4. Service!Begin
        BY <1>1, <1>3, <2>2, <2>3, MovesMap DEF Service!Begin
    <2>5. QED
        BY <2>4 DEF Service!Next
<1>8. CASE ~rProc.running /\ ~rProc'.running /\ NextEvent("received")
    <2>1. Waiting("received") /\ DeliverReceived
        BY <1>1, <1>8, HeadWaits
        DEF DeliverToReceiver, DeliverTimeout, DeliverSubPacket, DeliverSignaled, NextEvent
    <2>2. Phase = "received" /\ ~Offered'
        BY <1>1, <1>2, <1>4, <2>1 DEF PhaseRight, Offered
    <2>3. ~Waiting("received")'
        <3>1. rQueue # <<>> /\ rQueue' = Tail(rQueue) /\ rQueue[1] = "received"
            BY <1>1, <2>1 DEF DeliverReceived, NextEvent, ReceiverStateOK
        <3>2. QED
            BY <1>1, <3>1, AnnouncedOnceTail DEF Announced, Waiting
    <2>4. Phase' = "idle"
        BY <1>1, <1>8, <2>2, <2>3 DEF PhaseRight
    <2>5. Shown' = packetId /\ Phase # "idle"
        BY <1>1, <2>1, <2>2, PrintsCurrent
    <2>6. Service!Show
        BY <1>1, <2>2, <2>4, <2>5, MovesMap DEF Service!Show, Shown
    <2>7. QED
        BY <2>6 DEF Service!Next
<1>9. CASE ~rProc.running /\ ~rProc'.running /\ ~NextEvent("received")
    <2>1. ~NextEvent("signaled")
        <3>1. ASSUME NextEvent("signaled")
              PROVE  StartReception
            <4>1. Current(sigData) /\ sigData.type = "signal"
                BY <1>1, <3>1, HeadWaits DEF SystemInv, ReceiverCurrent, ReceiverStateOK, Signals
            <4>2. sigData = SignalOf(packetId) /\ Registrable(PacketLen[packetId]) /\ packetId \in PacketIds
                BY <1>1, <4>1 DEF Current, Registered, Belongs, TypeOK, SenderStateOK
            <4>3. FitsMask(sigData.num)
                BY <4>2, RegistrableFits DEF SignalOf, Signal
            <4>4. QED
                BY <1>1, <3>1, <4>3 DEF DeliverToReceiver, DeliverTimeout, DeliverSubPacket, DeliverSignaled,
                    DeliverReceived, RefuseSignal, NextEvent
        <3>2. QED
            BY <1>9, <3>1 DEF StartReception
    <2>2. Offered' <=> Offered
        BY <1>1, <1>2, <1>4, <2>1, DeliveryStays DEF Offered
    <2>3. Waiting("received")' <=> Waiting("received")
        BY <1>1, <1>9, AnnouncementSource, DeliveryStays
    <2>4. Phase' = Phase
        BY <1>1, <1>9, <2>2, <2>3 DEF PhaseRight
    <2>5. ~Prints'
        BY <1>3, <1>9 DEF DeliverReceived
    <2>6. QED
        BY <1>1, <2>4, <2>5, RestMaps DEF Service!Next
<1>10. QED
    BY <1>5, <1>6, <1>7, <1>8, <1>9

\* A step of the sender or the network that leaves the receiver and the signals as they are.
LEMMA ElsewhereKeeps ==
    ASSUME AloneInv, AloneInv', UNCHANGED <<rProc, rQueue>>, SignalInFlight' <=> SignalInFlight
    PROVE  Phase' = Phase
<1>1. \A e : Waiting(e)' <=> Waiting(e)
    BY DEF Waiting
<1>2. QED
    BY <1>1, PhaseKept DEF Offered

\* A datagram other than a signal comes into flight or leaves.
LEMMA OthersMove ==
    ASSUME TypeOK, NEW m, m.type # "signal", net' = BagRemove(net, m) \/ net' = BagAdd(net, m)
    PROVE  SignalInFlight' <=> SignalInFlight
<1>1. IsABag(net)
    BY DEF TypeOK
<1>2. DOMAIN net' \ {m} = DOMAIN net \ {m}
    <2>1. CASE net' = BagRemove(net, m)
        BY <2>1 DEF BagRemove
    <2>2. CASE net' = BagAdd(net, m)
        <3>1. DOMAIN BagAdd(net, m) = DOMAIN net \cup {m}
            BY <1>1, BagAddType
        <3>2. QED
            BY <2>2, <3>1
    <2>3. QED
        BY <2>1, <2>2
<1>3. QED
    BY <1>2 DEF SignalInFlight, BagToSet

\* The receiver's timer goes off.
LEMMA ReceiverTimesOutMaps ==
    ASSUME AloneInv, AloneInv', ReceiverTimesOut
    PROVE  Service!Next
<1>1. ReceiverStateOK /\ ReceiverTimerExpires /\ UNCHANGED <<sender, net, faults>>
    BY DEF AloneInv, SystemInv, TypeOK, ReceiverTimesOut
<1>2. rQueue' = Post(rQueue, "timer") /\ "timer" \in ReceiverEvents /\ out' = <<>> /\ UNCHANGED rProc
    BY <1>1 DEF ReceiverTimerExpires, Post, ReceiverEvents
<1>3. \A e \in {"signaled", "received"} : Waiting(e)' <=> Waiting(e)
    BY <1>1, <1>2, PostStays
<1>4. Phase' = Phase
    BY <1>1, <1>2, <1>3, PhaseKept DEF Offered, SignalInFlight
<1>5. QED
    BY <1>1, <1>2, <1>4, RestMaps DEF Service!Next, Prints, sender

\* The receiver restarts.
LEMMA ReceiverRestartsMaps ==
    ASSUME AloneInv, AloneInv', ReceiverRestarts
    PROVE  Service!Next
<1>1. /\ PhaseRight /\ PhaseRight' /\ faults \in Faults
      /\ ReceiverReset /\ Counting("receiverRestarts", 1) /\ UNCHANGED <<sender, net>>
    BY Phases, PhasesAfter DEF AloneInv, SystemInv, TypeOK, ReceiverRestarts
<1>2. faults'.receiverRestarts = faults.receiverRestarts + 1 /\ faults'.losses = faults.losses
    BY <1>1 DEF Counting, Faults
<1>3. ~rProc'.running /\ rQueue' = <<>> /\ ~Prints'
    BY <1>1 DEF ReceiverReset, Prints
<1>4. ~Waiting("signaled")' /\ ~Waiting("received")'
    BY <1>3 DEF Waiting
<1>5. CASE SignalInFlight
    <2>1. Phase = "offered" /\ Phase' = "offered"
        BY <1>1, <1>5 DEF PhaseRight, Offered, SignalInFlight
    <2>2. QED
        BY <1>1, <1>2, <1>3, <2>1 DEF Service!Next, Service!Forget, sender
<1>6. CASE ~SignalInFlight
    <2>1. Phase' = "idle"
        BY <1>1, <1>3, <1>4, <1>6 DEF PhaseRight, Offered, SignalInFlight
    <2>2. Service!Moves(Phase, "idle")
        BY <2>1 DEF Service!Moves
    <2>3. Service!Forget
        BY <1>2, <1>3, <2>2 DEF Service!Forget
    <2>4. QED
        BY <2>3 DEF Service!Next
<1>7. QED
    BY <1>5, <1>6

\* The sender works on a transmission; its radio may refuse the frame.
LEMMA SenderDeliversMaps ==
    ASSUME AloneInv, AloneInv', SenderDelivers
    PROVE  Service!Next
<1>1. /\ TypeOK /\ faults \in Faults /\ SenderStateOK /\ DeliverToSender /\ Sending(net)
      /\ Counting("losses", Refusal) /\ UNCHANGED receiver
    BY DEF AloneInv, SystemInv, TypeOK, SenderDelivers
<1>2. Refusal \in {0, 1}
    BY DEF Refusal
<1>3. /\ faults'.receiverRestarts = faults.receiverRestarts
      /\ faults'.losses = faults.losses \/ faults'.losses = faults.losses + 1
    BY <1>1, <1>2 DEF Counting, Faults
<1>4. UNCHANGED packetId
    BY <1>1, DeliveryKeepsPacket
<1>5. Datagrams(out') \subseteq Frames(out') /\ IsABag(net) /\ out' \in Seq(SenderOutputs)
    BY <1>1, DeliverySendsFrames, DeliverType DEF TypeOK, SenderTypeOK
<1>6. SignalInFlight' <=> SignalInFlight
    <2>1. DOMAIN net' = DOMAIN net \cup Datagrams(out')
        BY <1>1, <1>5, SendingType
    <2>2. \A m \in Datagrams(out') : m.type # "signal"
        BY <1>5 DEF Frames
    <2>3. QED
        BY <2>1, <2>2 DEF SignalInFlight, BagToSet
<1>7. Phase' = Phase
    BY <1>1, <1>6, ElsewhereKeeps DEF receiver
<1>8. ~Prints'
    <2>1. \A m \in SenderOutputs : m.type # "printed"
        BY DEF SenderOutputs, Signals, SubPackets
    <2>2. QED
        BY <1>5, <2>1 DEF Prints
<1>9. QED
    BY <1>3, <1>4, <1>7, <1>8, RestMaps, LoseMaps DEF Service!Next

\* The sender's timer goes off.
LEMMA SenderTimesOutMaps ==
    ASSUME AloneInv, AloneInv', SenderTimesOut
    PROVE  Service!Next
<1>1. SenderTimerExpires /\ UNCHANGED <<receiver, net, faults>>
    BY DEF SenderTimesOut
<1>2. out' = <<>> /\ UNCHANGED packetId
    BY <1>1 DEF SenderTimerExpires, notifyVars
<1>3. Phase' = Phase
    BY <1>1, ElsewhereKeeps DEF receiver, SignalInFlight
<1>4. QED
    BY <1>1, <1>2, <1>3, RestMaps DEF Service!Next, Prints

\* The application signals a packet, or waits.
LEMMA SenderNotifiesMaps ==
    ASSUME AloneInv, AloneInv', OnePacketAtATime, SenderNotifies
    PROVE  Service!Next
<1>1. /\ TypeOK /\ TypeOK' /\ PhaseRight /\ PhaseRight' /\ Notify /\ Sending(net) /\ UNCHANGED receiver
      /\ faults' = IF out' = <<>> THEN faults
                   ELSE [faults EXCEPT !.signals = @ + 1, !.losses = 0, !.receiverRestarts = 0]
    BY Phases, PhasesAfter DEF AloneInv, SystemInv, SenderNotifies
<1>2. DOMAIN net = {} /\ rQueue = <<>> /\ ~rProc.running
    BY DEF SenderNotifies, OnePacketAtATime, NothingOnItsWay, EmptyBag, SetToBag
<1>3. /\ ~Offered /\ ~Waiting("received") /\ ~Waiting("signaled")' /\ ~Waiting("received")'
      /\ ~rProc'.running
    BY <1>1, <1>2 DEF Offered, SignalInFlight, Waiting, BagToSet, receiver
<1>4. Phase = "idle"
    BY <1>1, <1>2, <1>3 DEF PhaseRight
<1>5. DOMAIN net' = Datagrams(out')
    <2>1. out' \in Seq(SenderOutputs)
        BY <1>1, SenderTypeStep DEF SenderStep, SenderTypeOK, TypeOK
    <2>2. QED
        BY <1>1, <1>2, <2>1, SendingType DEF TypeOK
<1>6. out' = <<>> \/ \E id : out' = <<SignalOf(id)>>
    BY <1>1 DEF Notify, NoRoot, RootWithoutRoute, RootWithRoute, RouteEstablished, RegisterAndSignal
<1>7. ~Prints'
    BY <1>6 DEF Prints, SignalOf, Signal
<1>8. CASE out' = <<>>
    <2>1. Datagrams(out') = {}
        BY <1>8 DEF Datagrams
    <2>2. Phase' = "idle"
        BY <1>1, <1>3, <1>5, <2>1 DEF PhaseRight, Offered, SignalInFlight, BagToSet
    <2>3. Service!Rest
        BY <1>1, <1>4, <1>7, <1>8, <2>2 DEF Service!Rest
    <2>4. QED
        BY <2>3 DEF Service!Next
<1>9. ASSUME NEW id, out' = <<SignalOf(id)>>
      PROVE  Service!Next
    <2>1. SignalOf(id) \in Datagrams(out') /\ SignalOf(id).type = "signal" /\ out' # <<>>
        BY <1>9 DEF Datagrams, SignalOf, Signal
    <2>2. Phase' = "offered"
        BY <1>1, <1>5, <2>1 DEF PhaseRight, Offered, SignalInFlight, BagToSet
    <2>3. faults'.losses = 0 /\ faults'.receiverRestarts = 0
        BY <1>1, <2>1 DEF TypeOK, Faults
    <2>4. packetId' \in PacketIds
        BY <1>1 DEF TypeOK, SenderStateOK
    <2>5. Service!Offer
        BY <1>4, <1>7, <2>2, <2>3, <2>4 DEF Service!Offer
    <2>6. QED
        BY <2>5 DEF Service!Next
<1>10. QED
    BY <1>6, <1>8, <1>9

\* A datagram reaches a node: a signal finds the queue empty, so it is delivered for sure.
LEMMA ArrivesMaps ==
    ASSUME AloneInv, AloneInv', NEW m \in BagToSet(net), Arrives(m)
    PROVE  Service!Next
<1>1. /\ TypeOK /\ ReceiverStateOK /\ PhaseRight /\ PhaseRight' /\ UNCHANGED faults
      /\ net' = BagRemove(net, m)
    BY Phases, PhasesAfter DEF AloneInv, SystemInv, TypeOK, Arrives
<1>2. out' = <<>> /\ UNCHANGED packetId
    BY DEF Arrives, HandleSignal, HandleSubPacket, HandleRequest, sender, notifyVars
<1>3. Phase' = Phase
    <2>1. CASE m.type = "signal" /\ HandleSignal(m)
        <3>1. SignalInFlight /\ rQueue = <<>>
            BY <2>1 DEF SignalInFlight, AloneInv, SignalAlone
        <3>2. rQueue' = <<"signaled">>
            BY <2>1, <3>1, QueueAssumption DEF HandleSignal, Post
        <3>3. Waiting("signaled")'
            BY <3>2 DEF Waiting
        <3>4. QED
            BY <1>1, <3>1, <3>3 DEF PhaseRight, Offered
    <2>2. CASE m.type = "subpacket" /\ HandleSubPacket(m)
        <3>1. \A e \in {"signaled", "received"} : Waiting(e)' <=> Waiting(e)
            BY <1>1, <2>2, PostStays DEF HandleSubPacket, ReceiverEvents
        <3>2. SignalInFlight' <=> SignalInFlight
            BY <1>1, <2>2, OthersMove
        <3>3. QED
            BY <2>2, <3>1, <3>2, PhaseKept DEF HandleSubPacket, Offered
    <2>3. CASE m.type = "request" /\ UNCHANGED receiver
        BY <1>1, <2>3, OthersMove, ElsewhereKeeps DEF receiver
    <2>4. QED
        BY <2>1, <2>2, <2>3 DEF Arrives
<1>4. QED
    BY <1>1, <1>2, <1>3, RestMaps DEF Service!Next, Prints

\* The network loses a datagram; lost with a signal is the packet.
LEMMA LosesMaps ==
    ASSUME AloneInv, AloneInv', NEW m \in BagToSet(net), Loses(m)
    PROVE  Service!Next
<1>1. /\ TypeOK /\ PhaseRight /\ PhaseRight' /\ faults \in Faults
      /\ net' = BagRemove(net, m) /\ Counting("losses", 1) /\ UNCHANGED <<receiver, sender>>
    BY Phases, PhasesAfter DEF AloneInv, SystemInv, TypeOK, Loses
<1>2. faults'.losses = faults.losses + 1 /\ faults'.receiverRestarts = faults.receiverRestarts
    BY <1>1 DEF Counting, Faults
<1>3. ~Prints' /\ UNCHANGED packetId
    BY <1>1 DEF Loses, Prints, sender
<1>4. CASE m.type = "signal"
    <2>1. /\ Phase = "offered" /\ ~rProc.running /\ ~Waiting("received") /\ ~Waiting("signaled")
          /\ net[m] = 1
        BY <1>1, <1>4 DEF PhaseRight, Offered, SignalInFlight, AloneInv, OneSignal
    <2>2. \A x \in BagToSet(net) : x = m
        BY <1>4 DEF AloneInv, SignalAlone, SignalInFlight, SystemInv, NetCurrent, Current, Belongs
    <2>3. ~SignalInFlight'
        <3>1. IsABag(net) /\ m \in DOMAIN net
            BY <1>1 DEF TypeOK, BagToSet
        <3>2. m \notin DOMAIN net' /\ DOMAIN net' \subseteq DOMAIN net
            BY <1>1, <2>1, <3>1, BagRemoveType
        <3>3. QED
            BY <2>2, <3>2 DEF SignalInFlight, BagToSet
    <2>4. Phase' = "idle"
        BY <1>1, <2>1, <2>3 DEF PhaseRight, Offered, Waiting, receiver
    <2>5. Service!Miss
        BY <1>2, <1>3, <2>1, <2>4, MovesMap DEF Service!Miss
    <2>6. QED
        BY <2>5 DEF Service!Next
<1>5. CASE m.type # "signal"
    <2>1. Phase' = Phase
        BY <1>1, <1>5, OthersMove, ElsewhereKeeps DEF receiver
    <2>2. QED
        BY <1>2, <1>3, <2>1, LoseMaps DEF Service!Next
<1>6. QED
    BY <1>4, <1>5

\* The network duplicates a datagram.
LEMMA DuplicatesMaps ==
    ASSUME AloneInv, AloneInv', OnePacketAtATime, NEW m \in BagToSet(net), Duplicates(m)
    PROVE  Service!Next
<1>1. /\ TypeOK /\ faults \in Faults /\ m.type # "signal"
      /\ net' = BagAdd(net, m) /\ Counting("duplicates", 1) /\ UNCHANGED <<receiver, sender>>
    BY DEF AloneInv, SystemInv, TypeOK, Duplicates, OnePacketAtATime
<1>2. faults'.losses = faults.losses /\ faults'.receiverRestarts = faults.receiverRestarts
    BY <1>1 DEF Counting, Faults
<1>3. ~Prints' /\ UNCHANGED packetId
    BY <1>1 DEF Duplicates, Prints, sender
<1>4. Phase' = Phase
    BY <1>1, OthersMove, ElsewhereKeeps DEF receiver
<1>5. QED
    BY <1>2, <1>3, <1>4, RestMaps DEF Service!Next

\* Every step of the two nodes is one of the abstract service.
LEMMA StepMaps ==
    ASSUME AloneInv, AloneInv', DisplayInv, TimesOutAfterLoss, OnePacketAtATime, Next
    PROVE  Service!Next
<1>1. ~SenderRestarts
    BY SystemAssumption DEF SenderRestarts, OnePacketAtATime, AloneInv, SystemInv, TypeOK, Faults
<1>2. QED
    BY <1>1, ReceiverDeliversMaps, ReceiverTimesOutMaps, ReceiverRestartsMaps, SenderDeliversMaps,
        SenderTimesOutMaps, SenderNotifiesMaps, ArrivesMaps, LosesMaps, DuplicatesMaps
    DEF Next, Arrival

LEMMA InitMaps == Init => Service!Init
<1> SUFFICES ASSUME Init PROVE Service!Init
    OBVIOUS
<1>1. rQueue = <<>> /\ ~rProc.running /\ out = <<>> /\ BagToSet(net) = {}
    BY DEF Init, ReceiverInit, EmptyBag, SetToBag, BagToSet
<1>2. Phase = "idle" /\ ~Prints
    BY <1>1 DEF Phase, Contains, Prints
<1>3. faults.losses = 0 /\ faults.receiverRestarts = 0
    BY DEF Init
<1>4. QED
    BY <1>2, <1>3 DEF Service!Init

LEMMA StutterMaps ==
    ASSUME UNCHANGED vars
    PROVE  UNCHANGED Service!vars
<1>1. UNCHANGED <<rQueue, rProc, out, net, faults, packetId>>
    BY DEF vars, receiver, sender
<1>2. Phase' = Phase
    BY <1>1 DEF Phase, Contains
<1>3. Shown' = Shown
    BY <1>1 DEF Shown, Prints, Displayed
<1>4. QED
    BY <1>1, <1>2, <1>3 DEF Service!vars, Shown

-----------------------------------------------------------------------------
(***************************************************************************)
(* Each time-out of careful nodes has a loss of its own: as long as no     *)
(* more are lost than the receiver has asked again, whatever it lacks is   *)
(* on its way, and it does not time out.                                   *)
(***************************************************************************)

CarefulNodes == OnePacketAtATime /\ Prompt /\ Patient /\ ~FaultInjection

Missing == LowBits(rx.num) \ rx.mask

\* Sub-packet i is in flight or waits to be taken, or is asked for and will be sent.
OnItsWay(i) ==
    \/ \E m \in BagToSet(net) : m.type = "subpacket" /\ m.idx = i
    \/ \E m \in BagToSet(net) : m.type = "request" /\ i \in m.mask
    \/ Waiting("subpacket") /\ subData.idx = i
    \/ RequestWaits /\ i \in reqData.mask
    \/ sending /\ i \in tx.mask

Account ==
    rProc.running =>
        /\ faults.losses >= Used
        /\ faults.losses > Used \/ \A i \in Missing : OnItsWay(i)
        /\ sending /\ ~sProc.ok => faults.losses > Used
        /\ \A m \in BagToSet(net) : m.type = "request" => Missing \subseteq m.mask
        /\ RequestWaits => Missing \subseteq reqData.mask

Quiet == TimedOut => BagToSet(net) = {} /\ ~Waiting("subpacket") /\ sQueue = <<>> /\ ~sending

QuietInv == AloneInv /\ Quiet

AccountInv == QuietInv /\ Account

\* What the receiver has used of its re-requests is a number.
LEMMA UsedType ==
    ASSUME ReceiverStateOK
    PROVE  Used \in Nat
BY ReceiverAssumption DEF ReceiverStateOK, Used

\* A time-out finds nothing on its way, so something was lost since the request before.
LEMMA LossBeforeTimeout ==
    ASSUME AccountInv, TimedOut
    PROVE  faults.losses > Used
<1>1. rProc.running /\ rx.mask \subseteq LowBits(rx.num) /\ rx.mask # LowBits(rx.num)
    BY DEF TimedOut, AccountInv, QuietInv, AloneInv, SystemInv, Coherent
<1>2. PICK i : i \in Missing
    BY <1>1 DEF Missing
<1>3. ~OnItsWay(i)
    BY DEF AccountInv, QuietInv, Quiet, OnItsWay, RequestWaits
<1>4. QED
    BY <1>1, <1>2, <1>3 DEF AccountInv, Account

\* A delivery deals with the time-out, if there is one.
LEMMA DeliveryEndsTimeout ==
    ASSUME ReceiverStateOK, DeliverToReceiver
    PROVE  ~TimedOut'
<1>1. CASE CheckTimeout
    BY <1>1 DEF CheckTimeout, Rerequest, GiveUp, TimedOut, ReceiverStateOK
<1>2. CASE LeaveOnForeignId \/ TakeSubPacket \/ DiscardSubPacket \/ StartReception
    BY <1>2 DEF LeaveOnForeignId, TakeSubPacket, DiscardSubPacket, StartReception, TimedOut, ReceiverStateOK
<1>3. QED
    BY <1>1, <1>2 DEF DeliverToReceiver, DeliverTimeout, DeliverSubPacket, DeliverSignaled, RefuseSignal,
        DeliverReceived

\* Nothing happens between a time-out and the delivery that deals with it, but a restart.
LEMMA QuietStep ==
    ASSUME QuietInv, OnePacketAtATime, Patient, Next
    PROVE  Quiet'
<1> SUFFICES ASSUME TimedOut'
             PROVE  (BagToSet(net) = {} /\ ~Waiting("subpacket") /\ sQueue = <<>> /\ ~sending)'
    BY DEF Quiet
<1>1. ReceiverStateOK
    BY DEF QuietInv, AloneInv, SystemInv, TypeOK
<1>2. ~ReceiverDelivers /\ ~ReceiverRestarts
    BY <1>1, DeliveryEndsTimeout DEF ReceiverDelivers, ReceiverRestarts, ReceiverReset, TimedOut
<1>3. CASE ReceiverTimesOut
    <2>1. BagToSet(net) = {} /\ rQueue = <<>> /\ sQueue = <<>> /\ ~sending
        BY <1>1, <1>3 DEF ReceiverTimesOut, NothingOnItsWay, EmptyBag, SetToBag, BagToSet
    <2>2. rQueue' = <<"timer">> /\ UNCHANGED <<net, sQueue, sending>>
        BY <1>3, <2>1 DEF ReceiverTimesOut, ReceiverTimerExpires, sender
    <2>3. QED
        BY <2>1, <2>2 DEF Waiting, BagToSet
<1>4. CASE TimedOut
    <2>1. BagToSet(net) = {} /\ ~Waiting("subpacket") /\ sQueue = <<>> /\ ~sending
        BY <1>4 DEF QuietInv, Quiet
    <2>2. ~Arrival /\ ~\E m \in BagToSet(net) : Loses(m) \/ Duplicates(m)
        BY <2>1 DEF Arrival
    <2>3. ~SenderDelivers /\ ~SenderTimesOut
        BY <2>1 DEF SenderDelivers, DeliverToSender, DeliverPeriod, DeliverRequested, SenderTimesOut,
            SenderTimerExpires, QuietInv, AloneInv, SystemInv, SendingInv, IdleIsTimerless
    <2>4. ~SenderNotifies /\ ~SenderRestarts
        BY <1>1, <1>4, SystemAssumption
        DEF SenderNotifies, SenderRestarts, OnePacketAtATime, TimedOut, QuietInv, AloneInv, SystemInv,
            TypeOK, Faults
    <2>5. ~ReceiverTimesOut
        BY <1>4 DEF ReceiverTimesOut, ReceiverTimerExpires, TimedOut
    <2>6. QED
        BY <1>2, <2>2, <2>3, <2>4, <2>5 DEF Next
<1>5. CASE ~TimedOut /\ ~ReceiverTimesOut
    <2>1. UNCHANGED <<rProc, rTimer>>
        BY <1>2, <1>5
        DEF Next, Arrival, Arrives, HandleSignal, HandleSubPacket, SenderDelivers, SenderTimesOut,
            SenderNotifies, SenderRestarts, Loses, Duplicates, receiver
    <2>2. QED
        BY <1>5, <2>1 DEF TimedOut
<1>6. QED
    BY <1>3, <1>4, <1>5

\* A step in which the reception goes on and what it lacks stays on its way.
LEMMA AccountKept ==
    ASSUME ReceiverStateOK, Account, rProc'.running, faults \in Faults, faults'.losses \in Nat,
           rProc.running, rProc'.left = rProc.left, Missing' \subseteq Missing,
           faults'.losses >= faults.losses,
           faults'.losses > Used \/ \A i \in Missing' : OnItsWay(i) => OnItsWay(i)',
           sending' /\ ~sProc'.ok => faults'.losses > Used \/ (sending /\ ~sProc.ok),
           \A m \in BagToSet(net') : m.type = "request" => m \in BagToSet(net),
           RequestWaits' => Missing' \subseteq reqData'.mask
    PROVE  Account'
<1>1. Used' = Used /\ Used \in Nat /\ faults.losses \in Nat
    BY UsedType, SystemAssumption DEF Used, Faults
<1>2. faults'.losses >= Used /\ (faults.losses > Used => faults'.losses > Used)
    BY <1>1 DEF Account
<1>3. faults'.losses > Used \/ \A i \in Missing' : OnItsWay(i)'
    BY <1>2 DEF Account
<1>4. sending' /\ ~sProc'.ok => faults'.losses > Used
    BY <1>2 DEF Account
<1>5. \A m \in BagToSet(net') : m.type = "request" => Missing' \subseteq m.mask
    BY DEF Account
<1>6. QED
    BY <1>1, <1>2, <1>3, <1>4, <1>5 DEF Account

\* A request the receiver sends asks for all that the reception it is for lacks.
LEMMA AskedFor ==
    ASSUME TypeOK, Sending(net), NEW id, NEW mask, out' = <<Request(id, mask)>>
    PROVE  BagToSet(net') = BagToSet(net) \cup {Request(id, mask)}
<1>1. /\ 1 \in 1..Len(out') /\ out'[1] = Request(id, mask) /\ \A k \in 1..Len(out') : k = 1
      /\ Request(id, mask).type = "request"
    BY DEF Request
<1>2. Datagrams(out') = {Request(id, mask)}
    BY <1>1 DEF Datagrams
<1>3. out' \in Seq({Request(id, mask)}) /\ IsABag(net)
    BY DEF TypeOK
<1>4. QED
    BY <1>2, <1>3, SendingType DEF BagToSet

\* A reception starts with everything asked for.
LEMMA AccountStarts ==
    ASSUME AccountInv, ReceiverDelivers, DeliverSignaled, StartReception
    PROVE  Account'
<1>1. /\ TypeOK /\ ReceiverStateOK /\ Waiting("signaled") /\ ~rProc.running
      /\ Sending(net) /\ UNCHANGED <<sender, faults>> /\ faults \in Faults
    BY HeadWaits DEF AccountInv, QuietInv, AloneInv, SystemInv, TypeOK, DeliverSignaled, OneSignal, ReceiverDelivers
<1>2. /\ \A m \in BagToSet(net) : m.type = "signal"
      /\ sQueue = <<>> /\ ~sending
    BY <1>1 DEF AccountInv, QuietInv, AloneInv, SignalAlone
<1>3. ~sending' /\ ~RequestWaits'
    BY <1>1, <1>2 DEF sender, RequestWaits
<1>4. out' = <<Request(sigData.id, LowBits(sigData.num))>>
    <2>1. TimeoutRequest = <<>>
        BY <1>1 DEF TimeoutRequest, TimedOut
    <2>2. QED
        BY <2>1 DEF StartReception
<1> DEFINE r == Request(sigData.id, LowBits(sigData.num))
<1>5. BagToSet(net') = BagToSet(net) \cup {r} /\ r.type = "request" /\ r.mask = LowBits(sigData.num)
    BY <1>1, <1>4, AskedFor DEF Request
<1> HIDE DEF r
<1>6. Missing' = r.mask
    BY <1>5 DEF Missing, StartReception
<1>7. Used' = 0 /\ faults'.losses \in Nat
    BY <1>1, ReceiverAssumption, SystemAssumption DEF Used, StartReception, Faults
<1>8. \A i \in Missing' : OnItsWay(i)'
    BY <1>5, <1>6 DEF OnItsWay
<1>9. \A m \in BagToSet(net') : m.type = "request" => Missing' \subseteq m.mask
    BY <1>2, <1>5, <1>6
<1>10. QED
    BY <1>3, <1>7, <1>8, <1>9 DEF Account

\* A re-request has a loss of its own to make up for.
LEMMA AccountRerequests ==
    ASSUME AccountInv, ReceiverDelivers, Rerequest, UNCHANGED rx, out' = TimeoutRequest
    PROVE  Account'
<1>1. /\ TypeOK /\ ReceiverStateOK /\ TimedOut /\ rProc.left > 0
      /\ Sending(net) /\ UNCHANGED <<sender, faults>> /\ faults \in Faults
    BY DEF AccountInv, QuietInv, AloneInv, SystemInv, TypeOK, Rerequest, ReceiverDelivers
<1>2. BagToSet(net) = {} /\ sQueue = <<>> /\ ~sending
    BY <1>1 DEF AccountInv, QuietInv, Quiet
<1>3. ~sending' /\ ~RequestWaits'
    BY <1>1, <1>2 DEF sender, RequestWaits
<1> DEFINE r == Request(rx.id, Missing)
<1>4. BagToSet(net') = {r} /\ r.type = "request" /\ r.mask = Missing
    <2>1. out' = <<r>>
        BY <1>1 DEF TimeoutRequest, MissingMask, Missing
    <2>2. QED
        BY <1>1, <1>2, <2>1, AskedFor DEF Request
<1> HIDE DEF r
<1>5. Missing' = Missing
    BY DEF Missing
<1>6. faults'.losses >= Used'
    <2>1. faults.losses > Used /\ faults.losses \in Nat /\ Used \in Nat
        BY <1>1, LossBeforeTimeout, UsedType, SystemAssumption DEF Faults
    <2>2. Used' = Used + 1
        BY <1>1, ReceiverAssumption DEF Used, Rerequest, ReceiverStateOK
    <2>3. QED
        BY <1>1, <2>1, <2>2
<1>7. \A i \in Missing' : OnItsWay(i)'
    BY <1>4, <1>5 DEF OnItsWay
<1>8. \A m \in BagToSet(net') : m.type = "request" => Missing' \subseteq m.mask
    BY <1>4, <1>5
<1>9. QED
    BY <1>3, <1>6, <1>7, <1>8 DEF Account

\* Nothing is sent in the step, and the sender and the network do nothing.
LEMMA NothingMoves ==
    ASSUME TypeOK, Sending(net), Datagrams(out') = {}, NEW X, out' \in Seq(X)
    PROVE  BagToSet(net') = BagToSet(net)
BY SendingType DEF TypeOK, BagToSet

\* Any other delivery to a reception that goes on.
LEMMA AccountDelivery ==
    ASSUME AccountInv, CarefulNodes, Next, ReceiverDelivers
    PROVE  Account'
<1> SUFFICES ASSUME rProc'.running PROVE Account'
    BY DEF Account
<1>1. /\ TypeOK /\ ReceiverStateOK /\ Account /\ DeliverToReceiver /\ ~FaultInjection
      /\ Sending(net) /\ UNCHANGED <<sender, faults>> /\ faults \in Faults
    BY DEF AccountInv, QuietInv, AloneInv, SystemInv, TypeOK, ReceiverDelivers, CarefulNodes
<1>2. ASSUME DeliverSignaled, StartReception
      PROVE  Account'
    BY <1>2, AccountStarts
<1>3. ASSUME rProc.running, rProc'.left = rProc.left, Datagrams(out') = {}, Missing' \subseteq Missing,
             UNCHANGED subData, \A i \in Missing' : Waiting("subpacket") /\ subData.idx = i => Waiting("subpacket")'
      PROVE  Account'
    <2>1. BagToSet(net') = BagToSet(net)
        <3>1. out' \in Seq(ReceiverOutputs)
            BY <1>1, ReceiverTypeStep DEF ReceiverStep, ReceiverTypeOK
        <3>2. QED
            BY <1>1, <1>3, <3>1, NothingMoves
    <2>2. (RequestWaits' <=> RequestWaits) /\ UNCHANGED <<reqData, sending, sProc, tx>>
        BY <1>1 DEF sender, RequestWaits
    <2>3. \A i \in Missing' : OnItsWay(i) => OnItsWay(i)'
        BY <1>3, <2>1, <2>2 DEF OnItsWay
    <2>4. RequestWaits' => Missing' \subseteq reqData'.mask
        BY <1>1, <1>3, <2>2 DEF Account
    <2>5. faults'.losses \in Nat /\ faults'.losses >= faults.losses
        BY <1>1, SystemAssumption DEF Faults
    <2>6. QED
        BY <1>1, <1>3, <2>1, <2>2, <2>3, <2>4, <2>5, AccountKept
<1>4. ASSUME CheckTimeout, UNCHANGED <<rx, subData>>, ~NextEvent("subpacket") \/ TimedOut,
             out' = TimeoutRequest
      PROVE  Account'
    <2>1. rProc.running
        BY <1>1, <1>4, CheckTimeoutStops
    <2>2. CASE TimedOut
        <3>1. Rerequest
            BY <1>1, <1>4, <2>2 DEF CheckTimeout, GiveUp, ReceiverStateOK
        <3>2. QED
            BY <1>4, <3>1, AccountRerequests
    <2>3. CASE ~TimedOut
        <3>1. rProc' = rProc
            BY <1>4, <2>3 DEF CheckTimeout, Rerequest, GiveUp
        <3>2. Datagrams(out') = {}
            <4>1. out' = <<>>
                BY <1>4, <2>3 DEF TimeoutRequest
            <4>2. QED
                BY <4>1 DEF Datagrams
        <3>3. Waiting("subpacket") => Waiting("subpacket")'
            BY <1>1, <1>4, <2>3, DeliveryStays
        <3>4. Missing' = Missing
            BY <1>4 DEF Missing
        <3>5. QED
            BY <1>3, <1>4, <2>1, <3>1, <3>2, <3>3, <3>4
    <2>4. QED
        BY <2>2, <2>3
<1>5. CASE DeliverTimeout
    BY <1>4, <1>5 DEF DeliverTimeout, NextEvent
<1>6. CASE DeliverReceived
    <2>1. Waiting("received")
        BY <1>1, <1>6, HeadWaits DEF DeliverReceived
    <2>2. ~rProc.running
        BY <2>1 DEF AccountInv, QuietInv, AloneInv, Announced
    <2>3. QED
        BY <1>1, <1>6, <2>2, CheckTimeoutStops DEF DeliverReceived
<1>7. CASE DeliverSignaled
    BY <1>2, <1>4, <1>7 DEF DeliverSignaled, RefuseSignal, NextEvent
<1>8. CASE DeliverSubPacket /\ rProc.running /\ ~TimedOut
    <2>1. TakeSubPacket \/ LeaveOnForeignId
        BY <1>1, <1>8 DEF DeliverSubPacket, DiscardSubPacket
    <2>2. TakeSubPacket /\ rProc' = rProc
        <3>1. ~LeaveOnForeignId
            BY <1>1 DEF LeaveOnForeignId, ReceiverStateOK
        <3>2. TakeSubPacket
            BY <2>1, <3>1
        <3>3. QED
            BY <1>1, <3>2 DEF TakeSubPacket, ReceiverStateOK
    <2>3. rx'.num = rx.num /\ rx'.mask = rx.mask \cup {subData.idx}
        BY <1>1, <2>2 DEF TakeSubPacket, ReceiverStateOK
    <2>4. Missing' \subseteq Missing \ {subData.idx} /\ UNCHANGED subData
        BY <1>8, <2>3 DEF Missing, DeliverSubPacket
    <2>5. Datagrams(out') = {}
        BY <1>8 DEF DeliverSubPacket, TimeoutRequest, Datagrams
    <2>6. QED
        BY <1>3, <1>8, <2>2, <2>4, <2>5
<1>9. CASE DeliverSubPacket /\ (TimedOut \/ ~rProc.running)
    <2>1. CheckTimeout /\ UNCHANGED <<rx, subData>> /\ out' = TimeoutRequest
        BY <1>9 DEF DeliverSubPacket
    <2>2. TimedOut
        BY <1>1, <1>9, <2>1, CheckTimeoutStops
    <2>3. QED
        BY <1>4, <2>1, <2>2
<1>10. QED
    BY <1>1, <1>5, <1>6, <1>7, <1>8, <1>9 DEF DeliverToReceiver

\* What the sender sends is in flight after it, with what was in flight.
LEMMA FramesFly ==
    ASSUME TypeOK, SenderStateOK, DeliverToSender, Sending(net)
    PROVE  /\ BagToSet(net) \cup Frames(out') = BagToSet(net')
           /\ \A m \in BagToSet(net') : m.type = "request" => m \in BagToSet(net)
<1>1. out' \in Seq(SenderOutputs) /\ IsABag(net)
    BY DeliverType DEF SenderTypeOK, TypeOK
<1>2. BagToSet(net') = BagToSet(net) \cup Datagrams(out')
    BY <1>1, SendingType DEF BagToSet
<1>3. Datagrams(out') = Frames(out')
    <2>1. Frames(out') \subseteq Datagrams(out')
        BY DEF Frames, Datagrams
    <2>2. QED
        BY <2>1, DeliverySendsFrames
<1>4. \A m \in Frames(out') : m.type = "subpacket"
    BY DEF Frames
<1>5. QED
    BY <1>2, <1>3, <1>4

\* A frame sent or refused: each sub-packet left to send still is, or is in flight.
LEMMA FrameAccounted ==
    ASSUME NEW t \in TxType, NEW accepted \in BOOLEAN, SendFrame(t, accepted),
           t.mask # {}, t.mask \subseteq LowBits(t.num), Frames(out') \subseteq BagToSet(net')
    PROVE  /\ sending' /\ sTimer' = "set" /\ (sProc'.ok <=> accepted)
           /\ \A i \in t.mask : OnItsWay(i)'
<1>1. IndicesSent = t.mask \ tx'.mask
    BY SendFrameClears
<1>2. sending' /\ sTimer' = "set" /\ sProc' = [running |-> TRUE, ok |-> accepted]
    BY Zenon DEF SendFrame
<1>3. sProc'.ok <=> accepted
    BY <1>2, Zenon
<1>4. \A f \in Frames(out') : f.type = "subpacket"
    BY DEF Frames
<1>5. ASSUME NEW i \in t.mask
      PROVE  OnItsWay(i)'
    <2>1. CASE i \in tx'.mask
        BY <1>2, <2>1 DEF OnItsWay
    <2>2. CASE i \notin tx'.mask
        <3>1. PICK f \in Frames(out') : f.idx = i
            BY <1>1, <1>5, <2>2 DEF IndicesSent
        <3>2. f \in BagToSet(net') /\ f.type = "subpacket"
            BY <1>4, <3>1
        <3>3. QED
            BY <3>1, <3>2 DEF OnItsWay
    <2>3. QED
        BY <2>1, <2>2
<1>6. QED
    BY <1>2, <1>3, <1>5

\* A sub-packet left to send, as the registered packet has them.
LEMMA MasksOfPacket ==
    ASSUME AloneInv
    PROVE  /\ sending => tx \in TxType /\ tx.mask \subseteq LowBits(tx.num)
           /\ RequestWaits => /\ Requested(tx) \in TxType /\ Requested(tx).mask = reqData.mask
                              /\ reqData.mask \subseteq LowBits(Requested(tx).num)
<1>1. SenderStateOK /\ SenderCurrent
    BY DEF AloneInv, SystemInv, TypeOK
<1>2. tx \in TxType /\ Requested(tx) \in TxType
    BY <1>1, RequestedType DEF SenderStateOK, TxType
<1>3. Requested(tx).mask = reqData.mask /\ Requested(tx).num = tx.num
    BY <1>1 DEF Requested, SenderStateOK
<1>4. RequestWaits => reqData.mask \subseteq LowBits(tx.num)
    BY <1>1 DEF SenderCurrent, Current, Registered, Belongs, SenderStateOK, Requests
<1>5. QED
    BY <1>1, <1>2, <1>3, <1>4 DEF SenderCurrent

\* The sender works on a transmission.  Of a request nothing is left out; a frame refused is a loss.
LEMMA AccountSenderDelivers ==
    ASSUME AccountInv, Next, SenderDelivers
    PROVE  Account'
<1> SUFFICES ASSUME rProc'.running PROVE Account'
    BY DEF Account
<1>1. /\ TypeOK /\ ReceiverStateOK /\ SenderStateOK /\ Account /\ AloneInv /\ DeliverToSender
      /\ Sending(net) /\ Counting("losses", Refusal) /\ UNCHANGED receiver /\ faults \in Faults
      /\ rProc.running /\ rProc'.left = rProc.left /\ UNCHANGED <<rx, subData>>
    BY DEF AccountInv, QuietInv, AloneInv, SystemInv, TypeOK, SenderDelivers, receiver
<1>2. /\ Used \in Nat /\ faults.losses \in Nat /\ faults'.losses \in Nat
      /\ faults'.losses >= faults.losses
      /\ Refusal = 1 => faults'.losses > Used
    <2>1. Used \in Nat /\ faults.losses \in Nat /\ Refusal \in {0, 1}
        BY <1>1, UsedType, SystemAssumption DEF Faults, Refusal
    <2>2. faults'.losses = faults.losses + Refusal
        BY <1>1 DEF Counting, Faults
    <2>3. faults.losses >= Used
        BY <1>1 DEF Account
    <2>4. QED
        BY <2>1, <2>2, <2>3
<1>3. Missing' = Missing /\ (Waiting("subpacket")' <=> Waiting("subpacket"))
    BY <1>1 DEF Missing, Waiting, receiver
<1>4. /\ BagToSet(net) \subseteq BagToSet(net') /\ Frames(out') \subseteq BagToSet(net')
      /\ \A m \in BagToSet(net') : m.type = "request" => m \in BagToSet(net)
    BY <1>1, FramesFly
<1>5. (RequestWaits' => RequestWaits) /\ UNCHANGED reqData
    BY <1>1, DeliveryKeepsPacket
<1>6. RequestWaits' => Missing' \subseteq reqData'.mask
    BY <1>1, <1>3, <1>5 DEF Account
<1>7. ASSUME \A i \in Missing : OnItsWay(i) => OnItsWay(i)',
             sending' /\ ~sProc'.ok => faults'.losses > Used \/ (sending /\ ~sProc.ok)
      PROVE  Account'
    <2>1. Missing' \subseteq Missing
        BY <1>3
    <2>2. \A i \in Missing' : OnItsWay(i) => OnItsWay(i)'
        BY <1>3, <1>7
    <2>3. QED
        BY <1>1, <1>2, <1>4, <1>6, <1>7, <2>1, <2>2, AccountKept
<1>8. ASSUME NEW i, OnItsWay(i), ~(sending /\ i \in tx.mask), ~(RequestWaits /\ ~RequestWaits')
      PROVE  OnItsWay(i)'
    BY <1>1, <1>3, <1>4, <1>5, <1>8 DEF OnItsWay
<1>9. CASE DeliverPeriod
    <2>1. RequestWaits => RequestWaits'
        BY <1>1, <1>9 DEF DeliverPeriod, RequestWaits, SenderStateOK
    <2>2. CASE ~Wakes
        <3>1. UNCHANGED <<tx, sending, sProc>>
            BY <1>9, <2>2 DEF DeliverPeriod
        <3>2. \A i \in Missing : OnItsWay(i) => OnItsWay(i)'
            BY <1>8, <2>1, <3>1 DEF OnItsWay
        <3>3. QED
            BY <1>7, <3>1, <3>2
    <2>3. CASE Wakes /\ Done
        <3>1. ~sending'
            BY <1>9, <2>3, Zenon DEF DeliverPeriod, Resume, FinishSending
        <3>2. CASE tx.mask = {}
            <4>1. \A i \in Missing : OnItsWay(i) => OnItsWay(i)'
                BY <1>8, <2>1, <3>2
            <4>2. QED
                BY <1>7, <3>1, <4>1
        <3>3. CASE ~sProc.ok
            <4>1. sending
                BY <2>3 DEF Wakes, AccountInv, QuietInv, AloneInv, SystemInv, SendingInv, NoStuckSending
            <4>2. faults.losses > Used
                BY <1>1, <3>3, <4>1 DEF Account
            <4>3. Missing' \subseteq Missing /\ faults'.losses > Used
                BY <1>2, <1>3, <4>2
            <4>4. QED
                BY <1>1, <1>2, <1>4, <1>6, <3>1, <4>3, AccountKept
        <3>4. QED
            BY <2>3, <3>2, <3>3 DEF Done
    <2>4. CASE Wakes /\ ~Done
        <3>1. sending /\ tx.mask # {} /\ sTimer # "set"
            BY <2>4 DEF Wakes, Done, AccountInv, QuietInv, AloneInv, SystemInv, SendingInv, NoStuckSending
        <3>2. PICK accepted \in BOOLEAN : SendFrame(tx, accepted)
            BY <1>9, <2>4, Zenon DEF DeliverPeriod, Resume
        <3>3. tx \in TxType /\ tx.mask \subseteq LowBits(tx.num)
            BY <1>1, <3>1, MasksOfPacket
        <3>4. /\ sending' /\ sTimer' = "set" /\ (sProc'.ok <=> accepted)
              /\ \A i \in tx.mask : OnItsWay(i)'
            BY <1>4, <3>1, <3>2, <3>3, FrameAccounted
        <3>5. \A i \in Missing : OnItsWay(i) => OnItsWay(i)'
            BY <1>8, <2>1, <3>4
        <3>6. ~sProc'.ok => faults'.losses > Used
            BY <1>2, <3>1, <3>4 DEF Refusal
        <3>7. QED
            BY <1>7, <3>5, <3>6
    <2>5. QED
        BY <2>2, <2>3, <2>4
<1>10. CASE DeliverRequested
    <2>1. RequestWaits
        BY <1>1, <1>10 DEF DeliverRequested, RequestWaits, SenderStateOK
    <2>2. Missing \subseteq reqData.mask
        BY <1>1, <2>1 DEF Account
    <2>3. Requested(tx) \in TxType /\ Requested(tx).mask = reqData.mask
          /\ reqData.mask \subseteq LowBits(Requested(tx).num)
        BY <1>1, <2>1, MasksOfPacket
    <2>4. CASE StartSending /\ reqData.mask = {}
        <3>1. ~sending'
            BY <2>4, Zenon DEF StartSending, FinishSending
        <3>2. \A i \in Missing : OnItsWay(i) => OnItsWay(i)'
            BY <2>2, <2>4
        <3>3. QED
            BY <1>7, <3>1, <3>2
    <2>5. CASE StartSending /\ reqData.mask # {}
        <3>1. PICK accepted \in BOOLEAN : SendFrame(Requested(tx), accepted)
            BY <2>5, Zenon DEF StartSending
        <3>2. /\ sending' /\ sTimer' = "set" /\ (sProc'.ok <=> accepted)
              /\ \A i \in reqData.mask : OnItsWay(i)'
            <4>1. Requested(tx).mask # {} /\ Requested(tx).mask \subseteq LowBits(Requested(tx).num)
                BY <2>3, <2>5
            <4>2. /\ sending' /\ sTimer' = "set" /\ (sProc'.ok <=> accepted)
                  /\ \A i \in Requested(tx).mask : OnItsWay(i)'
                BY <1>4, <2>3, <3>1, <4>1, FrameAccounted
            <4>3. QED
                BY <2>3, <4>2
        <3>3. sTimer # "set"
            BY <2>5 DEF StartSending, Wakes, AccountInv, QuietInv, AloneInv, SystemInv, SendingInv, IdleIsTimerless
        <3>4. ~sProc'.ok => faults'.losses > Used
            BY <1>2, <3>2, <3>3 DEF Refusal
        <3>5. QED
            BY <1>7, <2>2, <3>2, <3>4
    <2>6. ASSUME sending', tx' = Requested(tx),
                 ~sProc'.ok => faults'.losses > Used \/ (sending /\ ~sProc.ok)
          PROVE  Account'
        <3>1. \A i \in Missing : OnItsWay(i)'
            BY <2>2, <2>3, <2>6 DEF OnItsWay
        <3>2. QED
            BY <1>7, <2>6, <3>1
    <2>7. CASE TakeOverSending
        BY <2>6, <2>7 DEF TakeOverSending
    <2>8. CASE TakeOverAfterFrame
        <3>1. PICK accepted \in BOOLEAN :
                  sProc' = [running |-> TRUE, ok |-> accepted] /\ sTimer' = "set" /\ sending'
                  /\ tx' = Requested(tx) /\ sTimer # "set"
            BY <2>8 DEF TakeOverAfterFrame, Wakes
        <3>2. ~sProc'.ok => faults'.losses > Used
            BY <1>2, <3>1 DEF Refusal
        <3>3. QED
            BY <2>6, <3>1, <3>2
    <2>9. QED
        BY <1>10, <2>4, <2>5, <2>7, <2>8 DEF DeliverRequested
<1>11. QED
    BY <1>1, <1>9, <1>10 DEF DeliverToSender

\* Either timer goes off.
LEMMA AccountTimesOut ==
    ASSUME AccountInv, ReceiverTimesOut \/ SenderTimesOut
    PROVE  Account'
<1> SUFFICES ASSUME rProc'.running PROVE Account'
    BY DEF Account
<1>1. /\ TypeOK /\ ReceiverStateOK /\ SenderStateOK /\ Account /\ faults \in Faults
      /\ UNCHANGED <<rx, rProc, subData, tx, sending, sProc, reqData, net, faults>>
    BY DEF AccountInv, QuietInv, AloneInv, SystemInv, TypeOK, ReceiverTimesOut, ReceiverTimerExpires, SenderTimesOut,
        SenderTimerExpires, receiver, sender
<1>2. Waiting("subpacket")' <=> Waiting("subpacket")
    <2>1. CASE ReceiverTimesOut
        <3>1. rQueue' = Post(rQueue, "timer") /\ "timer" \in ReceiverEvents
            BY <2>1 DEF ReceiverTimesOut, ReceiverTimerExpires, Post, ReceiverEvents
        <3>2. QED
            BY <1>1, <3>1, PostStays
    <2>2. CASE SenderTimesOut
        BY <2>2 DEF SenderTimesOut, receiver, Waiting
    <2>3. QED
        BY <2>1, <2>2
<1>3. RequestWaits' <=> RequestWaits
    <2>1. CASE ReceiverTimesOut
        BY <2>1 DEF ReceiverTimesOut, sender, RequestWaits
    <2>2. CASE SenderTimesOut
        <3>1. sQueue' = Append(sQueue, "timer")
            BY <2>2 DEF SenderTimesOut, SenderTimerExpires
        <3>2. QED
            BY <1>1, <3>1 DEF RequestWaits, SenderStateOK
    <2>3. QED
        BY <2>1, <2>2
<1>4. Missing' = Missing /\ BagToSet(net') = BagToSet(net)
    BY <1>1 DEF Missing, BagToSet
<1>5. \A i \in Missing' : OnItsWay(i) => OnItsWay(i)'
    BY <1>1, <1>2, <1>3, <1>4 DEF OnItsWay
<1>6. faults'.losses \in Nat /\ faults'.losses >= faults.losses
    BY <1>1, SystemAssumption DEF Faults
<1>7. RequestWaits' => Missing' \subseteq reqData'.mask
    BY <1>1, <1>3, <1>4 DEF Account
<1>8. QED
    BY <1>1, <1>4, <1>5, <1>6, <1>7, AccountKept

\* A datagram less is all that changes in what is in flight.
LEMMA RestInFlight ==
    ASSUME TypeOK, NEW m, net' = BagRemove(net, m)
    PROVE  /\ BagToSet(net') \subseteq BagToSet(net)
           /\ \A x \in BagToSet(net) : x = m \/ x \in BagToSet(net')
<1>1. IsABag(net)
    BY DEF TypeOK
<1>2. QED
    BY <1>1 DEF BagRemove, BagToSet, IsABag

\* A sub-packet that arrives waits to be taken; a request that arrives, to be served.
LEMMA AccountArrives ==
    ASSUME AccountInv, CarefulNodes, NEW m \in BagToSet(net), Arrives(m)
    PROVE  Account'
<1> SUFFICES ASSUME rProc'.running PROVE Account'
    BY DEF Account
<1>1. /\ TypeOK /\ ReceiverStateOK /\ SenderStateOK /\ Account /\ faults \in Faults
      /\ rQueue = <<>> /\ sQueue = <<>> /\ net' = BagRemove(net, m) /\ UNCHANGED faults
    BY DEF AccountInv, QuietInv, AloneInv, SystemInv, TypeOK, Arrives, CarefulNodes
<1>2. /\ ~Waiting("subpacket") /\ ~RequestWaits
      /\ UNCHANGED <<rx, rProc, tx, sending, sProc>>
    BY <1>1 DEF Waiting, RequestWaits, Arrives, HandleSignal, HandleSubPacket, HandleRequest, receiver, sender
<1>3. /\ BagToSet(net') \subseteq BagToSet(net)
      /\ \A x \in BagToSet(net) : x = m \/ x \in BagToSet(net')
    BY <1>1, RestInFlight
<1>4. Missing' = Missing /\ faults'.losses \in Nat /\ faults'.losses >= faults.losses
    BY <1>1, <1>2, SystemAssumption DEF Missing, Faults
<1>5. CASE m.type = "signal"
    BY <1>2, <1>5 DEF AccountInv, QuietInv, AloneInv, OneSignal, SignalInFlight
<1>6. CASE m.type = "subpacket" /\ HandleSubPacket(m) /\ UNCHANGED sender
    <2>1. rQueue' = <<"subpacket">> /\ subData' = m
        BY <1>1, <1>6, QueueAssumption DEF HandleSubPacket, Post
    <2>2. Waiting("subpacket")' /\ ~RequestWaits'
        BY <1>2, <1>6, <2>1 DEF Waiting, RequestWaits, sender
    <2>3. \A i \in Missing' : OnItsWay(i) => OnItsWay(i)'
        <3>1. ASSUME NEW i, NEW x \in BagToSet(net), x.type = "subpacket", x.idx = i
              PROVE  OnItsWay(i)'
            BY <1>3, <2>1, <2>2, <3>1 DEF OnItsWay
        <3>2. ASSUME NEW i, NEW x \in BagToSet(net), x.type = "request", i \in x.mask
              PROVE  OnItsWay(i)'
            BY <1>3, <1>6, <3>2 DEF OnItsWay
        <3>3. ASSUME NEW i, sending, i \in tx.mask
              PROVE  OnItsWay(i)'
            BY <1>2, <3>3 DEF OnItsWay
        <3>4. QED
            BY <1>2, <3>1, <3>2, <3>3 DEF OnItsWay
    <2>4. QED
        BY <1>1, <1>2, <1>3, <1>4, <2>2, <2>3, AccountKept
<1>7. CASE m.type = "request" /\ HandleRequest(m) /\ UNCHANGED receiver
    <2>1. sQueue' = <<"requested">> /\ reqData' = m
        BY <1>1, <1>7, QueueAssumption DEF HandleRequest, Post
    <2>2. RequestWaits'
        BY <2>1 DEF RequestWaits
    <2>3. \A i \in Missing' : OnItsWay(i) => OnItsWay(i)'
        <3>1. ASSUME NEW i, NEW x \in BagToSet(net), x.type = "subpacket", x.idx = i
              PROVE  OnItsWay(i)'
            BY <1>3, <1>7, <3>1 DEF OnItsWay
        <3>2. ASSUME NEW i, NEW x \in BagToSet(net), x.type = "request", i \in x.mask
              PROVE  OnItsWay(i)'
            BY <1>3, <2>1, <2>2, <3>2 DEF OnItsWay
        <3>3. ASSUME NEW i, sending, i \in tx.mask
              PROVE  OnItsWay(i)'
            BY <1>2, <3>3 DEF OnItsWay
        <3>4. QED
            BY <1>2, <3>1, <3>2, <3>3 DEF OnItsWay
    <2>4. Missing' \subseteq reqData'.mask
        BY <1>1, <1>2, <1>4, <1>7, <2>1 DEF Account
    <2>5. QED
        BY <1>1, <1>2, <1>3, <1>4, <2>3, <2>4, AccountKept
<1>8. QED
    BY <1>5, <1>6, <1>7 DEF Arrives

\* A loss is counted, so what was lost need not be on its way.
LEMMA AccountLoses ==
    ASSUME AccountInv, NEW m \in BagToSet(net), Loses(m) \/ Duplicates(m)
    PROVE  Account'
<1> SUFFICES ASSUME rProc'.running PROVE Account'
    BY DEF Account
<1>1. /\ TypeOK /\ ReceiverStateOK /\ Account /\ faults \in Faults /\ rProc.running
      /\ UNCHANGED <<rx, rProc, rQueue, subData, tx, sending, sProc, sQueue, reqData>>
    BY DEF AccountInv, QuietInv, AloneInv, SystemInv, TypeOK, Loses, Duplicates, receiver, sender
<1>2. /\ Missing' = Missing /\ (Waiting("subpacket")' <=> Waiting("subpacket"))
      /\ (RequestWaits' <=> RequestWaits)
    BY <1>1 DEF Missing, Waiting, RequestWaits
<1>3. RequestWaits' => Missing' \subseteq reqData'.mask
    BY <1>1, <1>2 DEF Account
<1>4. faults.losses \in Nat /\ Used \in Nat /\ faults.losses >= Used
    BY <1>1, UsedType, SystemAssumption DEF Faults, Account
<1>5. CASE Loses(m)
    <2>1. faults'.losses = faults.losses + 1
        BY <1>1, <1>5 DEF Loses, Counting, Faults
    <2>2. faults'.losses \in Nat /\ faults'.losses >= faults.losses /\ faults'.losses > Used
        BY <1>4, <2>1
    <2>3. BagToSet(net') \subseteq BagToSet(net)
        BY <1>1, <1>5, RestInFlight DEF Loses
    <2>4. QED
        BY <1>1, <1>2, <1>3, <2>2, <2>3, AccountKept
<1>6. CASE Duplicates(m)
    <2>1. faults'.losses = faults.losses
        BY <1>1, <1>6 DEF Duplicates, Counting, Faults
    <2>2. faults'.losses \in Nat /\ faults'.losses >= faults.losses
        BY <1>4, <2>1
    <2>3. BagToSet(net') = BagToSet(net)
        <3>1. IsABag(net) /\ m \in DOMAIN net /\ net' = BagAdd(net, m)
            BY <1>1, <1>6 DEF TypeOK, BagToSet, Duplicates
        <3>2. DOMAIN BagAdd(net, m) = DOMAIN net \cup {m}
            BY <3>1, BagAddType
        <3>3. QED
            BY <3>1, <3>2 DEF BagToSet
    <2>4. \A i \in Missing' : OnItsWay(i) => OnItsWay(i)'
        BY <1>1, <1>2, <2>3 DEF OnItsWay
    <2>5. QED
        BY <1>1, <1>2, <1>3, <2>2, <2>3, <2>4, AccountKept
<1>7. QED
    BY <1>5, <1>6

LEMMA AccountStep ==
    ASSUME AccountInv, CarefulNodes, Next
    PROVE  Account'
<1>1. OnePacketAtATime /\ TypeOK /\ ~SenderRestarts
    BY SystemAssumption
    DEF CarefulNodes, SenderRestarts, OnePacketAtATime, AccountInv, QuietInv, AloneInv, SystemInv, TypeOK,
        Faults
<1>2. CASE ReceiverRestarts \/ SenderNotifies
    <2>1. ~rProc'.running
        BY <1>1, <1>2 DEF ReceiverRestarts, ReceiverReset, SenderNotifies, OnePacketAtATime, receiver
    <2>2. QED
        BY <2>1 DEF Account
<1>3. QED
    BY <1>1, <1>2, AccountDelivery, AccountTimesOut, AccountSenderDelivers, AccountArrives, AccountLoses
    DEF Next, Arrival

LEMMA QuietInvariant ==
    ASSUME OnePacketAtATime, Patient
    PROVE  Spec => []QuietInv
<1>1. Init => Quiet
    BY DEF Init, ReceiverInit, Quiet, TimedOut
<1>2. AloneInv /\ Quiet /\ [Next]_vars => Quiet'
    <2>1. UNCHANGED vars /\ Quiet => Quiet'
        BY DEF vars, Quiet, TimedOut, Waiting, receiver, sender, BagToSet
    <2>2. QED
        BY <2>1, QuietStep DEF QuietInv
<1>3. AloneInv /\ Quiet => QuietInv
    BY DEF QuietInv
<1>4. QED
    BY <1>1, <1>2, <1>3, AloneInvariant, PTL DEF Spec

LEMMA AccountInvariant ==
    ASSUME CarefulNodes
    PROVE  Spec => []AccountInv
<1>1. OnePacketAtATime /\ Patient
    BY DEF CarefulNodes
<1>2. Init => Account
    BY DEF Init, ReceiverInit, Account
<1>3. QuietInv /\ Account /\ [Next]_vars => Account'
    <2>1. ASSUME UNCHANGED vars, Account
          PROVE  Account'
        <3>1. UNCHANGED <<receiver, sender, net, faults>>
            BY <2>1 DEF vars
        <3>2. QED
            BY <2>1, <3>1
            DEF Account, Missing, Used, OnItsWay, Waiting, RequestWaits, receiver, sender, BagToSet
    <2>2. QED
        BY <2>1, AccountStep DEF AccountInv
<1>4. QuietInv /\ Account => AccountInv
    BY DEF AccountInv
<1>5. QED
    BY <1>1, <1>2, <1>3, <1>4, QuietInvariant, PTL DEF Spec

-----------------------------------------------------------------------------
(***************************************************************************)
(* The refinement.                                                         *)
(***************************************************************************)

LEMMA TimesOutAfterLossHolds ==
    ASSUME OnePacketAtATime, Prompt /\ Patient => ~FaultInjection
    PROVE  Spec => []TimesOutAfterLoss
<1>1. CASE CarefulNodes
    <2>1. AccountInv => TimesOutAfterLoss
        BY LossBeforeTimeout DEF TimesOutAfterLoss
    <2>2. QED
        BY <1>1, <2>1, AccountInvariant, PTL
<1>2. CASE ~(Prompt /\ Patient)
    <2>1. TimesOutAfterLoss
        BY <1>2 DEF TimesOutAfterLoss
    <2>2. QED
        BY <2>1, PTL
<1>3. QED
    BY <1>1, <1>2 DEF CarefulNodes

\* When the application signals one packet at a time and the sender does not restart, the two
\* nodes implement the abstract service, whatever is lost, duplicated or refused by the radio
\* and whenever the receiver restarts: the packet signaled is missed with its signal, received,
\* or given up, and one received is displayed whole, once.  Nodes that deliver their events
\* before the next datagram comes, and time out when nothing is on its way, give up only after
\* more losses than re-requests.
THEOREM ServiceKept ==
    ASSUME OnePacketAtATime, Prompt /\ Patient => ~FaultInjection
    PROVE  Spec /\ []NoOverflow => KeepsService
<1>1. AloneInv /\ AloneInv' /\ DisplayInv /\ TimesOutAfterLoss /\ [Next]_vars => [Service!Next]_(Service!vars)
    BY StepMaps, StutterMaps
<1>2. QED
    BY <1>1, InitMaps, AloneInvariant, DisplayInvariant, TimesOutAfterLossHolds, PTL
    DEF Spec, KeepsService, Service!Spec
=============================================================================
