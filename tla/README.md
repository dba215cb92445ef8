# A verification of mira-large-packets in TLA+

The program sends packets too large for one UDP datagram through a mesh network, cut into up to 64
sub-packets. A *sender* node announces a packet with a **signal**, a *receiver* node (the root of the
mesh) answers with a **request** carrying a 64-bit mask of the sub-packets it wants, and the sender
sends those **sub-packets** one by one at the requested period. What stays missing is requested again
after a time-out, a bounded number of times; a completed packet is announced to the application, which
prints it.

This directory holds TLA+ modules translated from that code, the TLC runs that check them on small
instances, and proofs checked by TLAPS for every value of the constants.

- [Inventory](#inventory) - the system's parts, their state, what is hard about them
- [Modules](#modules) - which module models what
- [Modelling decisions](#modelling-decisions)
- [Runs](#runs) - what is checked, with which bounds and why they are enough
- [Fairness](#fairness)
- [Findings](#findings)
- [Proofs](#proofs) - what is proved and along which argument
- [Not modelled](#not-modelled) and [plan](#plan)

To run it: `tlc -config MCReceiver.cfg MCReceiver.tla` (likewise for the other configurations, see
[Runs](#runs)), and `tlapm ReceiverProofs.tla` (likewise `SenderProofs`, `SystemProofs`,
`ServiceProofs`, `CountProofs`, `LargePacketLemmas`, `WireProofs`, `LeastElement`).

## Inventory

| Part | State | Operations | What makes it correct |
|---|---|---|---|
| `large_packet`, receiving half (`common/large_packet.c`) | `large_packet_rx` (id, received mask, length, number of sub-packets), the payload storage, the receive process: its timer, `re_tx_requests_left` | take a sub-packet, discard it (fault injection), leave on a foreign id, time out and ask again, give up, complete | never waits without a timer; asks for exactly what it lacks; a bit in the mask means the bytes are there; completes once, when and only when all has come; ends |
| `large_packet`, sending half | `large_packet_tx` (id, bytes, mask of what is left to send), `large_packet_currently_sending`, the send process and its timer | register, send (refused while sending), next sub-packet, finish | the flag never stays up; one frame a period; a bit is cleared exactly when its frame was taken; the frames tile the packet; ends when idle |
| `large_packet`, set-up and dispatch | the UDP connection | open the port; give every datagram to all three message handlers | a datagram is taken by the handler of its kind and by no other |
| `lp_signal`, `lp_request`, `lp_subpacket` | one static event-data buffer each, and a static payload | pack and send; recognise, unpack, fill the buffer, post an event that points to it | what comes out is what was put in; what is no message changes nothing; an event delivered late or twice does no harm |
| byte order (`common/utils.h`) | - | store and load an integer of any width | a load undoes a store |
| sub-packet masks (in `large_packet.c`) | - | shifts and bitwise operations on 64-bit words | a mask of n bits, of 64 too, is the set of the first n sub-packets |
| receiver application (`receiver/`) | (uses `large_packet_rx`) | on a signal: reset `large_packet_rx`, request the whole packet, restart the receive process; on completion: print | what is displayed is a whole packet |
| sender application (`sender/`) | `packet_id`, `route_established`, where it waits | wait for the root and the route; every period register and signal a packet; on a request: copy it into `large_packet_tx` and send | what is sent under an id is what was registered under it |
| operating system, mesh network (external) | event queue, timers, datagrams in flight | deliver an event to every process; let a timer expire; deliver, lose, duplicate, reorder a datagram | - |

**How they interact.** Each node is one thread: protothreads under one event queue. The UDP callback
unpacks a datagram, overwrites the static event data of its message type and posts an event that holds
only a pointer to it. A broadcast event visits every process in turn, the one started last first; so
on the receiver the receive process sees a signal *before* `signal_to_request_proc` kills and restarts
it, and on the sender the send process runs *before* `reply_to_request_proc` rewrites the
`large_packet_tx` it is sending from. An event timer is expired from the moment its event is posted,
and any event delivered between then and its own makes the process take its time-out branch. The two
nodes share nothing but datagrams.

**What is hard**, each at its line in the `hazards` of `PROJECT.json`: event data overwritten before
delivery; the time-out racing the last sub-packet; a signal in the middle of a reception; a request in
the middle of a transmission; a registration between a request and its answer; late and duplicated
sub-packets; the announcement read after a reset; full queues; refused frames; a restarted sender or
receiver; a signal that is lost; the last sub-packet's size; masks of exactly as many bits as a mask
has; datagrams that are nearly messages, too short for the field that is read, or 256 bytes too long.

## Modules

| Module | Models |
|---|---|
| `LargePacketDefs` | the arithmetic that cuts a packet, the mask operations, the three messages |
| `EventQueue` | the operating system of a node: a bounded event queue, and the port `out` that takes what a step sends or prints |
| `Receiver` | the receiver node: receive process, application, event queue, static event data |
| `Reception` | what a receiver promises, abstractly: open, gather, retry after a silence, give up or abandon, complete, announce. `Receiver` implements it (`KeepsPromise`) |
| `Sender` | the sender node: send process, application, event queue, static event data |
| `LargePacketSystem` | both nodes and the network between them; extends `Receiver` and `Sender`, which share the port `out` and nothing else |
| `PacketService` | what the two nodes promise together, abstractly: offer, miss, begin, complete, abandon, show, and forget when the receiver restarts. `LargePacketSystem` implements it (`KeepsService`) |
| `LpWire` | the bytes of the three messages: little-endian store and load, packing, recognising, unpacking |
| `LpDispatch` | the UDP port of a node: set-up, the listen callback and the three handlers, with datagrams of other programs |
| `MaskSets`, `MaskWords` | the masks as sets of indices, and as words with the shifts and bitwise operations of the code. `MaskWords` implements `MaskSets` (`WordsAreSets`) |
| `MCReceiver`, `MCSender`, `MCSystem`, `MCDispatch`, `MCMasks` | small instances for TLC |
| `LargePacketLemmas`, `LeastElement` | lemmas about `LargePacketDefs` and `EventQueue`, and about least elements of sets of numbers |
| `ReceiverProofs`, `SenderProofs` | theorems about the two nodes, each alone, and that `Receiver` implements `Reception` |
| `SystemProofs` | theorems about the two nodes and the network between them |
| `ServiceProofs` | that `LargePacketSystem` implements `PacketService` |
| `CountProofs` | that each byte received is counted once |
| `WireProofs` | theorems about the bytes of messages and about the port |

`LargePacketSystem` works with whole messages and with masks as sets. That it may is what the other two
groups show: `ReadsWhatWasSent` of `LpDispatch` says that a message sent arrives as the same message at
the one handler of its kind, and `WordsAreSets` that the words of the code do what the sets do.

State and actions follow the code name by name; the `map` of `PROJECT.json` gives the lines of each
definition. In both node modules one step is *one event delivered to all processes*, one datagram
handled by the UDP callback, or one timer posted: nothing in the code runs between the two ends of such
a step.

| `Receiver` | code |
|---|---|
| `rx`, `storage` | `large_packet_rx`, `large_packet_payload_storage` (one cell per sub-packet: whose bytes lie there) |
| `rProc`, `rTimer` | `large_packet_receive_proc`: running, `re_tx_requests_left`; `timeout_timer` |
| `rQueue`, `sigData`, `subData` | the event queue; the static data behind its events |
| `HandleSignal`, `HandleSubPacket` | `lpsig_handle_data`, `lpsp_handle_data` |
| `CheckTimeout` = nothing, `Rerequest` or `GiveUp` | the time-out branch, taken on *any* event once the timer has expired |
| `DiscardSubPacket`, `LeaveOnForeignId`, `TakeSubPacket` | the sub-packet branch |
| `StartReception`, `RefuseSignal` | `signal_to_request_proc` |
| `DeliverReceived` | `large_packet_monitor_proc` |
| `ReceiverReset` | power loss: RAM is lost, `signal_to_request_proc` and `large_packet_monitor_proc` wait anew |

| `Sender` | code |
|---|---|
| `tx`, `sending` | `large_packet_tx`, `large_packet_currently_sending` |
| `sProc`, `sTimer` | `large_packet_send_proc`: running, `sub_packet_send_status >= 0`; its timer |
| `notify`, `route`, `packetId` | `packet_ready_notify_proc`: where it waits, `route_established`, `packet_id` |
| `NoRoot`, `RootWithoutRoute`, `RootWithRoute`, `RouteEstablished` | one turn of its loop, up to the next wait |
| `SendFrame`, `FinishSending`, `Resume` | `next_sub_packet_send` and one turn of the loop of `large_packet_send_proc` |
| `StartSending`, `TakeOverSending`, `TakeOverAfterFrame` | a request delivered: the send process's turn, then `reply_to_request_proc` with `large_packet_send` |
| `SenderReset` | power loss: nothing is kept in flash |

| `LpDispatch` | code |
|---|---|
| `connection` | `large_packet_udp_connection`, opened or not by `large_packet_init` (`SetUp`) |
| `signaled`, `requested`, `subPacket`, `payload` | `lpsig_event_data`, `lpreq_event_data`, `lpsp_event_data`, the static payload |
| `Receive`, `TooShort` | `large_packet_udp_listen_callback` |
| `HandleSignal`, `HandleRequest`, `HandleSubPacket` | `lpsig_handle_data`, `lpreq_handle_data`, `lpsp_handle_data` with `lp*_unpack_buffer` |
| `Send` | `lpsig_send`, `lpreq_send`, `lpsp_send` of another node, with `lp*_pack_buffer` |
| `Stray` | a datagram of another program |

Definitions commented `Slip:` (`RerequestUntimed`, `SendFrameUnchecked`, `WholeMask`, ...) are no part
of the model: each is a plausible mistake in the code of the definition that follows it, and the
property that `PROJECT.json` names with it in `mutants` is violated when the slip takes the
definition's place.

## Modelling decisions

- **Bytes.** A sub-packet's payload is abstracted to the id of the packet it was cut from, its index
  and its size; `NoBody` stands for bytes of no packet. `SubpacketMaxBytes` and `MaxSubpackets` (330
  and 64 in the code) are parameters. A mask is the set of its bits at 1. `len` is kept modulo 2^16,
  packet ids modulo `MaxPacketId + 1`.
- **Bytes on the wire** exist in `LpWire` and `LpDispatch` only. A datagram is a sequence of bytes; the
  memory behind it, which `lpsp_unpack_buffer` reads for the length field of a datagram too short to have
  one, is any member of `Behind`. A sub-packet with `payload_len` above 330, which no sender of this program
  sends, is accepted and copied past the end of the static payload, in the code as in `Copied`. `Strays` has
  none: one would make the payload longer than its buffer, against `TypeOK`, which for this reason is a check of
  the run and no theorem. Nor has it one that is byte for byte a message: nothing can tell it from one.
- **Words.** A mask of `MaskWords` has as many bits as a packet may have sub-packets (64 in the code). A shift
  by the width of its type is undefined in C; it gives no bit, or is taken modulo the width.
- **One sender, one receiver.** Addresses and ports are left out, as the code does not compare them.
- **Time.** There is no clock: a set timer may expire at any moment. The code relies on time in three
  places, which the constants of `LargePacketSystem` state: `Patient` (a time-out of ten periods outlasts
  whatever is on its way), `Prompt` (a node has delivered its events before the next datagram comes)
  and `Calm` (a packet is signaled once, after the traffic of the one before has ended: the example
  generates a packet every 180 s). Each run says which it assumes; without `Calm` and `Patient` the
  findings below occur.
- **Operating system and network** (external, modelled from how the code uses them). The queue is
  bounded; a post that does not fit is dropped and only logged by the code. Delivery is in order,
  most recently started process first. `process_start` runs the process to its first wait. The events
  the system broadcasts when a process exits are left out: they wake a process only when its timer has
  expired, as its own event in the queue will. The network holds a bag of datagrams.
- **Refused frames.** `mira_net_udp_send_to` may fail; for a sub-packet the code tests it (`accepted`
  in `Sender`), for a signal or a request it only logs, and the datagram counts as lost.
- **Fault injection** is the action `DiscardSubPacket`, enabled by `FaultInjection`.
- **`PacketLen`** gives the bytes registered under each id; the application of this repository registers
  the same ones each time.

## Runs

| Run | Configuration | Shows |
|---|---|---|
| receiver | `MCReceiver.cfg` | The receiver, with its restarts, against a network that brings any signal and sub-packet at any time. `ReceiverTypeOK`, `NoLostWakeup`, `MarkedIsStored`, `RequestsWhatIsMissing`; it implements `Reception` (`KeepsPromise`); receptions end once the network is silent (`EndsAfterSilence`). A signal in the middle of a reception may find the old timer's event in the queue: `KeepsPromise` has it that the new reception asks again only after a silence of its own |
| sender | `MCSender.cfg` | The sender against any requests at any time, refused frames, restarts. `SenderTypeOK`, `NoStuckSending`, `IdleMeansDone`, `Paced`, `SentIsRequested`, `FramesTilePacket`; transmissions end once requests stop (`EndsAfterLastRequest`) |
| system | `MCSystem.cfg` | Both nodes, one datagram lost or frame refused, one duplicated, reordering, time-outs at any moment; `Calm`. The two nodes implement `PacketService` (`KeepsService`): a packet is shown at most once, as the one signaled, and whole (`DisplaysWholePacket`), sent from the right bytes (`SendsWhatItNames`); receptions end only done (`LeavesOnlyWhenDone`), and end when all has come (`EndsWhenAllReceived`) |
| restart | `SystemRestart.cfg` | Both nodes with a restart of either at any moment, without `Calm`: the sender, restarted or not, registers and signals packets in the middle of a transmission and of a reception, sub-packets overtake the signal of their packet, and a restarted sender sends the empty sub-packet. Neither node hangs (`NoLostWakeup`, `NoStuckSending`), and both come to rest (`NodesComeToRest`), unless the sender is asked for ever for sub-packets that it does not have |
| delivery | `MCSystemDelivery.cfg` | `Calm`, `Prompt`, `Patient`, three parts, three re-requests, up to four losses for each signaled packet, signals included, and a restart of the receiver: a reception with no more losses than re-requests ends with the packet displayed (`DeliversDespiteLosses`), its length counted right (`CountsEachByteOnce`), and `KeepsService` with the service *careful*: one is abandoned only after more losses than that |
| dispatch | `MCDispatch.cfg` | All three messages, with values at the edges of their fields, and seventeen datagrams that are nearly messages, from two nodes to one port. `TypeOK`; each is read as what it was sent as, or as nothing (`ReadsWhatWasSent`) |
| masks | `MCMasks.cfg` | Words of three bits and counts of up to four: `WordsAreSets` |
| leaves, display, counts, completes | `System*.cfg` | the [findings](#findings); TLC finds each property violated |
| headers | `DispatchHeaders.cfg` | likewise, with datagrams that only look like messages |

`leaves` and `display` check on a `Calm`-less system what `system` finds to hold on a calm one, and `counts`
gives up the patience that `delivery` assumes: what these three find is not seen by the runs that pass. The
configuration of `display` lets the sender restart: the empty sub-packet (finding 4) and a registration in the
middle of a transmission (`README.md:148-153` of the repository) violate `DisplaysWholePacket` there too, in
behaviours longer than the one TLC reports.

**Bounds.** Sub-packets have 2 bytes and packets 2 or 3 sub-packets, so that first, middle and last ones,
short and full last ones, and a mask with all its bits at 1 (64 in the code) occur; three packets (two
in the system) give a packet, another of another length, and one too large to be accepted. Queues hold
2 or 3 events: both the full queue and the event overtaken by another occur. One re-request makes "ask
again" and "give up" both happen; the delivery run has three, and one more loss than re-requests, so that
giving up happens too. `MaxPacketId` is 1 or 2, so that ids wrap. In the receiver's run `LenModulus` is 6 (2^16 in the code), so
that a length counted twice overflows. `MaxSignals`,
`MaxDuplicates`, `MaxSenderRestarts` bound how often each thing happens in the system, `MaxLosses` and
`MaxReceiverRestarts` how often since the latest signal, and `MaxInFlight` how many datagrams the sender
leaves in flight (it matters only after a restart, when a transmission can go on for ever). The run with
restarts has three signals, so that one is for packet 1 and a later one, after the sender's restart, for
packet 0 again; with `Calm` gone this takes `Prompt` and `Patient` to remain checkable, and what they exclude,
overwritten event data and early time-outs around a restart, is covered for `NoLostWakeup` and
`NoStuckSending` by theorems, and for the rest by the runs of each node alone. All packets of
the sender's and the system's runs have equally many sub-packets, as the example's have; with differing
numbers, the mask of a request for one packet can reach beyond another, which the repository's
README.md:148-151 declares unsupported. On the wire, masks have 3 bytes (8 in the code) and payloads up to
3 (330), and one datagram is in flight at a time, as the handlers look at one only. The receiver and
sender run with deadlock checked, and so do the port and the masks; in the system the bounded network may
really end.

## Fairness

`ReceiverFairSpec` and `SenderFairSpec` ask for weak fairness of `DeliverToReceiver` and `DeliverToSender`
(the scheduler of the operating system goes on taking events off its queue) and of `ReceiverTimerExpires` and
`SenderTimerExpires` (a set timer expires); nothing is assumed of the
network or of the application's timers. `FairSpec` of the system asks the same of both nodes and that a
datagram that stays in flight arrives; losses remain possible up to their bound, and no fairness is
asked of `SenderNotifies`. The liveness properties of a node alone are stated for an environment that falls
silent (`<>[][~ReceiverNetwork]_receiverVars`, `<>[][~SenderNetwork]_senderVars`), since a network that never
stops sending can keep a reception open for ever: each sub-packet sets the timer anew, as the code does. In the
system this happens too: a restarted sender with no packet registered answers a request for ever with the
empty sub-packet, and the wait for the root, after which it would register one, need not end.
`NodesComeToRest` is therefore stated for behaviours in which, again and again, the sender is asked for nothing
that it does not have (`[]<>(tx.mask \subseteq LowBits(tx.num))`); without this premise TLC finds that neither
`sending ~> ~sending` nor `rProc.running ~> ~rProc.running` holds.

## Findings

Each is a violation run; `PROJECT.json` quotes the lines.

1. **leaves** - a late sub-packet of another packet ends the reception (`PROCESS_EXIT` at
   `common/large_packet.c:262`) with sub-packets missing and re-requests left.
2. **display** - the announcement of a completed packet carries no data; a signal delivered before it has
   reset `large_packet_rx`, and length 0 is printed.
3. **counts** - `len` grows with every sub-packet taken, also one received before, and the string is
   ended at the wrong place.
4. **completes** - completion is tested against the number of sub-packets that the latest one carries
   (`common/large_packet.c:280`). A restarted sender, which has no packet registered, answers a request with
   a zeroed sub-packet 0 of 0; when that is the last one missing, the receiver has every bit and does not
   complete.
5. **headers** - `memcmp` compares one byte of the header (a parenthesis in the wrong place), and the size is
   compared as `uint8_t`: datagrams that only look like messages are taken for them.

Finding 4 has further consequences, which a restart of the sender (`MaxSenderRestarts = 1`) shows on the
other constants of `MCSystem.cfg`: that sub-packet is marked as received without a byte stored (`MarkedIsStored`),
and a sender with bits beyond `num_sub_packets` in its mask goes on sending it for ever, clearing bit 0 each time
(against `SentIsRequested`), until a packet is registered. Without `Calm` the rest of that packet then completes
the reception, and a packet without its first sub-packet is displayed; or, the receiver having been at
packet 1, a sub-packet of packet 0 overtakes the signal of packet 0 and ends the reception as in finding 1.
Without `Calm`, a late request is answered under its id with the bytes of the packet
registered since (`SendsWhatItNames`; README.md:150 admits it). The drawing at
`common/lp_subpacket.c:182` gives `payload_len` 8 bits; the code packs and reads 16.

## Proofs

TLAPS checks the following for every value of the constants, under the named assumptions of the modules
only (`SizeAssumption`, `PacketAssumption`, `QueueAssumption`, `ReceiverAssumption`, `SystemAssumption`,
`WireAssumption`, `DispatchAssumption`): sizes, bounds and queues of at least 1, packet lengths natural numbers,
masks of 1 to 8 bytes, messages whose fields fit. There is no assumption on fairness: the theorems are about
`ReceiverSpec`, `SenderSpec` and `Spec`.

| Theorem | States |
|---|---|
| `ReceiverProofs!ReceiverTypeCorrect` | `ReceiverSpec => []ReceiverTypeOK` |
| `ReceiverProofs!WakeupHolds` | `ReceiverSpec => []NoLostWakeup` |
| `ReceiverProofs!StorageHolds` | `ReceiverSpec => []MarkedIsStored` |
| `ReceiverProofs!RequestsHold` | `ReceiverSpec => RequestsWhatIsMissing` |
| `ReceiverProofs!PromiseKept` | `ReceiverSpec => KeepsPromise`: the receiver implements `Reception` |
| `SenderProofs!SenderTypeCorrect` | `SenderSpec => []SenderTypeOK` |
| `SenderProofs!SendingEnds` | `SenderSpec => []NoStuckSending` |
| `SenderProofs!IdleIsDone` | `SenderSpec => []IdleMeansDone` |
| `SenderProofs!PaceHolds` | `SenderSpec => Paced` |
| `SenderProofs!FramesTile` | `SenderSpec => FramesTilePacket`, with packets of equally many sub-packets |
| `SenderProofs!RequestsServed` | `SenderSpec => SentIsRequested`, with packets of equally many sub-packets |
| `SystemProofs!TypeCorrect` | `Spec => []TypeOK` |
| `SystemProofs!NodesWakeUp` | `Spec => []NoLostWakeup` |
| `SystemProofs!NodesNeverStick` | `Spec => []NoStuckSending` |
| `SystemProofs!MarkedHolds` | `Spec => []MarkedIsStored`, one packet at a time |
| `SystemProofs!EndsHolds` | `Spec => []EndsWhenAllReceived`, one packet at a time |
| `SystemProofs!LeavesHolds` | `Spec => LeavesOnlyWhenDone`, one packet at a time |
| `SystemProofs!SendsHolds` | `Spec => SendsWhatItNames`, one packet at a time |
| `SystemProofs!TilesHolds` | `Spec => FramesTilePacket`, one packet at a time, packets of any numbers of sub-packets |
| `SystemProofs!ServedHolds` | `Spec => SentIsRequested`, one packet at a time, packets of any numbers of sub-packets |
| `SystemProofs!AsksHolds` | `Spec => RequestsWhatIsMissing`, one packet at a time |
| `SystemProofs!DisplaysHolds` | `Spec /\ []NoOverflow => DisplaysWholePacket`, one packet at a time |
| `ServiceProofs!ServiceKept` | `Spec /\ []NoOverflow => KeepsService`, one packet at a time; without fault injection if `Prompt` and `Patient` |
| `CountProofs!CountsHold` | `Spec => []CountsEachByteOnce`, one packet at a time, `Prompt`, `Patient`, no duplicates, `LengthFits` |
| `CountProofs!CarefulDisplaysHold` | `Spec => DisplaysWholePacket`, likewise |
| `CountProofs!CarefulServiceKept` | `Spec => KeepsService`, likewise and without fault injection |
| `WireProofs!LoadStore` | loading what was stored in n bytes gives the number back, for every n it fits |
| `WireProofs!ReadsRight` | `Spec => ReadsWhatWasSent`, when the datagrams of other programs are misfits |

**Steps and messages.** What a node does in a step is proved once, for a step that takes its messages from
given sets: `ReceiverStep(signals, subPackets)` and `SenderStep`. The theorems about a node alone put in
whatever its network brings; those about the system put in what is in flight.

**Receiver.** (With restarts at any moment.) `ReceiverTypeOK` and `NoLostWakeup` are inductive (the latter with the
types): a post leaves the timer's event in the queue, a delivery leaves a running process with its timer set.
`MarkedIsStored` is not: that a sub-packet's bytes are stored whole needs to know that the static event data are
those of a real sub-packet as long as an event for them waits, however often they were overwritten, and that
the reception's number of sub-packets is its packet's own. That is `Coherent`, which says in addition that
the mask has only bits of the packet and that a running reception lacks something. `RequestsWhatIsMissing`
follows from the same invariant: a time-out only happens to a running reception, which lacks something.
So does `PromiseKept`: every step is mapped to an action of `Reception` or to none. That the timer of a
running process has expired is the end of a silence, `late`; every start, re-request and sub-packet sets the timer,
and the events of timers set before are found not to count. The number of
announcements due is that of "received" events in the queue, and what has to be shown of it is that taking
off the head, which moves every event up one place, takes off one announcement if the head is one
(`TailAnnounces`), and that a completion's own event always finds room, its sub-packet's having just left.

**Sender.** `SendingInv` adds to the two invariants that an idle process has its timer off; without it, a
request could start the process under a running timer, which `Paced` excludes. `FramesTile` and
`RequestsServed` rest on `MasksFit`: no mask, neither of the transmission nor of a request that waits in the
queue, has a bit beyond `num_sub_packets`. That is inductive only when a registration cannot shrink
the number of sub-packets under a waiting mask; the theorems name this hypothesis (`EqualPackets`), and the
consequences of finding 4 show it is needed. `SubPacketsTile` is the arithmetic of the cut.

**The two nodes.** `TypeCorrect` shows that whatever is lost, duplicated or reordered and whichever node
restarts, only messages of the three kinds come to a node, so that all that is proved of a node for any
messages holds in the system: `NodesWakeUp` and `NodesNeverStick` need no more. The other theorems
need to know what the messages say, and hold one packet at a time (`OnePacketAtATime`: `Calm`, and a sender
that does not restart; the receiver may restart at any moment). `SystemInv` says that then whatever is in
flight, waits in a queue, is being received or is left to send *belongs to the packet registered last*
(`NetCurrent`, `ReceiverCurrent`, `SenderCurrent`), and that this packet is registered as the application gave
it (`Registered`). No part is inductive alone: a sub-packet in flight is right because the mask it was picked by
was, the mask because the request was, the request because the reception it completes was, the reception
because the signal was, and a registration in between would break the circle anywhere, as findings 1 and 2 show. From it
the messages are those `Coherent` is about; a sub-packet of another id never comes (`LeavesHolds`); a mask
never reaches beyond the packet, which the sender alone needs packets of equal numbers for
(`ServedHolds`, `TilesHolds`); and the id a request carries is that of the bytes registered (`SendsHolds`).

`DisplaysHolds` is about two events with any number of others between them, the completion of a reception and
the display of what it left in `large_packet_rx` and the storage. Three things could happen in between: a new
reception, a sub-packet stored, and the `\0` written into the packet. That none does is `DisplayInv`, which
rests on `OneSignal`: there is at most one signal, in the bag or as an event in the queue, and while there is
one, no reception goes on and no announcement waits. Where the `\0` falls is a matter of the length: it is at least
the bytes of the sub-packets marked (`Intact`; at least only, for finding 3 makes it more), so that the whole packet
lies before it (`BytesOfAll`, `IntactIsLongEnough`). This fails when the `uint16_t` overflows, which enough
sub-packets received twice can bring about; hence the hypothesis `[]NoOverflow`: while a reception goes on,
`len` has room for one more sub-packet.

**The service.** `ServiceKept` maps every step of the two nodes, and of the network, to an action of
`PacketService` or to none. Three things have to be known for it.

- *A signal is offered to a receiver at rest*, so that the service's phases follow each other. `AloneInv` says
  so: while a signal is in flight nothing else is, the sender is idle and the receiver's queue is empty. So its
  event finds room; no step but a restart of the receiver comes before it arrives, and no step but the
  receiver's own before it is delivered. There is at most one announcement, of the packet signaled last, and no
  reception while it waits.
- *What is printed is the packet*, whole and once: `DisplayInv` above, hence `NoOverflow`.
- *A careful receiver gives up only after more losses than re-requests.* No state tells which losses a
  reception has met, so the invariant is an account (`Account`): the losses are at least the re-requests used,
  and when they are no more than those, every sub-packet the reception lacks *is on its way* (`OnItsWay`): in
  flight, waiting to be taken, asked for by a request in flight or waiting, or left to send. Each step moves a
  sub-packet along that way or counts a loss: a datagram lost, or a frame refused, which ends the transmission
  with all that was left of it. At a time-out nothing is on its way (`Quiet`: `Patient` brings it about when
  the timer goes off, and it lasts until the time-out is taken, for nothing is left to arrive), but something
  is lacking; so there was one more loss than re-requests. Fault injection drops sub-packets without a loss
  being counted, and is therefore excluded when the service is careful.

**Counting.** `CountsHold` says when the length that finding 3 is about *is* right. A sub-packet is counted
twice if it is asked for twice, or set again in a mask it was sent from, or twice in the bag, or on its way
while one like it waits, or delivered twice from overwritten event data. `Once` excludes each of them while a
reception goes on: a request is the only thing on its way; the mask left to send, the sub-packets in flight,
the one that waits and those marked have nothing in common; each datagram is in the bag once. It is inductive
with `Quiet` (a receiver asks only when nothing is on its way) and with `Prompted` (an event with data is posted
to an empty queue only). Then `len` is exactly `BytesOf` the mask (`Counted`), given `LengthFits`:
`SubpacketMaxBytes * MaxSubpackets < LenModulus`, in the code 330 * 64 = 21120 < 65536. From this `NoOverflow`
follows (`RoomHolds`), and with it `CarefulDisplaysHold` and `CarefulServiceKept`, which assume nothing of the
length: the constants of `MCSystemDelivery.cfg` satisfy their hypotheses. `Prompt`, `Patient` and the absence of duplicates are all
needed: with any one of them given up, TLC finds `CountsEachByteOnce` violated on the other constants of that
configuration.

TLC checked `SystemInv`, `OneSignal` and `DisplayInv` as invariants, on the constants of `MCSystem.cfg` with a
restart of the receiver and with `LenModulus = 6`, and `AccountInv`, `OnceInv`, `Counted` and `NoOverflow` on those of
`MCSystemDelivery.cfg`, where they hold in all 90113 reachable states.

`Least` (a non-empty set of natural numbers has a least element, for `pick_next_to_send`) is proved from
the library's fact that inclusion is well-founded on finite sets.

**The wire.** Every datagram in flight is a message packed by `Pack` or a stray (`CarriesWhatWasSent`, an
invariant). In a packed message each field is found where it was put: a message is a concatenation of
blocks, and a block that begins at a place of the whole comes out of `Field` there, so that `LoadStore`
gives its value back. The first bytes of the three headers differ, so no other handler takes it, and its
length fits 8 bits for a signal or a request. A stray is taken by none because it is a `Misfit`; the
hypothesis of the theorem, `MisfitStrays`, asks exactly that of strays of at least two bytes, and the finding
*headers* shows it is needed. That a sub-packet too short for its length field is refused whatever lies
behind it follows from its size alone.

**Model-checked only.** Liveness (`EndsAfterSilence`, `EndsAfterLastRequest`, `DeliversDespiteLosses`,
`NodesComeToRest`), which the prover does not handle under fairness; `WordsAreSets`, since the bitwise operators
are recursive; and the `TypeOK` of `LpDispatch`. Four of
the five properties that the [findings](#findings) violate are theorems under hypotheses that exclude the
finding (`LeavesHolds`, `DisplaysHolds`, `CountsHold`, `EndsHolds`); of the fifth, `ReadsRight` proves what the
misfits leave of it.

## Not modelled

- Logging (`P_ERR`, `P_DEBUG`, `RUN_CHECK`, `RUN_CHECK_MIRA`): it only prints. A node whose port cannot be
  opened is modelled in `LpDispatch`; the models of the nodes begin after a successful set-up.
- The mesh network, UART, build files.
- Several senders: the code compares neither address nor port (README.md:153-155 of the repository).
- Real time beyond `Patient` and `Prompt`.

## Plan

1. *Done*: both nodes, their composition, the abstract reception, their runs and proofs.
2. *Done*: packing, unpacking and dispatch of the three messages with their widths and checks, proved
   right; the masks as words.
3. *Done*: the abstract delivery service, which `LargePacketSystem` under `Calm` implements; restarts of the
   receiver; lost signals.
4. *Done*: proofs of the invariants of the composed system and of what it sends and displays; types of the port.
5. *Done*: proofs that `LargePacketSystem` implements `PacketService`, and that each byte is counted once.
6. Two senders and one receiver, for the mix-up README.md:153-155 admits.
