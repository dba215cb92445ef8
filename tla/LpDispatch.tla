------------------------------- MODULE LpDispatch -------------------------------
(***************************************************************************)
(* The UDP port of a node: large_packet_init and                           *)
(* large_packet_udp_listen_callback, which hands every datagram to         *)
(* lpsig_handle_data, lpreq_handle_data and lpsp_handle_data, one after    *)
(* the other.  Each recognises its messages by their first bytes, unpacks  *)
(* them into static event data and posts an event that points there.       *)
(*                                                                         *)
(* Other nodes send messages with lpsig_send, lpreq_send and lpsp_send;    *)
(* other programs may send anything to the port.                           *)
(***************************************************************************)
EXTENDS LpWire, FiniteSets

CONSTANTS
    Messages,     \* what the other nodes send
    Strays,       \* what other programs send: sequences of bytes
    Nodes,        \* where datagrams come from: address and port
    NoNode,
    Behind,       \* what may lie in memory behind a datagram
    MaxInFlight   \* bound: datagrams in flight

NoMessage == [kind |-> "none"]

ASSUME DispatchAssumption ==
    /\ \A m \in Messages : Sendable(m)
    /\ Strays \subseteq Seq(Bytes)
    /\ NoNode \notin Nodes
    /\ \A b \in Behind : b \in Seq(Bytes) /\ Len(b) >= SubPacketFront - LP_HEADER_SIZE
    /\ MaxInFlight \in Nat

VARIABLES
    connection,  \* large_packet_udp_connection
    air,         \* datagrams in flight, each with the message it was packed from, if any
    signaled,    \* lpsig_event_data
    requested,   \* lpreq_event_data
    subPacket,   \* lpsp_event_data, without the bytes
    payload,     \* the static payload of lpsp_handle_data
    posted       \* the events the latest step posted

eventData == <<signaled, requested, subPacket, payload>>
vars == <<connection, air, eventData, posted>>

-----------------------------------------------------------------------------

Init ==
    /\ connection = "none"
    /\ air = {}
    /\ signaled = [id |-> 0, num |-> 0, src |-> NoNode]
    /\ requested = [id |-> 0, mask |-> 0, period |-> 0, src |-> NoNode]
    /\ subPacket = [id |-> 0, idx |-> 0, num |-> 0, len |-> 0, src |-> NoNode]
    /\ payload = [i \in 1..PayloadMax |-> 0]
    /\ posted = <<>>

\* large_packet_init: a connection that cannot be opened is logged by the caller, and the node
\* goes on without.
SetUp ==
    /\ connection = "none"
    /\ connection' \in {"open", "failed"}
    /\ posted' = <<>>
    /\ UNCHANGED <<air, eventData>>

\* lpsig_send, lpreq_send or lpsp_send of another node
Send(node, m) ==
    /\ Cardinality(air) < MaxInFlight
    /\ air' = air \cup {[src |-> node, bytes |-> Pack(m), message |-> m]}
    /\ posted' = <<>>
    /\ UNCHANGED <<connection, eventData>>

\* A datagram of another program
Stray(node, bytes) ==
    /\ Cardinality(air) < MaxInFlight
    /\ air' = air \cup {[src |-> node, bytes |-> bytes, message |-> NoMessage]}
    /\ posted' = <<>>
    /\ UNCHANGED <<connection, eventData>>

\* Nobody listens.
Unheard(d) ==
    /\ connection # "open"
    /\ air' = air \ {d}
    /\ posted' = <<>>
    /\ UNCHANGED <<connection, eventData>>

\* large_packet_udp_listen_callback refuses these
TooShort(d) ==
    /\ connection = "open"
    /\ Len(d.bytes) < LP_HEADER_SIZE
    /\ air' = air \ {d}
    /\ posted' = <<>>
    /\ UNCHANGED <<connection, eventData>>

HandleSignal(d) ==
    signaled' = IF TakesSignal(d.bytes) THEN SignaledData(d.bytes, d.src) ELSE signaled

HandleRequest(d) ==
    requested' = IF TakesRequest(d.bytes) THEN RequestedData(d.bytes, d.src) ELSE requested

\* The payload copied over the beginning of the static one, and past its end if it is longer:
\* nothing compares payload_len with the size of the buffer.
Copied(b) ==
    [i \in (1..PayloadMax) \cup (1..PayloadLen(b)) |->
        IF i <= PayloadLen(b) THEN b[SubPacketFront + i] ELSE payload[i]]

\* Slip: the bytes copied before the length is checked.
HandleSubPacketHastily(d, behind) ==
    /\ payload' = IF HeaderIs(d.bytes, lpsp_header)
                  THEN [i \in 1..PayloadMax |-> IF SubPacketFront + i <= Len(d.bytes)
                                                THEN d.bytes[SubPacketFront + i] ELSE payload[i]]
                  ELSE payload
    /\ subPacket' = IF TakesSubPacket(d.bytes, behind)
                    THEN SubPacketData(d.bytes, d.src) ELSE subPacket

HandleSubPacket(d, behind) ==
    IF TakesSubPacket(d.bytes, behind)
    THEN /\ payload' = Copied(d.bytes)
         /\ subPacket' = SubPacketData(d.bytes, d.src)
    ELSE UNCHANGED <<payload, subPacket>>

EventIf(taken, event) == IF taken THEN <<event>> ELSE <<>>

\* The events for a datagram, in the order of the handlers.
Recognised(b, behind) ==
    EventIf(TakesSignal(b), "signal") \o EventIf(TakesRequest(b), "request")
        \o EventIf(TakesSubPacket(b, behind), "subpacket")

\* large_packet_udp_listen_callback; an event that finds the queue full is only logged.
Receive(d) ==
    /\ connection = "open"
    /\ Len(d.bytes) >= LP_HEADER_SIZE
    /\ air' = air \ {d}
    /\ \E behind \in Behind :
          /\ HandleSignal(d)
          /\ HandleRequest(d)
          /\ HandleSubPacket(d, behind)
          /\ posted' \in {Recognised(d.bytes, behind), <<>>}
    /\ UNCHANGED connection

Next ==
    \/ SetUp
    \/ \E node \in Nodes : \/ \E m \in Messages : Send(node, m)
                          \/ \E b \in Strays : Stray(node, b)
    \/ \E d \in air : Unheard(d) \/ TooShort(d) \/ Receive(d)

Spec == Init /\ [][Next]_vars

-----------------------------------------------------------------------------
(***************************************************************************)
(* Properties.                                                             *)
(***************************************************************************)

Senders == Nodes \cup {NoNode}

TypeOK ==
    /\ connection \in {"none", "open", "failed"}
    /\ \A d \in air : d.src \in Nodes /\ d.bytes \in Seq(Bytes)
    /\ signaled.src \in Senders /\ Fits(signaled.id, 2) /\ Fits(signaled.num, 1)
    /\ requested.src \in Senders /\ Fits(requested.id, 2)
    /\ Fits(requested.mask, MaskBytes) /\ Fits(requested.period, 2)
    /\ subPacket.src \in Senders /\ Fits(subPacket.id, 2)
    /\ Fits(subPacket.idx, 1) /\ Fits(subPacket.num, 1) /\ subPacket.len \in 0..PayloadMax
    /\ payload \in [1..PayloadMax -> Bytes]

\* The datagram d leaves the event data of its kind, and nothing else, as its sender meant it;
\* one that is no message leaves nothing.
ReadRight(d) ==
    LET m == d.message IN
    /\ posted' \in {<<>>, <<m.kind>>}
    /\ m.kind = "none" => posted' = <<>>
    /\ signaled' = IF m.kind = "signal"
                   THEN [id |-> m.id, num |-> m.num, src |-> d.src]
                   ELSE signaled
    /\ requested' = IF m.kind = "request"
                    THEN [id |-> m.id, mask |-> m.mask, period |-> m.period, src |-> d.src]
                    ELSE requested
    /\ subPacket' = IF m.kind = "subpacket"
                    THEN [id |-> m.id, idx |-> m.idx, num |-> m.num, len |-> Len(m.payload),
                          src |-> d.src]
                    ELSE subPacket
    /\ payload' = IF m.kind = "subpacket"
                  THEN [i \in 1..PayloadMax |-> IF i <= Len(m.payload) THEN m.payload[i]
                                                ELSE payload[i]]
                  ELSE payload

\* Every datagram that comes to an open port is read as what it was sent as, whatever the three
\* handlers, each given every datagram, make of its bytes, and whatever lies behind it.  (It
\* holds when every stray of at least two bytes is a Misfit.)
ReadsWhatWasSent ==
    [][ connection = "open" => \A d \in air \ air' : ReadRight(d) ]_vars

\* No message: one with the first byte of a header has another size than the messages of that
\* kind, and, for a signal or a request, less than 256 bytes.
Misfit(b) ==
    /\ b[1] = lpsig_header[1] => Len(b) # SignalSize /\ Len(b) < 256
    /\ b[1] = lpreq_header[1] => Len(b) # RequestSize /\ Len(b) < 256
    /\ b[1] = lpsp_header[1] =>
          Len(b) < SubPacketFront \/ Len(b) # SubPacketFront + b[7] + 256 * b[8]

HeaderOf(event) ==
    CASE event = "signal" -> lpsig_header
      [] event = "request" -> lpreq_header
      [] event = "subpacket" -> lpsp_header

SizeIs(event, b) ==
    CASE event = "signal" -> Len(b) = SignalSize
      [] event = "request" -> Len(b) = RequestSize
      [] event = "subpacket" -> Len(b) >= SubPacketFront

\* "Byte size of headers, which determines the type of message", "wrong lp signal packet size",
\* "wrong lp request packet size": an event is posted only for a datagram with the header and the
\* size of its kind.
HeaderDeterminesKind ==
    [][ \A d \in air \ air' : \A k \in 1..Len(posted') :
            /\ SubSeq(d.bytes, 1, LP_HEADER_SIZE) = HeaderOf(posted'[k])
            /\ SizeIs(posted'[k], d.bytes) ]_vars
=============================================================================
