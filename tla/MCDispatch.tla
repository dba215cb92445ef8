------------------------------- MODULE MCDispatch -------------------------------
(***************************************************************************)
(* Messages at the edges of their fields, and datagrams that are nearly    *)
(* messages.  Masks have 3 bytes, payloads up to 3.                        *)
(***************************************************************************)
EXTENDS LpDispatch

MCMessages ==
    { [kind |-> "signal", id |-> 258, num |-> 64],
      [kind |-> "signal", id |-> 65535, num |-> 255],
      [kind |-> "request", id |-> 258, mask |-> 16777215, period |-> 500],
      [kind |-> "request", id |-> 65280, mask |-> 65793, period |-> 65535],
      [kind |-> "subpacket", id |-> 258, idx |-> 63, num |-> 64, payload |-> <<1, 2, 3>>],
      [kind |-> "subpacket", id |-> 0, idx |-> 0, num |-> 1, payload |-> <<255>>],
      [kind |-> "subpacket", id |-> 0, idx |-> 0, num |-> 0, payload |-> <<>>] }

\* Nothing, a byte, headers alone, messages cut short or with a byte too many, and messages with
\* the header of another kind.
MCStrays ==
    { <<>>, <<84>>, lpsig_header, lpreq_header, lpsp_header,
      lpsig_header \o <<1, 0>>, lpsig_header \o <<1, 0, 2, 3>>,
      lpsig_header \o [i \in 1..9 |-> 0], lpreq_header \o <<1, 0, 2>>,
      lpreq_header \o [i \in 1..8 |-> 255], lpsp_header \o <<1, 0, 2>>,
      lpsp_header \o <<1, 0, 2, 3, 0>>, lpsp_header \o <<1, 0, 2, 3, 2, 0, 7>>,
      lpsp_header \o <<1, 0, 2, 3, 2, 0, 7, 8, 9>>, lpsp_header \o <<1, 0, 2, 3, 2, 1, 7, 8>>,
      <<0, 0, 0, 0, 0>>, <<0, 171, 1, 0, 2>> }

ASSUME StrayAssumption == \A b \in MCStrays : Len(b) >= LP_HEADER_SIZE => Misfit(b)

\* The size and the first byte of a signal, or of a request; a signal with 256 bytes too many.
MCLookalikes ==
    { <<84, 0, 1, 0, 2>>, <<242, 0>> \o [i \in 1..7 |-> 1], lpsig_header \o [i \in 1..259 |-> 1] }

\* Zeros behind a datagram, or a payload length that would make up for what it lacks.
MCBehind == { [i \in 1..6 |-> 0], [i \in 1..6 |-> 255], <<0, 0, 0, 0, 1, 0>> }
=============================================================================
