---------------------------- MODULE PacketService ----------------------------
(***************************************************************************)
(* What the two nodes promise together: the sender offers one packet at a  *)
(* time; an offer is missed, or taken up; a packet taken up is received    *)
(* or abandoned; one received is shown once, whole, and nothing else ever  *)
(* is.  A careful service abandons only after more losses than the         *)
(* receiver may ask again.                                                 *)
(***************************************************************************)
EXTENDS Naturals

CONSTANTS
    Packets,     \* what may be offered
    None,        \* no packet
    MaxRetries,  \* times the receiver may ask again
    Careful      \* abandons nothing without reason

VARIABLES
    phase,    \* of the packet offered latest
    current,  \* that packet
    losses,   \* since its offer
    restarts, \* of the receiver, since its offer
    shown     \* what the latest step showed

vars == <<phase, current, losses, restarts, shown>>

Moves(from, to) ==
    /\ phase = from
    /\ phase' = to
    /\ current' = IF to = "idle" THEN None ELSE current

Init ==
    /\ phase = "idle"
    /\ current = None
    /\ losses = 0
    /\ restarts = 0
    /\ shown = None

Offer ==
    /\ phase = "idle"
    /\ phase' = "offered"
    /\ current' \in Packets
    /\ losses' = 0
    /\ restarts' = 0
    /\ shown' = None

\* The offer itself is lost: nobody asks for it again.
Miss ==
    /\ Moves("offered", "idle")
    /\ losses' = losses + 1
    /\ shown' = None
    /\ UNCHANGED restarts

Lose ==
    /\ losses' = losses + 1
    /\ shown' = None
    /\ UNCHANGED <<phase, current, restarts>>

Begin == Moves("offered", "receiving") /\ shown' = None /\ UNCHANGED <<losses, restarts>>

Complete == Moves("receiving", "received") /\ shown' = None /\ UNCHANGED <<losses, restarts>>

Abandon ==
    /\ Careful => losses > MaxRetries
    /\ Moves("receiving", "idle")
    /\ shown' = None
    /\ UNCHANGED <<losses, restarts>>

Show == Moves("received", "idle") /\ shown' = current /\ UNCHANGED <<losses, restarts>>

\* The receiver restarts: a packet taken up is lost, one still on offer may come.
Forget ==
    /\ \/ phase = "offered" /\ UNCHANGED <<phase, current>>
       \/ Moves(phase, "idle")
    /\ restarts' = restarts + 1
    /\ shown' = None
    /\ UNCHANGED losses

\* The screen is blank again.
Rest == shown' = None /\ UNCHANGED <<phase, current, losses, restarts>>

Next ==
    Offer \/ Miss \/ Lose \/ Begin \/ Complete \/ Abandon \/ Show \/ Forget \/ Rest

Spec == Init /\ [][Next]_vars
=============================================================================
