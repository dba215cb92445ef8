-------------------------------- MODULE Reception --------------------------------
(***************************************************************************)
(* What a receiver promises, whatever the queue, the timer and the static  *)
(* buffers it is built from: one reception is open at a time; it gathers   *)
(* sub-packets and loses none of them; it asks again a bounded number of   *)
(* times, each time after a silence of its own; it completes exactly when  *)
(* it has gathered them all; and each completion is announced to the       *)
(* application once.                                                       *)
(***************************************************************************)
EXTENDS Naturals

CONSTANTS
    Parts,       \* indices a packet may have
    MaxRetries   \* times the receiver may ask again

VARIABLES
    open,        \* a reception is going on
    whole,       \* the sub-packets that make up the packet
    got,         \* those gathered
    retries,     \* times the receiver has asked again
    late,        \* a silence since it began, asked again or gathered has run out
    ready        \* completions not yet announced

reception == <<open, whole, got, retries, late>>

Init ==
    /\ open = FALSE
    /\ whole = {}
    /\ got = {}
    /\ retries \in 0..MaxRetries
    /\ late = FALSE
    /\ ready = 0

\* A new reception; it supersedes the one going on, if any, and the silence of that one.
Begin ==
    /\ open' = TRUE
    /\ whole' \in SUBSET Parts
    /\ got' = {}
    /\ retries' = 0
    /\ late' = FALSE

Silence ==
    /\ open
    /\ late' = TRUE
    /\ UNCHANGED <<open, whole, got, retries>>

Retry ==
    /\ open /\ late
    /\ retries < MaxRetries
    /\ retries' = retries + 1
    /\ late' = FALSE
    /\ UNCHANGED <<open, whole, got>>

\* The last retry was for nothing.
GiveUp ==
    /\ open /\ late
    /\ got # whole
    /\ retries = MaxRetries
    /\ open' = FALSE
    /\ late' = FALSE
    /\ UNCHANGED <<whole, got, retries>>

\* A sub-packet of another packet came: stop, with retries left and some sub-packets missing.
Abandon ==
    /\ open /\ ~late
    /\ got # whole
    /\ open' = FALSE
    /\ UNCHANGED <<whole, got, retries, late>>

Gather ==
    /\ open /\ ~late
    /\ \E i \in whole : got' = got \cup {i}
    /\ got' # whole
    /\ UNCHANGED <<open, whole, retries, late>>

Complete ==
    /\ open /\ ~late
    /\ \E i \in whole : got' = got \cup {i}
    /\ got' = whole
    /\ open' = FALSE
    /\ UNCHANGED <<whole, retries, late>>

\* The application learns of a completion; a later reception may end its silence at that moment.
Announce ==
    /\ ready > 0
    /\ ready' = ready - 1
    /\ Retry \/ GiveUp \/ UNCHANGED reception

\* The receiver restarts and has forgotten everything, completions included.
Reset ==
    /\ open' = FALSE
    /\ whole' = {}
    /\ got' = {}
    /\ retries' \in 0..MaxRetries
    /\ late' = FALSE
    /\ ready' = 0

Next ==
    \/ (Begin \/ Silence \/ Retry \/ GiveUp \/ Abandon \/ Gather) /\ UNCHANGED ready
    \/ Complete /\ ready' = ready + 1
    \/ Announce
    \/ Reset

Spec == Init /\ [][Next]_<<reception, ready>>
=============================================================================
