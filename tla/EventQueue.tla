------------------------------- MODULE EventQueue -------------------------------
(***************************************************************************)
(* What the operating system of either node is modelled by: an event queue *)
(* of a bounded size, and the port that takes what a step sends or prints. *)
(***************************************************************************)
EXTENDS Naturals, Sequences, FiniteSets

CONSTANT QueueSize  \* events the operating system can queue

ASSUME QueueAssumption == QueueSize \in Nat \ {0}

VARIABLE out  \* what the latest step of a node sent or printed

\* process_post: an event that does not fit is dropped, and its poster only logs it
Post(queue, event) == IF Len(queue) < QueueSize THEN Append(queue, event) ELSE queue

\* The datagrams among what a step of a node puts out, and how often each is among them.
Datagrams(messages) ==
    { messages[k] : k \in { j \in 1..Len(messages) : messages[j].type # "printed" } }

Copies(m, messages) == Cardinality({ k \in 1..Len(messages) : messages[k] = m })
=============================================================================
