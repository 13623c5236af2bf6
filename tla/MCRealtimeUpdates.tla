-------------------------- MODULE MCRealtimeUpdates --------------------------
(* A small instance of RealtimeUpdates for TLC. *)
EXTENDS RealtimeUpdates

\* text that reads as the header of a frame when it is taken for one: a short
\* fragment of text, and a frame that is skipped
A == [fin |-> FALSE, op |-> "text", len |-> 1]
B == [fin |-> TRUE, op |-> "close", len |-> 0]

Texts == {<<A>>, <<B>>}

\* the one frame with a length field of its own
Others == {[op |-> "ping", body |-> <<A, B>>]}

=============================================================================
