---------------------------- MODULE SharedBuffer ----------------------------
(***************************************************************************)
(* What the timeshift_buffer plugin promises its callers, each call an      *)
(* atomic step: a channel has at most one buffer, viewers join and leave    *)
(* it, it ends once, and a buffer that has ended never comes back.          *)
(***************************************************************************)
EXTENDS FiniteSets

CONSTANTS Channel, Viewer, Instance, NoOne

VARIABLES
    buffer,   \* the process that records each channel, or NoOne
    members,  \* the viewers registered with it
    over      \* the processes whose buffer has ended

vars == <<buffer, members, over>>

Init ==
    /\ buffer = [c \in Channel |-> NoOne]
    /\ members = [c \in Channel |-> {}]
    /\ over = {}

\* start_buffer, the first one for the channel
Start(c, i, vs) ==
    /\ buffer[c] = NoOne
    /\ i \notin over
    /\ \A d \in Channel : buffer[d] # i
    /\ \A u, v \in vs : u = v
    /\ buffer' = [buffer EXCEPT ![c] = i]
    /\ members' = [members EXCEPT ![c] = vs]
    /\ UNCHANGED over

\* start_buffer, reattaching
Join(c, v) ==
    /\ buffer[c] # NoOne
    /\ members' = [members EXCEPT ![c] = @ \cup {v}]
    /\ UNCHANGED <<buffer, over>>

\* stop_buffer by a viewer that is not the last; the reaper's pruning
Leave(c, vs) ==
    /\ buffer[c] # NoOne
    /\ vs # {}
    /\ members' = [members EXCEPT ![c] = @ \ vs]
    /\ UNCHANGED <<buffer, over>>

\* the last stop_buffer, the reaper, stop_all, a process found dead
Finish(c) ==
    /\ buffer[c] # NoOne
    /\ over' = over \cup {buffer[c]}
    /\ buffer' = [buffer EXCEPT ![c] = NoOne]
    /\ members' = [members EXCEPT ![c] = {}]

Next ==
    \E c \in Channel :
       \/ \E i \in Instance, vs \in SUBSET Viewer : Start(c, i, vs)
       \/ \E v \in Viewer : Join(c, v)
       \/ \E vs \in SUBSET Viewer : Leave(c, vs)
       \/ Finish(c)

Spec == Init /\ [][Next]_vars

=============================================================================
