------------------------------ MODULE BusGate ------------------------------
(***************************************************************************)
(* What the node graph of miniaudio promises to the code that owns sounds: *)
(* a bus is out, in, or leaving; the audio thread takes hold of buses that *)
(* are not out, and a detach returns only when it holds the bus no more.   *)
(* So whoever saw a detach return may free what the bus belongs to.        *)
(***************************************************************************)
CONSTANT Buses

VARIABLES
    gate,    \* "out", "in" or "leaving", for each bus
    held     \* the buses the audio thread is reading

gateVars == <<gate, held>>

Init ==
    /\ gate = [b \in Buses |-> "out"]
    /\ held = {}

Attach(b) ==
    /\ gate[b] = "out"
    /\ gate' = [gate EXCEPT ![b] = "in"]
    /\ UNCHANGED held

BeginDetach(b) ==
    /\ gate[b] = "in"
    /\ gate' = [gate EXCEPT ![b] = "leaving"]
    /\ UNCHANGED held

EndDetach(b) ==
    /\ gate[b] = "leaving"
    /\ b \notin held
    /\ gate' = [gate EXCEPT ![b] = "out"]
    /\ UNCHANGED held

\* A bus chosen before it was marked as detached is still taken afterwards.
Take(b) ==
    /\ gate[b] # "out"
    /\ held' = held \union {b}
    /\ UNCHANGED gate

Drop(b) ==
    /\ b \in held
    /\ held' = held \ {b}
    /\ UNCHANGED gate

Next == \E b \in Buses : Attach(b) \/ BeginDetach(b) \/ EndDetach(b) \/ Take(b) \/ Drop(b)

Spec == Init /\ [][Next]_gateVars

=============================================================================
