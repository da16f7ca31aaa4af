------------------------------ MODULE JobFifo ------------------------------
(***************************************************************************)
(* What the job queue of miniaudio promises: jobs are handed to workers in *)
(* the order they were posted in, each to one worker.  A quit job goes     *)
(* back to the end of the queue for the next worker.                       *)
(***************************************************************************)
EXTENDS Sequences

CONSTANTS Workers, Jobs, NoJob

VARIABLES
    queue,    \* the jobs posted and not yet handed out
    hand      \* the job of each worker, or NoJob

fifoVars == <<queue, hand>>

Init ==
    /\ queue = <<>>
    /\ hand = [w \in Workers |-> NoJob]

Put(j) ==
    /\ queue' = Append(queue, j)
    /\ UNCHANGED hand

Get(w) ==
    /\ hand[w] = NoJob
    /\ queue # <<>>
    /\ hand' = [hand EXCEPT ![w] = Head(queue)]
    /\ queue' = Tail(queue)

Finish(w) ==
    /\ hand[w] # NoJob
    /\ hand' = [hand EXCEPT ![w] = NoJob]
    /\ UNCHANGED queue

Next ==
    \/ \E j \in Jobs : Put(j)
    \/ \E w \in Workers : Get(w) \/ Finish(w)

Spec == Init /\ [][Next]_fifoVars

=============================================================================
