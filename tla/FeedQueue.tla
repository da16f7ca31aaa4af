----------------------------- MODULE FeedQueue ------------------------------
(***************************************************************************)
(* What the Home feed promises its readers: one artifact on screen, a      *)
(* bounded first-in first-out queue of successors behind it, and nothing   *)
(* else that moves.                                                        *)
(***************************************************************************)
EXTENDS Integers, Sequences

CONSTANTS Ids, Depth

VARIABLES active, ready

Nothing == 0   \* no artifact is on screen

QueueInit == active = Nothing /\ ready = <<>>

Waiting(x) == \E i \in DOMAIN ready : ready[i] = x

\* The first feed, or the first after the active one expired.
Publish(x) ==
    /\ active = Nothing
    /\ ~Waiting(x)
    /\ active' = x
    /\ UNCHANGED ready

Prepare(x) ==
    /\ active # Nothing /\ active # x
    /\ ~Waiting(x)
    /\ Len(ready) < Depth
    /\ ready' = Append(ready, x)
    /\ UNCHANGED active

\* Rotation takes the oldest successor.
Rotate ==
    /\ ready # <<>>
    /\ active' = Head(ready)
    /\ ready' = Tail(ready)

\* Some go, none change places.
Subsequence(s, t) ==
    \E f \in [DOMAIN s -> DOMAIN t] :
        /\ \A i, j \in DOMAIN s : i < j => f[i] < f[j]
        /\ \A i \in DOMAIN s : s[i] = t[f[i]]

Expire ==
    /\ active' \in {active, Nothing}
    /\ Subsequence(ready', ready)

QueueNext ==
    \/ \E x \in Ids : Publish(x) \/ Prepare(x)
    \/ Rotate
    \/ Expire

QueueSpec == QueueInit /\ [][QueueNext]_<<active, ready>>

=============================================================================
