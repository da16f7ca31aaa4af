----------------------------- MODULE MCHomeFeed -----------------------------
(* Small instances of HomeFeed for TLC. *)
EXTENDS HomeFeed, TLC

Refreshing(b, t) ==
    [force |-> TRUE, launch |-> FALSE, baseline |-> b, token |-> t]

Launching(t) ==
    [force |-> FALSE, launch |-> TRUE, baseline |-> NoBaseline, token |-> t]

\* A client of the release before refresh_from_version.
LegacyRefresh ==
    [force |-> TRUE, launch |-> FALSE, baseline |-> NoBaseline, token |-> NoToken]

Opening == NoRequest

MCWaitingRequests == {LegacyRefresh}

MCQueueRequests == {Refreshing(1, NoToken)}

MCServingRequests == {Opening, Launching(NoToken), Launching("tab")}

MCTokenRequests == {Refreshing(2, "pull"), Launching("tab")}

MCSymmetry == Permutations(Actors)

=============================================================================
