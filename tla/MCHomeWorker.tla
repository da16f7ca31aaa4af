---------------------------- MODULE MCHomeWorker ----------------------------
(* Small instances of HomeWorker for TLC. *)
EXTENDS HomeWorker

AbsentRow ==
    [status |-> "absent", scope |-> "none", type |-> "none", gen |-> "none",
     salt |-> 0, payload |-> "none", priority |-> 0, attempts |-> 0,
     max |-> 0, due |-> 0, claims |-> 0, token |-> 0, left |-> 0]

FirstPayload == CHOOSE p \in Payloads : TRUE

FirstGen == CHOOSE g \in Gens : TRUE

\* Rows in the table when the workers start.
Queued(t, g, n) ==
    [AbsentRow EXCEPT !.status = "pending", !.scope = CHOOSE s \in Scopes : TRUE,
        !.type = t, !.gen = g, !.payload = FirstPayload,
        !.priority = 90, !.max = n]

TwoJobs(t, u) ==
    {[j \in JobIds |->
        CASE j = 1 -> Queued(t, FirstGen, 2)
          [] j = 2 -> Queued(u, FirstGen, 2)
          [] OTHER -> AbsentRow]}

\* Work for two lanes that share the inventory slot.
MCSlotTables == TwoJobs("candidates", "radio")

\* A repair of one artist, and room for demand that arrives meanwhile.
MCArtworkTables ==
    {[j \in JobIds |->
        IF j = 1 THEN Queued("artwork", FirstGen, 2) ELSE AbsentRow]}

Urgent(p) == [priority |-> p, expedite |-> TRUE, coalesce |-> FALSE, due |-> 0]
Coalesced(p) == [priority |-> p, expedite |-> FALSE, coalesce |-> TRUE, due |-> 0]

MCDemands ==
    [t \in Types |-> IF t = "artwork" THEN {Coalesced(96)} ELSE {Urgent(110)}]

MCMaxAttempts == [t \in Types |-> 2]
MCBackoffSteps == <<1>>
MCIdentity == [p \in Payloads |-> p]

\* Two lanes of one kind in processes of their own.
MCArtworkLanes == [w \in Workers |-> {"artwork"}]
MCOwnProcess == [w \in Workers |-> w]

\* The candidates lane and the radio lane of one process.
MCSlotLanes ==
    [w \in Workers |-> IF w = "w1" THEN {"supply", "candidates"} ELSE {"radio"}]
MCOneProcess == [w \in Workers |-> CHOOSE p \in Processes : TRUE]

=============================================================================
