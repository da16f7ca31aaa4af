----------------------------- MODULE MCHomeJobs -----------------------------
(* Small instances of HomeJobs for TLC. *)
EXTENDS HomeJobs, TLC

AbsentRow ==
    [status |-> "absent", scope |-> "none", type |-> "none", gen |-> "none",
     salt |-> 0, payload |-> "none", priority |-> 0, attempts |-> 0,
     max |-> 0, due |-> 0, claims |-> 0, token |-> 0, left |-> 0]

EmptyTable == [j \in JobIds |-> AbsentRow]

MCEmptyTables == {EmptyTable}

\* Rows left by the schedulers of an older release.
Left(st, s, t, g, p, prio, n) ==
    [AbsentRow EXCEPT !.status = st, !.scope = s, !.type = t, !.gen = g,
        !.payload = p, !.priority = prio, !.max = 2, !.attempts = n,
        !.claims = n, !.token = IF st = "running" THEN n ELSE 0,
        !.left = IF st = "running" THEN Lease ELSE 0]

\* The old rows r and room for new ones.
Table(r) == [j \in JobIds |-> IF j \in DOMAIN r THEN r[j] ELSE AbsentRow]

MCLegacyTables ==
    LET s == CHOOSE s \in Scopes : TRUE
        slotGen == CHOOSE g \in SlotGens : TRUE
        oldGen == CHOOSE g \in Gens \ SlotGens : TRUE
        p == CHOOSE p \in Payloads : Identity[p] # ""
        q == CHOOSE q \in Payloads \ {p} : Identity[q] # ""
        nobody == CHOOSE n \in Payloads : Identity[n] = ""
    IN  {Table(<<Left("pending", s, "candidates", oldGen, p, 30, 0),
                 Left("retry", s, "candidates", slotGen, p, 90, 1)>>),
         Table(<<Left("running", s, "candidates", oldGen, p, 30, 1),
                 Left("pending", s, "candidates", slotGen, p, 90, 0)>>),
         Table(<<Left("pending", s, "compose", oldGen, p, 40, 0),
                 Left("retry", s, "compose", slotGen, p, 40, 1)>>),
         Table(<<Left("running", s, "artwork", oldGen, p, 96, 1),
                 Left("retry", s, "artwork", slotGen, p, 96, 1),
                 Left("pending", s, "compose", oldGen, p, 40, 0)>>),
         Table(<<Left("pending", s, "artwork", oldGen, p, 96, 0),
                 Left("retry", s, "artwork", slotGen, p, 96, 1),
                 Left("running", s, "compose", oldGen, p, 40, 1)>>),
         Table(<<Left("pending", s, "artwork", oldGen, p, 96, 0),
                 Left("retry", s, "artwork", slotGen, q, 96, 1)>>),
         Table(<<Left("pending", s, "artwork", oldGen, nobody, 96, 0),
                 Left("retry", s, "artwork", slotGen, nobody, 96, 1)>>)}

\* The demands of HomeJobScheduler: idle enrichment, ordinary, coalesced and
\* interactive.
Idling(p) == [priority |-> p, expedite |-> FALSE, coalesce |-> FALSE, due |-> 1]
Ordinary(p) == [priority |-> p, expedite |-> FALSE, coalesce |-> FALSE, due |-> 0]
Coalesced(p) == [priority |-> p, expedite |-> FALSE, coalesce |-> TRUE, due |-> 0]
Urgent(p) == [priority |-> p, expedite |-> TRUE, coalesce |-> FALSE, due |-> 0]

MCDemands ==
    [t \in Types |->
        CASE t \in {"candidates", "radio"} ->
                {Idling(30), Coalesced(90), Urgent(110)}
          [] t = "supply" -> {Coalesced(105), Urgent(105)}
          [] t = "compose" -> {Ordinary(100)}
          [] t = "artwork" -> {Coalesced(96)}
          [] t = "interaction" -> {Ordinary(100)}]

\* Two kinds of refresh demand, one that yields and one that expedites.
MCRefreshDemands == [t \in Types |-> {Coalesced(90), Urgent(110)}]

MCStartupDemands ==
    [t \in Types |->
        CASE t = "artwork" -> {Coalesced(96)}
          [] t = "interaction" -> {Ordinary(100)}
          [] OTHER -> {}]

MCMaxAttempts == [t \in Types |-> 2]

MCBackoffSteps == <<1>>

MCSymmetry ==
    Permutations(Schedulers) \cup Permutations(Gens) \cup Permutations(Payloads)

\* Of a finished row only the key is ever read again, and whether it is deleted.
MCView ==
    <<[j \in JobIds |->
         IF jobs[j].status \in {"succeeded", "failed", "cancelled"}
         THEN <<jobs[j].scope, jobs[j].type, jobs[j].gen, jobs[j].salt>>
         ELSE IF jobs[j].status = "deleted" THEN <<>> ELSE <<jobs[j]>>],
      call, booted>>

\* Every payload is about an artist of its own, but p3 which names none.
MCIdentity == [p \in Payloads |-> IF p = "p3" THEN "" ELSE p]

=============================================================================
