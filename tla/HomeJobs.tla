------------------------------ MODULE HomeJobs ------------------------------
(***************************************************************************)
(* The durable Home job table (home_feed_jobs) and the transactions of     *)
(* HomeJobRepository.  One action is one SQLite transaction: BEGIN         *)
(* IMMEDIATE serialises writers, so what interleaves is transactions.  The *)
(* calls that are more than one transaction (enqueue_coalesced,            *)
(* enqueue_singleton) keep their progress in call, one caller at a time    *)
(* per scheduler.                                                          *)
(*                                                                         *)
(* Time.  Rows carry timers relative to now: due is run_after - now, left  *)
(* is lease_expires_at - now.  Both stop at -Skew, below which every       *)
(* comparison the code makes has the same answer.  A call reads            *)
(* time.time() before it waits for the write lock, so a transaction works  *)
(* with a timestamp up to Skew old: its age is the parameter a.            *)
(***************************************************************************)
EXTENDS Integers, Sequences, FiniteSets

CONSTANTS
    Scopes,        \* accounts (user_scope_id)
    Types,         \* the job types of this instance
    Gens,          \* generation keys callers ask for
    SlotGens,      \* those of the form compose:slot:...
    Payloads,      \* job payloads
    Identity,      \* [Payloads -> artist identity or ""], for artwork payloads
    JobIds,        \* rows that can ever be inserted (a bound), in order
    Schedulers,    \* threads that schedule jobs
    Demands,       \* [Types -> set of demands the scheduler makes]
    MaxAttempts,   \* [Types -> max_attempts the scheduler asks for]
    BackoffSteps,  \* the doubling delays 5, 10, 20, ... in ticks
    BackoffCap,    \* the 300 second cap, in ticks
    Delays,        \* explicit delay_seconds of retries, in ticks
    Lease,         \* HOME_JOB_LEASE_SECONDS, in ticks
    Skew,          \* oldest timestamp a transaction can carry, in ticks
    MaxPreserved,  \* bound: claims of one row given back by preserve_attempt
    Tables         \* the tables a process can find at its first start

AllTypes == {"interaction", "supply", "candidates", "radio", "artwork",
             "compose"}

\* The job types scheduled through enqueue_singleton.
SingletonTypes == Types \cap {"supply", "candidates", "radio", "compose"}

\* The job types whose duplicates reconcile_queue cancels at startup.
RefreshTypes == Types \cap {"candidates", "radio"}

Demand == [priority : Nat, expedite : BOOLEAN, coalesce : BOOLEAN, due : Nat]

ASSUME TypesAssumption == Types \subseteq AllTypes
ASSUME GensAssumption == SlotGens \subseteq Gens
ASSUME JobIdsAssumption == JobIds \subseteq Nat \ {0}
ASSUME TimeAssumption == Lease \in Nat /\ Skew \in Nat /\ Skew < Lease
ASSUME DelayAssumption ==
    Delays \subseteq Nat /\ BackoffSteps \in Seq(Nat) /\ BackoffCap \in Nat
ASSUME BoundAssumption == MaxPreserved \in Nat
ASSUME DemandAssumption ==
    \A t \in Types :
        /\ MaxAttempts[t] \in Nat \ {0}
        /\ Demands[t] \subseteq Demand


VARIABLES
    jobs,    \* home_feed_jobs, by job_id
    call,    \* the multi-transaction call each scheduler is in
    booted   \* a HomeRepositorySet has run its startup reconciliation

vars == <<jobs, call, booted>>

Lesser(x, y) == IF x < y THEN x ELSE y
Greater(x, y) == IF x < y THEN y ELSE x

Ages == 0 .. Skew

-----------------------------------------------------------------------------
(* Rows. *)

Waiting(r) == r.status \in {"pending", "retry"}
Running(r) == r.status = "running"
Actionable(r) == Waiting(r) \/ Running(r)
Terminal(r) == r.status \in {"succeeded", "failed", "cancelled"}
\* absent: never inserted; deleted: gone with its account.
Exists(r) == r.status \notin {"absent", "deleted"}

\* lease_expires_at > timestamp, for a timestamp a ticks old.
Live(r, a) == Running(r) /\ r.left > -a
Expired(r, a) == Running(r) /\ r.left <= -a
Due(r, a) == Waiting(r) /\ r.due <= -a

Of(r, s, t) == Exists(r) /\ r.scope = s /\ r.type = t

\* Mutant: finished jobs no longer count for deduplication.
HasKeyOpen(r, s, t, g) ==
    Of(r, s, t) /\ Actionable(r) /\ r.gen = g /\ r.salt = 0

\* salt is the uuid suffix of a generation key that collided; 0 is none.
HasKey(r, s, t, g) == Of(r, s, t) /\ r.gen = g /\ r.salt = 0

NewRow(s, t, g, salt, p, d, a) ==
    [status |-> "pending", scope |-> s, type |-> t, gen |-> g, salt |-> salt,
     payload |-> p, priority |-> d.priority, attempts |-> 0,
     max |-> MaxAttempts[t], due |-> d.due - a, claims |-> 0, token |-> 0,
     left |-> 0]

\* run_after of a row that is not actionable is never read again: due is 0.
Closed(r, st) ==
    [r EXCEPT !.status = st, !.token = 0, !.left = 0, !.due = 0]

\* Mutant: taking over an expired lease costs no attempt.
LeasedAgain(r, a) ==
    [r EXCEPT !.status = "running",
              !.attempts = IF Running(r) THEN r.attempts ELSE r.attempts + 1,
              !.claims = r.claims + 1, !.token = r.claims + 1,
              !.left = Lease - a]

\* claims numbers the leases of a row: a fresh uuid4 token each.
Leased(r, a) ==
    [r EXCEPT !.status = "running", !.attempts = r.attempts + 1,
              !.claims = r.claims + 1, !.token = r.claims + 1,
              !.left = Lease - a]

Requeued(r, due) ==
    [r EXCEPT !.status = "retry", !.due = due, !.token = 0, !.left = 0]

\* Mutant: a lease is owned by whoever ran the job last or before.
OwnsAnyLease(j, k) == Running(jobs[j])

Owns(j, k) == Running(jobs[j]) /\ jobs[j].token = k /\ k # 0

Rows(s, t) == {j \in JobIds : Of(jobs[j], s, t)}

\* retry_delay_seconds: 5 * 2^(n-1) seconds, at most 300.
RetryDelay(n) ==
    LET m == Greater(n, 1)
    IN  IF m <= Len(BackoffSteps) THEN Lesser(BackoffSteps[m], BackoffCap)
        ELSE BackoffCap

-----------------------------------------------------------------------------
(* Whole-table statements. *)

\* Mutant: claim_next leaves exhausted leases alone.
FailNone(a) == jobs

\* _fail_exhausted_leases
FailExhausted(a) ==
    [j \in JobIds |->
        IF Expired(jobs[j], a) /\ jobs[j].attempts >= jobs[j].max
        THEN Closed(jobs[j], "failed") ELSE jobs[j]]

\* Mutant: only exhausted leases are recovered.
ReconciledExhausted(a) == FailExhausted(a)

\* Mutant: an expired lease retries however many attempts it took.
ReconciledForgiving(a) ==
    [j \in JobIds |->
        IF Expired(jobs[j], a) THEN Requeued(jobs[j], -a) ELSE jobs[j]]

\* reconcile_expired: the exhausted fail, the others retry at once.
Reconciled(a) ==
    [j \in JobIds |->
        IF ~Expired(jobs[j], a) THEN jobs[j]
        ELSE IF jobs[j].attempts >= jobs[j].max THEN Closed(jobs[j], "failed")
        ELSE Requeued(jobs[j], -a)]

\* Mutant: whatever the status of the row.
CancelledAll(rows, js) ==
    [j \in JobIds |->
        IF j \in js THEN Closed(rows[j], "cancelled") ELSE rows[j]]

\* UPDATE ... SET status = 'cancelled' on the waiting rows among js.
Cancelled(rows, js) ==
    [j \in JobIds |->
        IF j \in js /\ Waiting(rows[j]) THEN Closed(rows[j], "cancelled")
        ELSE rows[j]]

-----------------------------------------------------------------------------
(* Startup: reconcile_queue, run by every new HomeRepositorySet. *)

SameWork(r, q) ==
    /\ r.scope = q.scope /\ r.type = q.type
    /\ r.type = "artwork" => Identity[r.payload] = Identity[q.payload]

\* A repair whose payload names nobody is like no other.
Nameless(r) == r.type = "artwork" /\ Identity[r.payload] = ""

Deduplicated(r) ==
    /\ Waiting(r)
    /\ r.type \in RefreshTypes \cup {"artwork"}
    /\ ~Nameless(r)

\* Mutant: work that is running is queued once more.
KeepsOneWaiting(keep) ==
    /\ \A j \in keep : Deduplicated(jobs[j])
    /\ \A j \in keep, i \in JobIds :
          i # j /\ Waiting(jobs[i]) /\ SameWork(jobs[i], jobs[j]) =>
            i \notin keep

\* keep holds at most one waiting row of each piece of work, and none of work
\* that is running: the most urgent of the refreshes (equals, and artwork, by
\* creation time).
KeepsAtMostOne(keep) ==
    /\ \A j \in keep : Deduplicated(jobs[j])
    /\ \A j \in keep, i \in JobIds :
          i # j /\ Actionable(jobs[i]) /\ SameWork(jobs[i], jobs[j]) =>
            /\ Waiting(jobs[i]) /\ i \notin keep
            /\ jobs[i].type \in RefreshTypes =>
                 jobs[i].priority <= jobs[j].priority

\* Exactly one, where nobody runs the work.
KeepsOne(keep) ==
    /\ KeepsAtMostOne(keep)
    /\ \A j \in JobIds :
          Deduplicated(jobs[j]) =>
            \E i \in JobIds :
              /\ Running(jobs[i]) \/ i \in keep
              /\ SameWork(jobs[i], jobs[j])

LegacyCompose(r) == Waiting(r) /\ r.type = "compose" /\ r.gen \notin SlotGens

ComposeFirst(r) ==
    IF Actionable(r) /\ r.type = "compose" THEN [r EXCEPT !.priority = 100]
    ELSE r

ReconcileQueue ==
    /\ booted' = TRUE
    /\ \E keep \in SUBSET JobIds :
         /\ KeepsOne(keep)
         /\ jobs' = [j \in JobIds |->
              IF \/ LegacyCompose(jobs[j])
                 \/ Deduplicated(jobs[j]) /\ j \notin keep
              THEN Closed(jobs[j], "cancelled")
              ELSE ComposeFirst(jobs[j])]
    /\ UNCHANGED call

-----------------------------------------------------------------------------
(* Admission. *)

Idle == [step |-> "idle"]

Request(st, s, t, g, p, d) ==
    [step |-> st, scope |-> s, type |-> t, gen |-> g, payload |-> p,
     demand |-> d, age |-> 0]

Insert(rows, s, t, g, salted, p, d, a) ==
    \E j \in JobIds :
        /\ rows[j].status = "absent"
        /\ \A i \in JobIds : i < j => rows[i].status # "absent"
        /\ jobs' = [rows EXCEPT
                      ![j] = NewRow(s, t, g, IF salted THEN j ELSE 0, p, d, a)]

\* enqueue: an existing key is returned, or raises ImmutableRecordConflict
\* when its payload differs; either way the table is left alone.
Enqueue(s, t, g, p, d, a) ==
    IF \E j \in JobIds : HasKey(jobs[j], s, t, g)
    THEN UNCHANGED jobs
    ELSE Insert(jobs, s, t, g, FALSE, p, d, a)

\* The interaction follow-up: one enqueue, in the transaction of its event.
EnqueueInteraction(s, g, p, a) ==
    /\ booted /\ "interaction" \in Types
    /\ \E d \in Demands["interaction"] : Enqueue(s, "interaction", g, p, d, a)
    /\ UNCHANGED <<call, booted>>

\* enqueue_coalesced reads first; only a generation it did not see goes on.
RequestCoalesced(c, s, t, g, p, d) ==
    /\ booted /\ call[c] = Idle /\ d.coalesce
    /\ ~ \E j \in JobIds : HasKey(jobs[j], s, t, g)
    /\ call' = [call EXCEPT ![c] =
         Request(IF t \in SingletonTypes THEN "reconcile" ELSE "insert",
                 s, t, g, p, d)]
    /\ UNCHANGED <<jobs, booted>>

RequestSingleton(c, s, t, g, p, d) ==
    /\ booted /\ call[c] = Idle /\ ~d.coalesce /\ t \in SingletonTypes
    /\ call' = [call EXCEPT ![c] = Request("reconcile", s, t, g, p, d)]
    /\ UNCHANGED <<jobs, booted>>

\* The second half of enqueue_coalesced for artwork.
InsertCoalesced(c, a) ==
    LET q == call[c] IN
    /\ q.step = "insert"
    /\ Enqueue(q.scope, q.type, q.gen, q.payload, q.demand, a)
    /\ call' = [call EXCEPT ![c] = Idle]
    /\ UNCHANGED booted

\* enqueue_singleton's first transaction: reconcile_expired at the timestamp
\* the second will use too.
ReconcileBeforeAdmit(c, a) ==
    /\ call[c].step = "reconcile"
    /\ jobs' = Reconciled(a)
    /\ call' = [call EXCEPT ![c].step = "admit", ![c].age = a]
    /\ UNCHANGED booted

\* Mutant: leased rows are overlooked.
ExistingWaiting(s, t, a) == {j \in Rows(s, t) : Waiting(jobs[j])}

\* The row enqueue_singleton finds: a leased one first.
Existing(s, t, a) ==
    LET found == {j \in Rows(s, t) : Waiting(jobs[j]) \/ Live(jobs[j], a)}
        leased == {j \in found : Running(jobs[j])}
    IN  IF leased # {} THEN leased ELSE found

Joins(r, q) ==
    Running(r) \/ HasKey(r, q.scope, q.type, q.gen) \/ q.demand.expedite

\* Mutant: the payload of a running job is rewritten too.
ExpeditedRunning(r, q) ==
    [r EXCEPT !.priority = Greater(r.priority, q.demand.priority),
              !.payload = q.payload]

\* Promote existing demand; a running lease keeps its input and its timers.
Expedited(r, q) ==
    [r EXCEPT
        !.max = IF r.priority < q.demand.priority /\ ~Running(r)
                THEN Greater(r.max, r.attempts + MaxAttempts[q.type])
                ELSE r.max,
        !.priority = Greater(r.priority, q.demand.priority),
        !.due = IF Running(r) THEN r.due
                ELSE Lesser(r.due, q.demand.due - q.age),
        !.payload = IF Running(r) THEN r.payload ELSE q.payload]

\* Mutant: the row that absorbs the demand is cancelled as its own duplicate.
AdmitJoinSelf(c) ==
    LET q == call[c] IN
    /\ q.step = "admit"
    /\ \E e \in Existing(q.scope, q.type, q.age) :
         /\ Joins(jobs[e], q)
         /\ jobs' = Cancelled(
              [jobs EXCEPT ![e] =
                 IF q.demand.expedite THEN Expedited(jobs[e], q) ELSE jobs[e]],
              Rows(q.scope, q.type))
    /\ call' = [call EXCEPT ![c] = Idle]
    /\ UNCHANGED booted

\* The demand is absorbed by a row that is there; its duplicates go.
AdmitJoin(c) ==
    LET q == call[c] IN
    /\ q.step = "admit"
    /\ \E e \in Existing(q.scope, q.type, q.age) :
         /\ Joins(jobs[e], q)
         /\ jobs' = Cancelled(
              [jobs EXCEPT ![e] =
                 IF q.demand.expedite THEN Expedited(jobs[e], q) ELSE jobs[e]],
              Rows(q.scope, q.type) \ {e})
    /\ call' = [call EXCEPT ![c] = Idle]
    /\ UNCHANGED booted

\* A new generation replaces whatever was waiting.
AdmitNew(c) ==
    LET q == call[c]
        js == Rows(q.scope, q.type)
    IN
    /\ q.step = "admit"
    /\ LET found == Existing(q.scope, q.type, q.age)
       IN  found = {} \/ \E e \in found : ~Joins(jobs[e], q)
    /\ Insert(Cancelled(jobs, js), q.scope, q.type, q.gen,
              \E j \in js : HasKey(jobs[j], q.scope, q.type, q.gen),
              q.payload, q.demand, q.age)
    /\ call' = [call EXCEPT ![c] = Idle]
    /\ UNCHANGED booted

\* The scheduling thread dies or its transaction raises between the two.
Abandon(c) ==
    /\ call[c] # Idle
    /\ call' = [call EXCEPT ![c] = Idle]
    /\ UNCHANGED <<jobs, booted>>

-----------------------------------------------------------------------------
(* Leases. *)

Lanes == {{"interaction"}, {"compose"}, {"supply", "candidates"}, {"radio"},
          {"artwork"}}

\* Mutant: the live lease of another job is not looked for.
ClaimableAlways(rows, L, a) ==
    {j \in JobIds :
        /\ rows[j].type \in L
        /\ rows[j].attempts < rows[j].max
        /\ Due(rows[j], a) \/ Expired(rows[j], a)}

\* claim_next takes no row of an account and type with a live lease.
Claimable(rows, L, a) ==
    {j \in JobIds :
        /\ rows[j].type \in L
        /\ rows[j].attempts < rows[j].max
        /\ Due(rows[j], a) \/ Expired(rows[j], a)
        /\ \A i \in JobIds :
             Of(rows[i], rows[j].scope, rows[j].type) => ~Live(rows[i], a)}

Precedes(r, q) ==
    \/ r.priority > q.priority
    \/ r.priority = q.priority /\ r.due < q.due

\* claim_next: the leases that ran out of attempts fail, in every lane; then
\* the best row of the lane is leased.  Ties by created_at are left open.
Claim(j, L, a) ==
    LET rows == FailExhausted(a)
        due == Claimable(rows, L, a)
    IN
    /\ j \in due
    /\ \A i \in due : ~Precedes(rows[i], rows[j])
    /\ jobs' = [rows EXCEPT ![j] = Leased(rows[j], a)]

\* The transaction finds nothing to claim.  The read before it saw work of the
\* lane that was due (Look of HomeWorker), which may be gone by now.
ClaimNothing(L, a) ==
    /\ Claimable(FailExhausted(a), L, a) = {}
    /\ jobs' = FailExhausted(a)

\* renew_lease asks for the token only: an expired lease is revived.
Renew(j, k, a) ==
    /\ Owns(j, k)
    /\ jobs' = [jobs EXCEPT ![j].left = Lease - a]

\* complete and fail
Finish(j, k, st) ==
    /\ Owns(j, k)
    /\ jobs' = [jobs EXCEPT ![j] = Closed(jobs[j], st)]

\* attempts of a row put back, one less when the attempt is given back.
Spent(r, preserve) == IF preserve THEN Greater(r.attempts - 1, 0) ELSE r.attempts

\* The row a worker puts back, with the payload it puts back.
Returned(r, preserve, p) ==
    [r EXCEPT !.attempts = Spent(r, preserve), !.payload = p]

\* retry: terminal when the attempts are used up.
Retry(j, k, delay, preserve, p, a) ==
    LET r == Returned(jobs[j], preserve, p) IN
    /\ Owns(j, k)
    /\ jobs' = [jobs EXCEPT
         ![j] = IF r.attempts >= r.max THEN Closed(r, "failed")
                ELSE Requeued(r, delay - a)]

\* The retries workers ask for: only a deferred artwork repair gives its
\* attempt back or changes the payload.
RetryAs(j, k, a) ==
    \E preserve \in BOOLEAN, p \in Payloads \cup {jobs[j].payload} :
    \E delay \in Delays \cup {RetryDelay(Spent(jobs[j], preserve))} :
        /\ \/ jobs[j].type = "artwork"
           \/ ~preserve /\ p = jobs[j].payload
        /\ preserve => jobs[j].claims - jobs[j].attempts < MaxPreserved
        /\ Retry(j, k, delay, preserve, p, a)

-----------------------------------------------------------------------------
(* Account reset and time. *)

\* delete_scope, as far as it concerns jobs.
DeleteScope(s) ==
    /\ booted
    /\ jobs' = [j \in JobIds |->
         IF Exists(jobs[j]) /\ jobs[j].scope = s
         THEN Closed(jobs[j], "deleted") ELSE jobs[j]]
    /\ UNCHANGED <<call, booted>>

Aged(r) ==
    [r EXCEPT !.due = IF Actionable(r) THEN Greater(r.due - 1, -Skew)
                      ELSE r.due,
              !.left = IF Running(r) THEN Greater(r.left - 1, -Skew)
                       ELSE r.left]

\* No transaction outlives its timestamp by more than Skew: the busy timeout
\* of the store is 15 seconds, the lease 180.
Tick ==
    /\ \A c \in Schedulers : call[c].step = "admit" => call[c].age < Skew
    /\ jobs' = [j \in JobIds |-> Aged(jobs[j])]
    /\ call' = [c \in Schedulers |->
         IF call[c].step = "admit" THEN [call[c] EXCEPT !.age = @ + 1]
         ELSE call[c]]
    /\ UNCHANGED booted

-----------------------------------------------------------------------------
Statuses == {"absent", "pending", "running", "retry", "succeeded", "failed",
             "cancelled", "deleted"}

JobRow ==
    [status : Statuses, scope : Scopes \cup {"none"},
     type : Types \cup {"none"}, gen : Gens \cup {"none"},
     salt : JobIds \cup {0}, payload : Payloads \cup {"none"},
     priority : Nat, attempts : Nat, max : Nat, due : Int, claims : Nat,
     token : Nat, left : Int]

\* Every lease costs an attempt, which only a repair may get back, and there
\* are no more attempts than the budget.
Budgeted(r) ==
    /\ r.attempts <= r.max
    /\ r.attempts <= r.claims
    /\ r.type # "artwork" => r.attempts = r.claims

\* The lease fields and the budget of a row, and the attempt a waiting row
\* still has.
RowOK(r) ==
    /\ Budgeted(r)
    /\ Running(r) => r.token = r.claims /\ r.token # 0
    /\ ~Running(r) => r.token = 0 /\ r.left = 0
    /\ Waiting(r) => r.attempts < r.max
    /\ Exists(r) => r.scope \in Scopes /\ r.type \in Types

SameKey(r, q) ==
    /\ Exists(r) /\ Exists(q)
    /\ r.scope = q.scope /\ r.type = q.type
    /\ r.gen = q.gen /\ r.salt = q.salt

SameSingleton(r, q) ==
    /\ Actionable(r) /\ Actionable(q)
    /\ r.scope = q.scope /\ r.type = q.type /\ r.type \in SingletonTypes

\* A table older schedulers leave behind: refreshes may be queued several
\* times over and compositions under retired keys, but not run twice.
InitialTable(rows) ==
    /\ rows \in [JobIds -> JobRow]
    /\ \A j \in JobIds : RowOK(rows[j])
    /\ \A j \in JobIds : rows[j].salt \in {0, j}
    /\ \A i, j \in JobIds : SameKey(rows[i], rows[j]) => i = j
    /\ \A i, j \in JobIds :
          SameSingleton(rows[i], rows[j]) =>
            \/ i = j
            \/ rows[i].type \in RefreshTypes
               /\ ~(Running(rows[i]) /\ Running(rows[j]))
            \/ LegacyCompose(rows[i]) \/ LegacyCompose(rows[j])

ASSUME TablesAssumption == \A rows \in Tables : InitialTable(rows)

-----------------------------------------------------------------------------
Init ==
    /\ jobs \in Tables
    /\ call = [c \in Schedulers |-> Idle]
    /\ booted = FALSE

Admission ==
    \/ \E s \in Scopes, g \in Gens, p \in Payloads :
         \/ \E a \in Ages : EnqueueInteraction(s, g, p, a)
         \/ \E c \in Schedulers, t \in Types \ {"interaction"} :
            \E d \in Demands[t] :
              /\ t = "compose" => g \in SlotGens
              /\ \/ RequestCoalesced(c, s, t, g, p, d)
                 \/ RequestSingleton(c, s, t, g, p, d)
    \/ \E c \in Schedulers :
         \/ \E a \in Ages : InsertCoalesced(c, a) \/ ReconcileBeforeAdmit(c, a)
         \/ AdmitJoin(c)
         \/ AdmitNew(c)
         \/ Abandon(c)

\* What workers do to the table, whoever they are and whatever token they hold.
Leasing ==
    /\ booted
    /\ UNCHANGED <<call, booted>>
    /\ \/ \E L \in Lanes, a \in Ages :
            ClaimNothing(L, a) \/ \E j \in JobIds : Claim(j, L, a)
       \/ \E j \in JobIds :
          \E k \in {jobs[j].token} :
            \/ \E a \in Ages : Renew(j, k, a) \/ RetryAs(j, k, a)
            \/ \E st \in {"succeeded", "failed"} : Finish(j, k, st)

Next ==
    \/ ReconcileQueue
    \/ Admission
    \/ Leasing
    \/ \E s \in Scopes : DeleteScope(s)
    \/ Tick

Spec == Init /\ [][Next]_vars

-----------------------------------------------------------------------------
(* Properties. *)

Call ==
    {Idle} \cup [step : {"insert", "reconcile", "admit"}, scope : Scopes,
                 type : Types, gen : Gens, payload : Payloads,
                 demand : Demand, age : Ages]

\* Every row is a well-formed record, every call a well-formed request.
TypeOK ==
    /\ jobs \in [JobIds -> JobRow]
    /\ call \in [Schedulers -> Call]
    /\ booted \in BOOLEAN

\* No job is leased more often than its budget allows: the attempts counted at
\* claims, given back by retries and added by expedites never come out beyond
\* it, nor does a lease that was recovered or taken over go uncounted.
BudgetKept == \A j \in JobIds : Budgeted(jobs[j])

\* enqueue_singleton "atomically keep[s] at most one actionable job of this
\* type per scope", although it is two transactions, its timestamp may be
\* stale and workers claim, renew and retry in between.
SingletonActionable ==
    booted =>
      \A i, j \in JobIds : SameSingleton(jobs[i], jobs[j]) => i = j

\* Between the two transactions of enqueue_singleton no lease can be expired
\* at the timestamp the second one compares with, however late it runs:
\* otherwise it would overlook a running job and insert another.
AdmissionLeasesLive ==
    \A c \in Schedulers, j \in JobIds :
        call[c].step = "admit" /\ Running(jobs[j]) =>
          jobs[j].left > -call[c].age

\* The UNIQUE constraint of home_feed_jobs never rejects an insert: no two
\* rows of an account and type share a generation key.
KeyUnique ==
    \A i, j \in JobIds : SameKey(jobs[i], jobs[j]) => i = j

\* No waiting row is stuck: claim_next takes only rows with an attempt left,
\* so retries, expedites and recovered leases must leave one.
WaitingClaimable ==
    \A j \in JobIds : Waiting(jobs[j]) => jobs[j].attempts < jobs[j].max

\* A finished job is immutable history: it is never revived, re-leased or
\* rewritten, only deleted with its account.
TerminalFinal ==
    [][\A j \in JobIds : Terminal(jobs[j]) =>
          jobs'[j] = jobs[j] \/ jobs'[j].status = "deleted"]_vars

\* Demand that arrives while a job runs changes neither the input nor the
\* budget its worker holds, and takes the lease over only once it expired.
LeaseKeepsInput ==
    [][\A j \in JobIds : Running(jobs[j]) /\ Running(jobs'[j]) =>
          IF jobs'[j].token = jobs[j].token
          THEN /\ jobs'[j].payload = jobs[j].payload
               /\ jobs'[j].attempts = jobs[j].attempts
               /\ jobs'[j].max = jobs[j].max
          ELSE \E a \in Ages : Expired(jobs[j], a)]_vars

\* Cancelling never loses demand: when a duplicate or superseded row is
\* cancelled, by admission or at startup, a row for the same work remains
\* actionable.  Only compose rows of the retired key format are just drained.
CancelledWorkSurvives ==
    [][\A j \in JobIds :
          /\ jobs[j].status # "cancelled" /\ jobs'[j].status = "cancelled"
          /\ ~LegacyCompose(jobs[j])
          => \E i \in JobIds :
               Actionable(jobs'[i]) /\ SameWork(jobs'[i], jobs[j])]_vars

=============================================================================
