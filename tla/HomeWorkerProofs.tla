-------------------------- MODULE HomeWorkerProofs --------------------------
(***************************************************************************)
(* Theorems about HomeWorker, for every value of its constants.            *)
(*                                                                         *)
(* The argument.  Nobody but the worker that holds a lease ends it while   *)
(* it has time left (Steady), tokens of two workers differ, and a punctual *)
(* heartbeat keeps time on the lease: so a handler that has not lost its   *)
(* lease is found running by whoever claims, who then claims nothing of    *)
(* its account and type.  Every step of a worker is one of the job table,  *)
(* so what is proved about the table holds under the workers too.          *)
(***************************************************************************)
EXTENDS HomeWorker, HomeJobsProofs

-----------------------------------------------------------------------------
(* What the transactions of others do to a row. *)

\* A row that was inserted stays what it is, and a deleted one is gone.
Evolved(r, q) ==
    /\ r.status # "absent" =>
         /\ q.status # "absent"
         /\ q.scope = r.scope /\ q.type = r.type /\ q.claims >= r.claims
    /\ r.status = "deleted" => q.status = "deleted"

\* A lease with time left goes on, unless its account is reset.
Unharmed(r, q) ==
    Running(r) /\ r.left > 0 =>
      \/ Running(q) /\ q.token = r.token /\ q.left > 0
      \/ q.status = "deleted"

\* What is not done by a worker that holds the lease.
Steady(r, q) ==
    /\ Evolved(r, q)
    /\ Unharmed(r, q)
    /\ q.status = "succeeded" => r.status = "succeeded"

SteadyTable(rows, new) == \A j \in JobIds : Steady(rows[j], new[j])

LEMMA SteadySelf ==
    ASSUME NEW r \in JobRow
    PROVE  Steady(r, r)
  BY DEF Steady, Evolved, Unharmed, JobRow

LEMMA SteadyTrans ==
    ASSUME NEW r \in JobRow, NEW m \in JobRow, NEW q \in JobRow, Steady(r, m), Steady(m, q)
    PROVE  Steady(r, q)
<1>1. Evolved(r, q)
  BY DEF Steady, Evolved, JobRow
<1>2. Unharmed(r, q)
  BY DEF Steady, Evolved, Unharmed
<1> QED
  BY <1>1, <1>2 DEF Steady

\* Closing keeps the number of claims, and what identifies the row.
LEMMA EvolvedClosed ==
    ASSUME NEW r \in JobRow, Exists(r),
           NEW st \in {"succeeded", "failed", "cancelled", "deleted"}
    PROVE  Evolved(r, Closed(r, st)) /\ Closed(r, st).status = st
<1>1. st \in Statuses
  BY DEF Statuses
<1>2. Closed(r, st).claims = r.claims /\ r.claims \in Nat
  BY SMT DEF Closed, JobRow
<1> QED
  BY <1>1, <1>2, ClosedRow DEF Evolved, Exists

LEMMA EvolvedRequeued ==
    ASSUME NEW r \in JobRow, Exists(r), NEW due \in Int
    PROVE  Evolved(r, Requeued(r, due))
<1>1. Requeued(r, due).claims = r.claims /\ r.claims \in Nat
  BY SMT DEF Requeued, JobRow
<1> QED
  BY <1>1, RequeuedRow DEF Evolved, Exists

\* A row that no lease with time left protects is closed or put back.
LEMMA SteadyClosed ==
    ASSUME NEW r \in JobRow, Exists(r), NEW st \in {"failed", "cancelled", "deleted"},
           st = "deleted" \/ ~(Running(r) /\ r.left > 0)
    PROVE  Steady(r, Closed(r, st))
  BY EvolvedClosed DEF Steady, Unharmed

LEMMA SteadyRequeued ==
    ASSUME NEW r \in JobRow, Exists(r), NEW due \in Int, ~(Running(r) /\ r.left > 0)
    PROVE  Steady(r, Requeued(r, due))
  BY EvolvedRequeued, RequeuedRow DEF Steady, Unharmed

LEMMA SteadyExpedited ==
    ASSUME NEW r \in JobRow, NEW q \in Call, q.step = "admit"
    PROVE  Steady(r, Expedited(r, q))
<1>1. r.claims \in Nat
  BY DEF JobRow
<1> QED
  BY <1>1, ExpeditedRow DEF Steady, Evolved, Unharmed, Running

LEMMA SteadyComposeFirst ==
    ASSUME NEW r \in JobRow
    PROVE  Steady(r, ComposeFirst(r))
<1>1. r.claims \in Nat
  BY DEF JobRow
<1> QED
  BY <1>1, ComposeFirstRow DEF Steady, Evolved, Unharmed, Running

\* An expired lease has no time left.
LEMMA ExpiredRow ==
    ASSUME NEW r \in JobRow, NEW a \in Ages, Expired(r, a)
    PROVE  Exists(r) /\ ~(r.left > 0) /\ Running(r)
<1>1. a \in Int /\ a >= 0 /\ r.left \in Int
  BY TimeAssumption DEF Ages, JobRow
<1> QED
  BY <1>1 DEF Expired, Running, Exists

LEMMA FailExhaustedSteady ==
    ASSUME RowsOK(jobs), NEW a \in Ages
    PROVE  SteadyTable(jobs, FailExhausted(a))
<1> SUFFICES ASSUME NEW j \in JobIds PROVE Steady(jobs[j], FailExhausted(a)[j])
  BY DEF SteadyTable
<1>1. jobs[j] \in JobRow
  BY DEF RowsOK
<1>2. CASE Expired(jobs[j], a) /\ jobs[j].attempts >= jobs[j].max
  BY <1>1, <1>2, ExpiredRow, SteadyClosed DEF FailExhausted
<1>3. CASE ~(Expired(jobs[j], a) /\ jobs[j].attempts >= jobs[j].max)
  BY <1>1, <1>3, SteadySelf DEF FailExhausted
<1> QED
  BY <1>2, <1>3

LEMMA ReconciledSteady ==
    ASSUME RowsOK(jobs), NEW a \in Ages
    PROVE  SteadyTable(jobs, Reconciled(a))
<1> SUFFICES ASSUME NEW j \in JobIds PROVE Steady(jobs[j], Reconciled(a)[j])
  BY DEF SteadyTable
<1>1. jobs[j] \in JobRow /\ -a \in Int
  BY TimeAssumption DEF RowsOK, Ages
<1>2. CASE ~Expired(jobs[j], a)
  BY <1>1, <1>2, SteadySelf DEF Reconciled
<1>3. CASE Expired(jobs[j], a) /\ jobs[j].attempts >= jobs[j].max
  BY <1>1, <1>3, ExpiredRow, SteadyClosed DEF Reconciled
<1>4. CASE Expired(jobs[j], a) /\ ~(jobs[j].attempts >= jobs[j].max)
  BY <1>1, <1>4, ExpiredRow, SteadyRequeued DEF Reconciled
<1> QED
  BY <1>2, <1>3, <1>4

LEMMA CancelledSteady ==
    ASSUME NEW rows, RowsOK(rows), NEW js
    PROVE  SteadyTable(rows, Cancelled(rows, js))
<1> SUFFICES ASSUME NEW j \in JobIds PROVE Steady(rows[j], Cancelled(rows, js)[j])
  BY DEF SteadyTable
<1>1. rows[j] \in JobRow
  BY DEF RowsOK
<1>2. CASE j \in js /\ Waiting(rows[j])
  <2>1. Exists(rows[j]) /\ ~Running(rows[j])
    BY <1>2 DEF Waiting, Running, Exists
  <2> QED
    BY <1>1, <1>2, <2>1, SteadyClosed DEF Cancelled
<1>3. CASE ~(j \in js /\ Waiting(rows[j]))
  BY <1>1, <1>3, SteadySelf DEF Cancelled
<1> QED
  BY <1>2, <1>3

\* An insert takes a row that was never used.
LEMMA InsertSteady ==
    ASSUME NEW rows, RowsOK(rows), NEW s \in Scopes, NEW t \in Types, NEW g \in Gens,
           NEW salted \in BOOLEAN, NEW p \in Payloads, NEW d \in Demand, NEW a \in Ages,
           Insert(rows, s, t, g, salted, p, d, a)
    PROVE  SteadyTable(rows, jobs')
<1> DEFINE new(j) == NewRow(s, t, g, IF salted THEN j ELSE 0, p, d, a)
<1>1. PICK j \in JobIds : /\ rows[j].status = "absent"
                          /\ jobs' = [rows EXCEPT ![j] = new(j)]
  BY DEF Insert
<1>2. new(j).status = "pending"
  BY NewRowRow
<1> HIDE DEF new
<1>3. \A i \in JobIds : rows[i] \in JobRow
  BY DEF RowsOK
<1>4. jobs'[j] = new(j) /\ \A i \in JobIds \ {j} : jobs'[i] = rows[i]
  BY <1>1 DEF RowsOK
<1>5. Steady(rows[j], jobs'[j])
  BY <1>1, <1>2, <1>4 DEF Steady, Evolved, Unharmed, Running
<1> QED
  BY <1>3, <1>4, <1>5, SteadySelf DEF SteadyTable

LEMMA SteadyTableTrans ==
    ASSUME NEW rows, NEW mid, NEW new,
           rows \in [JobIds -> JobRow], mid \in [JobIds -> JobRow], new \in [JobIds -> JobRow],
           SteadyTable(rows, mid), SteadyTable(mid, new)
    PROVE  SteadyTable(rows, new)
<1> SUFFICES ASSUME NEW j \in JobIds PROVE Steady(rows[j], new[j])
  BY DEF SteadyTable
<1>1. rows[j] \in JobRow /\ mid[j] \in JobRow /\ new[j] \in JobRow
  OBVIOUS
<1>2. Steady(rows[j], mid[j]) /\ Steady(mid[j], new[j])
  BY DEF SteadyTable
<1> QED
  BY <1>1, <1>2, SteadyTrans

LEMMA SteadyTableSelf ==
    ASSUME NEW rows \in [JobIds -> JobRow]
    PROVE  SteadyTable(rows, rows)
  BY SteadySelf DEF SteadyTable

\* What an insert adds is steady too, and so is every way a request is met.
LEMMA EnqueueSteady ==
    ASSUME RowsOK(jobs), NEW s \in Scopes, NEW t \in Types, NEW g \in Gens,
           NEW p \in Payloads, NEW d \in Demand, NEW a \in Ages, Enqueue(s, t, g, p, d, a)
    PROVE  SteadyTable(jobs, jobs')
<1>1. CASE jobs' = jobs
  BY <1>1, SteadyTableSelf DEF RowsOK
<1>2. CASE jobs' # jobs
  BY <1>2, InsertSteady DEF Enqueue
<1> QED
  BY <1>1, <1>2

LEMMA AdmitJoinSteady ==
    ASSUME IInv, NEW c \in Schedulers, AdmitJoin(c)
    PROVE  SteadyTable(jobs, jobs')
<1> DEFINE q == call[c]
<1>1. q.step = "admit" /\ q \in Call
  BY DEF AdmitJoin, IInv, TypeOK
<1>2. PICK e \in Existing(q.scope, q.type, q.age) :
        jobs' = Cancelled(
              [jobs EXCEPT ![e] =
                 IF q.demand.expedite THEN Expedited(jobs[e], q) ELSE jobs[e]],
              Rows(q.scope, q.type) \ {e})
  BY DEF AdmitJoin
<1> DEFINE row == IF q.demand.expedite THEN Expedited(jobs[e], q) ELSE jobs[e]
           mid == [jobs EXCEPT ![e] = row]
<1>3. e \in JobIds
  BY DEF Existing, Rows
<1>4. RowsOK(jobs) /\ jobs[e] \in JobRow /\ RowOK(jobs[e])
  BY <1>3 DEF IInv, RowsOK
<1>5. Kept(jobs[e], row) /\ Timed(jobs[e], row) /\ Steady(jobs[e], row)
  BY <1>1, <1>4, KeptExpedited, KeptSelf, SteadyExpedited, SteadySelf
<1> HIDE DEF row
<1>6. KeptTable(jobs, mid)
  BY <1>3, <1>4, <1>5, KeptExcept
<1>7. RowsOK(mid)
  BY <1>4, <1>6, KeptTableOK DEF KeptTable
<1>8. \A i \in JobIds : jobs[i] \in JobRow /\ mid[i] = IF i = e THEN row ELSE jobs[i]
  BY <1>4 DEF RowsOK
<1>9. jobs' = Cancelled(mid, Rows(q.scope, q.type) \ {e})
  BY <1>2 DEF row
<1> HIDE DEF mid
<1>10. SteadyTable(jobs, mid)
  BY <1>5, <1>8, SteadySelf DEF SteadyTable
<1>11. SteadyTable(mid, jobs') /\ KeptTable(mid, jobs')
  BY <1>7, <1>9, CancelledSteady, CancelledKept
<1> QED
  BY <1>4, <1>7, <1>10, <1>11, SteadyTableTrans DEF RowsOK, KeptTable

LEMMA AdmitNewSteady ==
    ASSUME IInv, NEW c \in Schedulers, AdmitNew(c)
    PROVE  SteadyTable(jobs, jobs')
<1> DEFINE q == call[c]
           js == Rows(q.scope, q.type)
           rows == Cancelled(jobs, js)
           salted == \E j \in js : HasKey(jobs[j], q.scope, q.type, q.gen)
<1>1. q.step = "admit" /\ q \in Call
  BY DEF AdmitNew, IInv, TypeOK
<1>2. /\ q.scope \in Scopes /\ q.type \in Types /\ q.gen \in Gens
      /\ q.payload \in Payloads /\ q.demand \in Demand /\ q.age \in Ages
      /\ salted \in BOOLEAN
  BY <1>1, AdmitType
<1>3. Insert(rows, q.scope, q.type, q.gen, salted, q.payload, q.demand, q.age)
  BY DEF AdmitNew
<1>4. RowsOK(jobs) /\ SteadyTable(jobs, rows) /\ KeptTable(jobs, rows)
  BY CancelledSteady, CancelledKept DEF IInv
<1>5. RowsOK(rows)
  BY <1>4, KeptTableOK DEF KeptTable
<1>6. jobs' \in [JobIds -> JobRow]
  BY AdmitNewStep DEF IInv, RowsOK
<1> HIDE DEF rows, salted, js
<1>7. SteadyTable(rows, jobs')
  BY <1>2, <1>3, <1>5, InsertSteady
<1> QED
  BY <1>4, <1>5, <1>6, <1>7, SteadyTableTrans DEF RowsOK

LEMMA AdmissionSteady ==
    ASSUME IInv, Admission
    PROVE  SteadyTable(jobs, jobs')
<1>1. RowsOK(jobs) /\ jobs \in [JobIds -> JobRow]
  BY DEF IInv, RowsOK
<1>2. ASSUME jobs' = jobs PROVE SteadyTable(jobs, jobs')
  BY <1>1, <1>2, SteadyTableSelf
<1>3. ASSUME NEW s \in Scopes, NEW g \in Gens, NEW p \in Payloads, NEW a \in Ages,
             EnqueueInteraction(s, g, p, a)
      PROVE  SteadyTable(jobs, jobs')
  <2>1. PICK d \in Demands["interaction"] : Enqueue(s, "interaction", g, p, d, a)
    BY <1>3 DEF EnqueueInteraction
  <2>2. "interaction" \in Types /\ d \in Demand
    BY <1>3, DemandAssumption DEF EnqueueInteraction
  <2> QED
    BY <1>1, <2>1, <2>2, EnqueueSteady
<1>4. ASSUME NEW c \in Schedulers, NEW a \in Ages, InsertCoalesced(c, a)
      PROVE  SteadyTable(jobs, jobs')
  <2> DEFINE q == call[c]
  <2>1. /\ q.step = "insert" /\ q \in Call
        /\ Enqueue(q.scope, q.type, q.gen, q.payload, q.demand, a)
    BY <1>4 DEF InsertCoalesced, IInv, TypeOK
  <2>2. /\ q.scope \in Scopes /\ q.type \in Types /\ q.gen \in Gens
        /\ q.payload \in Payloads /\ q.demand \in Demand
    BY <2>1 DEF Call, Idle
  <2> HIDE DEF q
  <2> QED
    BY <1>1, <2>1, <2>2, EnqueueSteady
<1>5. ASSUME NEW c \in Schedulers, NEW a \in Ages, ReconcileBeforeAdmit(c, a)
      PROVE  SteadyTable(jobs, jobs')
  BY <1>1, <1>5, ReconciledSteady DEF ReconcileBeforeAdmit
<1> QED
  BY <1>2, <1>3, <1>4, <1>5, AdmitJoinSteady, AdmitNewSteady
  DEF Admission, RequestCoalesced, RequestSingleton, Abandon

LEMMA ReconcileQueueSteady ==
    ASSUME IInv, ReconcileQueue
    PROVE  SteadyTable(jobs, jobs')
<1> SUFFICES ASSUME NEW j \in JobIds PROVE Steady(jobs[j], jobs'[j])
  BY DEF SteadyTable
<1>1. jobs[j] \in JobRow
  BY DEF IInv, RowsOK
<1>2. \/ /\ jobs'[j] = Closed(jobs[j], "cancelled")
         /\ Waiting(jobs[j])
      \/ jobs'[j] = ComposeFirst(jobs[j])
  BY DEF ReconcileQueue, LegacyCompose, Deduplicated
<1>3. Waiting(jobs[j]) => Exists(jobs[j]) /\ ~Running(jobs[j])
  BY DEF Waiting, Exists, Running
<1> QED
  BY <1>1, <1>2, <1>3, SteadyClosed, SteadyComposeFirst

LEMMA DeleteScopeSteady ==
    ASSUME IInv, NEW s \in Scopes, DeleteScope(s)
    PROVE  SteadyTable(jobs, jobs')
  BY SteadyClosed, SteadySelf DEF IInv, RowsOK, DeleteScope, SteadyTable

LEMMA TickEvolves ==
    ASSUME IInv, Tick, NEW j \in JobIds
    PROVE  Evolved(jobs[j], jobs'[j]) /\ jobs'[j].status = jobs[j].status
<1>1. jobs[j] \in JobRow /\ jobs'[j] = Aged(jobs[j]) /\ jobs[j].claims \in Nat
  BY DEF IInv, RowsOK, Tick, JobRow
<1> QED
  BY <1>1, AgedRow DEF Evolved

\* A claim leases a row of an account and type that nobody has a lease for.
LEMMA ClaimEffect ==
    ASSUME IInv, NEW L, NEW a \in Ages, NEW j \in JobIds, Claim(j, L, a)
    PROVE  /\ jobs'[j] = Leased(jobs[j], a) /\ Actionable(jobs[j])
           /\ \A i \in JobIds \ {j} : Steady(jobs[i], jobs'[i])
           /\ \A i \in JobIds :
                 Of(jobs[i], jobs[j].scope, jobs[j].type) =>
                   ~(Running(jobs[i]) /\ jobs[i].left > 0)
<1> DEFINE rows == FailExhausted(a)
<1>1. RowsOK(jobs) /\ SteadyTable(jobs, rows) /\ KeptTable(jobs, rows)
  BY FailExhaustedSteady, FailExhaustedKept DEF IInv
<1>2. /\ jobs' = [rows EXCEPT ![j] = Leased(rows[j], a)]
      /\ Due(rows[j], a) \/ Expired(rows[j], a)
      /\ \A i \in JobIds : Of(rows[i], rows[j].scope, rows[j].type) => ~Live(rows[i], a)
  BY DEF Claim, Claimable
<1>3. \A i \in JobIds :
        \/ rows[i] = jobs[i]
        \/ Expired(jobs[i], a) /\ rows[i] = Closed(jobs[i], "failed")
  BY DEF FailExhausted
<1> HIDE DEF rows
<1>4. Actionable(rows[j])
  BY <1>2 DEF Due, Expired, Actionable
<1>5. rows[j] = jobs[j]
  <2>1. CASE rows[j] = Closed(jobs[j], "failed")
    <3>1. Closed(jobs[j], "failed").status = "failed"
      BY <1>1, ClosedRow DEF RowsOK, Statuses
    <3> QED
      BY <1>4, <2>1, <3>1 DEF Actionable, Waiting, Running
  <2> QED
    BY <1>3, <2>1
<1>6. ASSUME NEW i \in JobIds, Of(jobs[i], jobs[j].scope, jobs[j].type),
             Running(jobs[i]), jobs[i].left > 0
      PROVE  FALSE
  <2>1. a \in Int /\ a >= 0 /\ jobs[i].left \in Int
    BY <1>1, TimeAssumption DEF Ages, RowsOK, JobRow
  <2>2. ~Expired(jobs[i], a) /\ Live(jobs[i], a)
    BY <1>6, <2>1 DEF Expired, Live
  <2> QED
    BY <1>2, <1>3, <1>5, <1>6, <2>2
<1>7. jobs'[j] = Leased(rows[j], a) /\ \A i \in JobIds \ {j} : jobs'[i] = rows[i]
  BY <1>1, <1>2 DEF KeptTable
<1> QED
  BY <1>1, <1>4, <1>5, <1>6, <1>7 DEF SteadyTable

-----------------------------------------------------------------------------
(* Workers. *)

WorkerRow ==
    [pc : {"idle", "polling", "waiting", "handling", "finishing", "retrying"},
     job : JobIds \cup {0}, token : Nat, beat : BOOLEAN, lost : BOOLEAN]

\* A worker in run_once has a token of the job it claimed.
Bound(x, rows) ==
    /\ x.beat => x.pc \notin {"idle", "polling"}
    /\ x.pc \notin {"idle", "polling"} =>
         /\ x.job \in JobIds
         /\ 0 < x.token /\ x.token <= rows[x.job].claims
         /\ rows[x.job].status # "absent"

\* Two workers in run_once have different jobs or different tokens.
Apart(x, y) ==
    x.pc \notin {"idle", "polling"} /\ y.pc \notin {"idle", "polling"} =>
      x.job # y.job \/ x.token # y.token

WBase ==
    /\ WorkerTypeOK
    /\ \A w \in Workers : /\ Bound(worker[w], jobs)
                          /\ worker[w].pc \notin {"idle", "polling"} => booted
    /\ \A v, w \in Workers : v # w => Apart(worker[v], worker[w])
    /\ renewals # {} => booted

\* Every step of the workers is one of the job table or leaves it alone.
LEMMA StepUsesTable ==
    ASSUME IInv, WBase, [WorkerNext]_allVars
    PROVE  [Next]_vars
<1>1. CASE UNCHANGED allVars
  BY <1>1 DEF allVars
<1>2. ASSUME NEW w \in Workers, WorkerStep(w)
      PROVE  [Next]_vars
  <2>1. /\ worker[w].pc \notin {"idle", "polling"} => booted /\ worker[w].job \in JobIds
        /\ worker[w].beat => worker[w].pc \notin {"idle", "polling"}
        /\ LaneOf[w] \in Lanes
    BY WorkerAssumption DEF WBase, Bound
  <2>2. CASE Poll(w)
    BY <2>1, <2>2 DEF Poll, Next, Leasing
  <2>3. CASE PollNothing(w)
    BY <2>1, <2>3 DEF PollNothing, Next, Leasing
  <2>4. CASE Heartbeat(w)
    <3>1. PICK a \in Ages : Renew(worker[w].job, worker[w].token, a)
      BY <2>4 DEF Heartbeat
    <3>2. booted /\ UNCHANGED <<call, booted>> /\ worker[w].job \in JobIds
      BY <2>1, <2>4 DEF Heartbeat
    <3>3. worker[w].token \in {jobs[worker[w].job].token}
      BY <3>1 DEF Renew, Owns
    <3>4. Leasing
      BY <3>1, <3>2, <3>3 DEF Leasing
    <3> QED
      BY <3>4 DEF Next
  <2>5. CASE FinishJob(w)
    <3>1. booted /\ UNCHANGED <<call, booted>> /\ worker[w].job \in JobIds
      BY <2>1, <2>5 DEF FinishJob
    <3>2. CASE OwnsLease(w)
      <4>1. PICK st \in {"succeeded", "failed"} :
              Finish(worker[w].job, worker[w].token, st)
        BY <2>5, <3>2 DEF FinishJob
      <4>2. worker[w].token \in {jobs[worker[w].job].token}
        BY <4>1 DEF Finish, Owns
      <4>3. Leasing
        BY <3>1, <4>1, <4>2 DEF Leasing
      <4> QED
        BY <4>3 DEF Next
    <3> QED
      BY <2>5, <3>2 DEF FinishJob, vars
  <2>6. CASE RetryJob(w)
    <3>1. booted /\ UNCHANGED <<call, booted>> /\ worker[w].job \in JobIds
      BY <2>1, <2>6 DEF RetryJob
    <3>2. CASE OwnsLease(w)
      <4>1. PICK a \in Ages : RetryAs(worker[w].job, worker[w].token, a)
        BY <2>6, <3>2 DEF RetryJob
      <4>2. worker[w].token \in {jobs[worker[w].job].token}
        BY <3>2 DEF OwnsLease, Owns
      <4>3. Leasing
        BY <3>1, <4>1, <4>2 DEF Leasing
      <4> QED
        BY <4>3 DEF Next
    <3> QED
      BY <2>6, <3>2 DEF RetryJob, vars
  <2> QED
    BY <1>2, <2>2, <2>3, <2>4, <2>5, <2>6
    DEF WorkerStep, Look, EnterSlot, HeartbeatStops, HandlerReturns, HandlerRaises,
        FinishRaises, RetryRaises
<1>3. CASE LateRenewal
  <2>1. PICK r \in renewals : UNCHANGED jobs \/ \E a \in Ages : Renew(r[2], r[3], a)
    BY <1>3 DEF LateRenewal
  <2>2. booted /\ UNCHANGED <<call, booted>> /\ r[2] \in JobIds
    BY <1>3, <2>1 DEF LateRenewal, WBase, WorkerTypeOK
  <2>3. CASE UNCHANGED jobs
    BY <2>2, <2>3 DEF vars
  <2>4. ASSUME NEW a \in Ages, Renew(r[2], r[3], a) PROVE Next
    <3>1. r[3] \in {jobs[r[2]].token}
      BY <2>4 DEF Renew, Owns
    <3> QED
      BY <2>2, <2>4, <3>1 DEF Leasing, Next
  <2> QED
    BY <2>1, <2>3, <2>4
<1> QED
  BY <1>1, <1>2, <1>3 DEF WorkerNext, Restart, TickWorkers, IdleChanges, Next

-----------------------------------------------------------------------------
(* What a step does to a worker, unless it claims.                         *)

Active(x) == x.pc \in {"waiting", "handling"} /\ ~x.lost

\* It goes on with its lease, run_once is over, or it is about to ask for work.
Goes(x, y) ==
    \/ y = x
    \/ y = Free
    \/ y.pc = "polling" /\ ~y.beat
    \/ /\ x.pc \notin {"idle", "polling"} /\ y.pc \notin {"idle", "polling"}
       /\ y.job = x.job /\ y.token = x.token
       /\ Active(y) => Active(x) /\ y.beat = x.beat

\* What a step of w does to the table, unless it claims: nothing a lease
\* notices, or something to the row of a lease that w owns.
Touches(w) ==
    \/ SteadyTable(jobs, jobs')
    \/ /\ worker[w].pc \notin {"idle", "polling"} /\ OwnsLease(w)
       /\ \A j \in JobIds \ {worker[w].job} : jobs'[j] = jobs[j]
       /\ Evolved(jobs[worker[w].job], jobs'[worker[w].job])
       /\ worker'[w] = Free \/ Unharmed(jobs[worker[w].job], jobs'[worker[w].job])
       /\ jobs'[worker[w].job].status = "succeeded" => worker[w].pc = "finishing"

\* Only w moves, and stays well formed.
Alone(w) ==
    /\ worker' \in [Workers -> WorkerRow]
    /\ \A v \in Workers \ {w} : worker'[v] = worker[v]
    /\ Goes(worker[w], worker'[w])

LEMMA FreeRow == Free \in WorkerRow
  BY DEF Free, WorkerRow

LEMMA LeaveAlone ==
    ASSUME WBase, NEW w \in Workers, worker' = [worker EXCEPT ![w] = Free]
    PROVE  Alone(w) /\ worker'[w] = Free
  BY FreeRow DEF WBase, WorkerTypeOK, WorkerRow, Alone, Goes

LEMMA MoveAlone ==
    ASSUME WBase, NEW w \in Workers, NEW y \in WorkerRow,
           worker' = [worker EXCEPT ![w] = y], Goes(worker[w], y)
    PROVE  Alone(w) /\ worker'[w] = y
  BY DEF WBase, WorkerTypeOK, WorkerRow, Alone

Steps == {"idle", "polling", "waiting", "handling", "finishing", "retrying"}

\* Assigning a field of a worker keeps it well formed.
LEMMA SetPc ==
    ASSUME NEW x \in WorkerRow, NEW v \in Steps
    PROVE  /\ [x EXCEPT !.pc = v] \in WorkerRow
           /\ [x EXCEPT !.pc = v].pc = v
           /\ [x EXCEPT !.pc = v].job = x.job
           /\ [x EXCEPT !.pc = v].token = x.token
           /\ [x EXCEPT !.pc = v].beat = x.beat
           /\ [x EXCEPT !.pc = v].lost = x.lost
  BY SMT DEF WorkerRow, Steps

LEMMA SetBeat ==
    ASSUME NEW x \in WorkerRow, NEW v \in BOOLEAN
    PROVE  /\ [x EXCEPT !.beat = v] \in WorkerRow
           /\ [x EXCEPT !.beat = v].pc = x.pc
           /\ [x EXCEPT !.beat = v].job = x.job
           /\ [x EXCEPT !.beat = v].token = x.token
           /\ [x EXCEPT !.beat = v].beat = v
           /\ [x EXCEPT !.beat = v].lost = x.lost
  BY SMT DEF WorkerRow, Steps

LEMMA SetLost ==
    ASSUME NEW x \in WorkerRow, NEW v \in BOOLEAN
    PROVE  /\ [x EXCEPT !.lost = v] \in WorkerRow
           /\ [x EXCEPT !.lost = v].pc = x.pc
           /\ [x EXCEPT !.lost = v].job = x.job
           /\ [x EXCEPT !.lost = v].token = x.token
           /\ [x EXCEPT !.lost = v].beat = x.beat
           /\ [x EXCEPT !.lost = v].lost = v
  BY SMT DEF WorkerRow, Steps

LEMMA ProceedAlone ==
    ASSUME WBase, NEW w \in Workers, worker[w].pc \notin {"idle", "polling"},
           NEW pc \in {"finishing", "retrying"}, Proceed(w, pc)
    PROVE  Alone(w) /\ worker'[w].pc = pc
<1>1. PICK late \in {FALSE, worker[w].beat} :
        worker' = [worker EXCEPT ![w].pc = pc, ![w].beat = late]
  BY DEF Proceed
<1>2. worker \in [Workers -> WorkerRow] /\ late \in BOOLEAN
  BY <1>1 DEF WBase, WorkerTypeOK, WorkerRow
<1> DEFINE y == [worker[w] EXCEPT !.pc = pc, !.beat = late]
<1>3. worker' = [worker EXCEPT ![w] = y]
  BY <1>1, <1>2
<1> DEFINE m == [worker[w] EXCEPT !.pc = pc]
<1>4. y \in WorkerRow /\ y.pc = pc /\ y.job = worker[w].job /\ y.token = worker[w].token
  <2>1. worker[w] \in WorkerRow /\ pc \in Steps
    BY <1>2 DEF Steps
  <2>2. m \in WorkerRow /\ m.pc = pc /\ m.job = worker[w].job /\ m.token = worker[w].token
    BY <2>1, SetPc
  <2>3. y = [m EXCEPT !.beat = late]
    OBVIOUS
  <2> HIDE DEF m, y
  <2> QED
    BY <1>2, <2>2, <2>3, SetBeat
<1> HIDE DEF y
<1>5. Goes(worker[w], y)
  BY <1>4 DEF Goes, Active
<1> QED
  BY <1>3, <1>4, <1>5, MoveAlone

\* The rows a worker writes under its lease.
LEMMA RenewedRow ==
    ASSUME RowsOK(jobs), NEW j \in JobIds, NEW k, NEW a \in Ages, Renew(j, k, a)
    PROVE  /\ \A i \in JobIds \ {j} : jobs'[i] = jobs[i]
           /\ Evolved(jobs[j], jobs'[j]) /\ jobs'[j].status = "running"
           /\ jobs'[j].token = jobs[j].token /\ jobs'[j].left > 0
<1>1. jobs[j] \in JobRow /\ jobs' = [jobs EXCEPT ![j] = [jobs[j] EXCEPT !.left = Lease - a]]
  BY DEF RowsOK, Renew
<1>2. Lease - a \in Int /\ Lease - a > 0
  BY TimeAssumption DEF Ages
<1> DEFINE q == [jobs[j] EXCEPT !.left = Lease - a]
<1>3. /\ q.status = jobs[j].status /\ q.token = jobs[j].token /\ q.claims = jobs[j].claims
      /\ q.scope = jobs[j].scope /\ q.type = jobs[j].type /\ q.left = Lease - a
      /\ jobs[j].claims \in Nat
  BY <1>1, <1>2, SMT DEF JobRow
<1>4. jobs'[j] = q /\ \A i \in JobIds \ {j} : jobs'[i] = jobs[i]
  BY <1>1 DEF RowsOK
<1> HIDE DEF q
<1>5. jobs[j].status = "running"
  BY DEF Renew, Owns, Running
<1> QED
  BY <1>2, <1>3, <1>4, <1>5 DEF Evolved

LEMMA FinishedRow ==
    ASSUME RowsOK(jobs), NEW j \in JobIds, NEW k, NEW st \in {"succeeded", "failed"},
           Finish(j, k, st)
    PROVE  /\ \A i \in JobIds \ {j} : jobs'[i] = jobs[i]
           /\ Evolved(jobs[j], jobs'[j])
<1>1. jobs[j] \in JobRow /\ Exists(jobs[j])
  BY DEF RowsOK, Finish, Owns, Running, Exists
<1>2. jobs'[j] = Closed(jobs[j], st) /\ \A i \in JobIds \ {j} : jobs'[i] = jobs[i]
  BY DEF RowsOK, Finish
<1> QED
  BY <1>1, <1>2, EvolvedClosed

LEMMA RetriedRow ==
    ASSUME RowsOK(jobs), NEW j \in JobIds, NEW k, NEW a \in Ages, RetryAs(j, k, a)
    PROVE  /\ \A i \in JobIds \ {j} : jobs'[i] = jobs[i]
           /\ Evolved(jobs[j], jobs'[j]) /\ jobs'[j].status # "succeeded"
<1>1. PICK preserve \in BOOLEAN, p \in Payloads \cup {jobs[j].payload} :
        \E delay \in Delays \cup {RetryDelay(Spent(jobs[j], preserve))} :
           Retry(j, k, delay, preserve, p, a)
  BY DEF RetryAs
<1>2. PICK delay \in Delays \cup {RetryDelay(Spent(jobs[j], preserve))} :
           Retry(j, k, delay, preserve, p, a)
  BY <1>1
<1>3. jobs[j] \in JobRow /\ Exists(jobs[j])
  BY <1>2 DEF RowsOK, Retry, Owns, Running, Exists
<1>4. p \in Payloads \cup {"none"} /\ Spent(jobs[j], preserve) \in Nat
  BY <1>3 DEF JobRow, Spent, Greater
<1>5. delay - a \in Int
  <2>1. RetryDelay(Spent(jobs[j], preserve)) \in Nat
    BY <1>4, RetryDelayType
  <2>2. delay \in Nat
    BY <2>1, DelayAssumption
  <2> QED
    BY <2>2, TimeAssumption DEF Ages
<1> DEFINE u == Returned(jobs[j], preserve, p)
<1>6. /\ u \in JobRow /\ u.status = jobs[j].status
      /\ u.scope = jobs[j].scope /\ u.type = jobs[j].type
  BY <1>3, <1>4, ReturnedRow
<1>7. u.claims = jobs[j].claims
  BY <1>3, SMT DEF Returned, JobRow
<1>8. /\ \A i \in JobIds \ {j} : jobs'[i] = jobs[i]
      /\ jobs'[j] = Closed(u, "failed") \/ jobs'[j] = Requeued(u, delay - a)
  BY <1>2 DEF Retry, RowsOK
<1> HIDE DEF u
<1>9. Exists(u)
  BY <1>3, <1>6 DEF Exists
<1>10. Evolved(u, jobs'[j]) /\ jobs'[j].status # "succeeded"
  BY <1>5, <1>6, <1>8, <1>9, EvolvedClosed, EvolvedRequeued, RequeuedRow
<1> QED
  BY <1>6, <1>7, <1>8, <1>10 DEF Evolved

\* A step of a worker that is not a claim moves this worker only, and writes
\* no row but the one it owns a lease of.
LEMMA StepEffect ==
    ASSUME IInv, WBase, NEW w \in Workers, WorkerStep(w), ~Poll(w)
    PROVE  Alone(w) /\ Touches(w) /\ booted' = booted
<1>1. /\ RowsOK(jobs) /\ jobs \in [JobIds -> JobRow]
      /\ worker \in [Workers -> WorkerRow] /\ worker[w] \in WorkerRow
      /\ worker[w].pc \notin {"idle", "polling"} => worker[w].job \in JobIds
      /\ worker[w].beat => worker[w].pc \notin {"idle", "polling"}
  BY DEF IInv, RowsOK, WBase, WorkerTypeOK, WorkerRow, Bound
<1>2. ASSUME jobs' = jobs PROVE SteadyTable(jobs, jobs')
  BY <1>1, <1>2, SteadyTableSelf
<1>3. CASE Look(w)
  <2> DEFINE y == [worker[w] EXCEPT !.pc = "polling"]
  <2>1. /\ y \in WorkerRow /\ y.pc = "polling" /\ y.beat = worker[w].beat
        /\ worker[w].pc = "idle"
    BY <1>1, <1>3, SetPc DEF Steps, Look
  <2>2. worker' = [worker EXCEPT ![w] = y]
    BY <1>1, <1>3 DEF Look
  <2> HIDE DEF y
  <2>3. Goes(worker[w], y)
    BY <1>1, <2>1 DEF Goes
  <2> QED
    BY <1>2, <1>3, <2>1, <2>2, <2>3, MoveAlone DEF Look, vars, Touches
<1>4. CASE PollNothing(w)
  <2>1. PICK a \in Ages : jobs' = FailExhausted(a)
    BY <1>4 DEF PollNothing, ClaimNothing
  <2> QED
    BY <1>1, <1>4, <2>1, FailExhaustedSteady, LeaveAlone DEF PollNothing, Leave, Touches
<1>5. CASE EnterSlot(w)
  <2>1. CASE worker[w].lost
    BY <1>2, <1>5, <2>1, LeaveAlone DEF EnterSlot, Leave, vars, Touches
  <2>2. CASE ~worker[w].lost
    <3> DEFINE y == [worker[w] EXCEPT !.pc = "handling"]
    <3>1. /\ y \in WorkerRow /\ y.pc = "handling" /\ y.job = worker[w].job
          /\ y.token = worker[w].token /\ y.beat = worker[w].beat
      BY <1>1, SetPc DEF Steps
    <3>2. worker' = [worker EXCEPT ![w] = y] /\ worker[w].pc = "waiting"
      BY <1>1, <1>5, <2>2 DEF EnterSlot
    <3> HIDE DEF y
    <3>3. Goes(worker[w], y)
      BY <2>2, <3>1, <3>2 DEF Goes, Active
    <3> QED
      BY <1>2, <1>5, <3>1, <3>2, <3>3, MoveAlone DEF EnterSlot, vars, Touches
  <2> QED
    BY <2>1, <2>2
<1>6. CASE Heartbeat(w)
  <2> DEFINE y == [worker[w] EXCEPT !.beat = Busy(w)]
  <2>1. /\ y \in WorkerRow /\ y.pc = worker[w].pc /\ y.job = worker[w].job
        /\ y.token = worker[w].token /\ y.beat = Busy(w) /\ y.lost = worker[w].lost
    <3>1. Busy(w) \in BOOLEAN
      BY DEF Busy
    <3> QED
      BY <1>1, <3>1, SetBeat
  <2>2. worker' = [worker EXCEPT ![w] = y] /\ worker[w].beat
    BY <1>1, <1>6 DEF Heartbeat
  <2> HIDE DEF y
  <2>3. Goes(worker[w], y)
    BY <1>1, <2>1, <2>2 DEF Goes, Active, Busy, WorkerRow
  <2>4. PICK a \in Ages : Renew(worker[w].job, worker[w].token, a)
    BY <1>6 DEF Heartbeat
  <2>5. worker[w].job \in JobIds /\ OwnsLease(w)
    BY <1>1, <2>2, <2>4 DEF Renew, OwnsLease
  <2>6. Touches(w)
    <3>1. /\ \A i \in JobIds \ {worker[w].job} : jobs'[i] = jobs[i]
          /\ Evolved(jobs[worker[w].job], jobs'[worker[w].job])
          /\ jobs'[worker[w].job].status = "running"
          /\ jobs'[worker[w].job].token = jobs[worker[w].job].token
          /\ jobs'[worker[w].job].left > 0
      BY <1>1, <2>4, <2>5, RenewedRow
    <3> QED
      BY <1>1, <2>2, <2>5, <3>1 DEF Touches, Unharmed, Running
  <2> QED
    BY <1>6, <2>1, <2>2, <2>3, <2>6, MoveAlone DEF Heartbeat
<1>7. CASE HeartbeatStops(w)
  <2> DEFINE m == [worker[w] EXCEPT !.beat = FALSE]
             y == [m EXCEPT !.lost = TRUE]
  <2>1. /\ m \in WorkerRow /\ m.pc = worker[w].pc /\ m.job = worker[w].job
        /\ m.token = worker[w].token
    BY <1>1, SetBeat
  <2>2. worker' = [worker EXCEPT ![w] = y] /\ worker[w].beat
    BY <1>1, <1>7 DEF HeartbeatStops
  <2> HIDE DEF m
  <2>3. /\ y \in WorkerRow /\ y.pc = worker[w].pc /\ y.job = worker[w].job
        /\ y.token = worker[w].token /\ y.lost = TRUE
    BY <2>1, SetLost
  <2> HIDE DEF y
  <2>4. Goes(worker[w], y)
    BY <1>1, <2>2, <2>3 DEF Goes, Active
  <2> QED
    BY <1>2, <1>7, <2>2, <2>3, <2>4, MoveAlone DEF HeartbeatStops, vars, Touches
<1>8. CASE HandlerReturns(w) \/ HandlerRaises(w) \/ FinishRaises(w)
  <2>1. /\ Leave(w) \/ Proceed(w, "finishing") \/ Proceed(w, "retrying")
        /\ worker[w].pc \notin {"idle", "polling"} /\ UNCHANGED vars
    BY <1>8 DEF HandlerReturns, HandlerRaises, FinishRaises
  <2> QED
    BY <1>2, <2>1, LeaveAlone, ProceedAlone DEF Leave, vars, Touches
<1>9. CASE FinishJob(w)
  <2>1. CASE OwnsLease(w)
    <3>1. PICK st \in {"succeeded", "failed"} :
            Finish(worker[w].job, worker[w].token, st)
      BY <1>9, <2>1 DEF FinishJob
    <3>2. worker[w].job \in JobIds /\ worker' = [worker EXCEPT ![w] = Free]
      BY <1>1, <1>9 DEF FinishJob, Leave
    <3> QED
      BY <1>1, <1>9, <2>1, <3>1, <3>2, FinishedRow, LeaveAlone DEF FinishJob, Touches
  <2> QED
    BY <1>2, <1>9, <2>1, LeaveAlone DEF FinishJob, Leave, Touches
<1>10. CASE RetryJob(w)
  <2>1. CASE OwnsLease(w)
    <3>1. PICK a \in Ages : RetryAs(worker[w].job, worker[w].token, a)
      BY <1>10, <2>1 DEF RetryJob
    <3>2. worker[w].job \in JobIds /\ worker' = [worker EXCEPT ![w] = Free]
      BY <1>1, <1>10 DEF RetryJob, Leave
    <3> QED
      BY <1>1, <1>10, <2>1, <3>1, <3>2, RetriedRow, LeaveAlone DEF RetryJob, Touches
  <2> QED
    BY <1>2, <1>10, <2>1, LeaveAlone DEF RetryJob, Leave, Touches
<1>11. CASE RetryRaises(w)
  BY <1>2, <1>11, LeaveAlone DEF RetryRaises, Leave, vars, Touches
<1> QED
  BY <1>3, <1>4, <1>5, <1>6, <1>7, <1>8, <1>9, <1>10, <1>11 DEF WorkerStep

\* The other steps: others write the table, processes restart, a renewal of a
\* run that is over is carried out, demand comes and goes.
Elsewhere ==
    \/ \E p \in Processes : Restart(p)
    \/ LateRenewal
    \/ IdleChanges
    \/ ReconcileQueue /\ UNCHANGED workerVars
    \/ Admission /\ UNCHANGED workerVars
    \/ \E s \in Scopes : DeleteScope(s) /\ UNCHANGED workerVars
    \/ UNCHANGED allVars

LEMMA ElsewhereEffect ==
    ASSUME IInv, WBase, Elsewhere
    PROVE  /\ SteadyTable(jobs, jobs') /\ (booted => booted')
           /\ worker' \in [Workers -> WorkerRow]
           /\ \A w \in Workers : Goes(worker[w], worker'[w])
<1>1. RowsOK(jobs) /\ jobs \in [JobIds -> JobRow] /\ worker \in [Workers -> WorkerRow]
  BY DEF IInv, RowsOK, WBase, WorkerTypeOK, WorkerRow
<1>2. ASSUME worker' = worker
      PROVE  /\ worker' \in [Workers -> WorkerRow]
             /\ \A w \in Workers : Goes(worker[w], worker'[w])
  BY <1>1, <1>2 DEF Goes
<1>3. ASSUME NEW p \in Processes, Restart(p)
      PROVE  /\ SteadyTable(jobs, jobs') /\ booted'
             /\ worker' \in [Workers -> WorkerRow]
             /\ \A w \in Workers : Goes(worker[w], worker'[w])
  <2>1. ReconcileQueue /\ booted'
    BY <1>3 DEF Restart, ReconcileQueue
  <2>2. worker' = [w \in Workers |-> IF ProcessOf[w] = p THEN Free ELSE worker[w]]
    BY <1>3 DEF Restart
  <2> QED
    BY <1>1, <2>1, <2>2, FreeRow, ReconcileQueueSteady DEF Goes
<1>4. CASE ReconcileQueue /\ UNCHANGED workerVars
  BY <1>2, <1>4, ReconcileQueueSteady DEF ReconcileQueue, workerVars
<1>5. CASE Admission /\ UNCHANGED workerVars
  <2>1. booted => booted'
    <3>1. \A c \in Schedulers :
            AdmitJoin(c) \/ AdmitNew(c) \/ Abandon(c) => booted' = booted
      BY DEF AdmitJoin, AdmitNew, Abandon
    <3>2. \A c \in Schedulers, a \in Ages :
            InsertCoalesced(c, a) \/ ReconcileBeforeAdmit(c, a) => booted' = booted
      BY DEF InsertCoalesced, ReconcileBeforeAdmit
    <3>3. \A s, g, p, a : EnqueueInteraction(s, g, p, a) => booted' = booted
      BY DEF EnqueueInteraction
    <3>4. \A c, s, t, g, p, d :
            RequestCoalesced(c, s, t, g, p, d) \/ RequestSingleton(c, s, t, g, p, d) =>
              booted' = booted
      BY DEF RequestCoalesced, RequestSingleton
    <3> QED
      BY <1>5, <3>1, <3>2, <3>3, <3>4 DEF Admission
  <2> QED
    BY <1>2, <1>5, <2>1, AdmissionSteady DEF workerVars
<1>6. ASSUME NEW s \in Scopes, DeleteScope(s), UNCHANGED workerVars
      PROVE  /\ SteadyTable(jobs, jobs') /\ (booted => booted')
             /\ worker' \in [Workers -> WorkerRow]
             /\ \A w \in Workers : Goes(worker[w], worker'[w])
  BY <1>2, <1>6, DeleteScopeSteady DEF DeleteScope, workerVars
<1>7. CASE UNCHANGED allVars
  BY <1>1, <1>2, <1>7, SteadyTableSelf DEF allVars, vars, workerVars
<1>8. CASE LateRenewal
  <2>1. PICK r \in renewals : UNCHANGED jobs \/ \E a \in Ages : Renew(r[2], r[3], a)
    BY <1>8 DEF LateRenewal
  <2>2. ASSUME NEW a \in Ages, Renew(r[2], r[3], a) PROVE SteadyTable(jobs, jobs')
    <3>1. r[2] \in JobIds
      BY <2>1 DEF WBase, WorkerTypeOK
    <3>2. /\ \A i \in JobIds \ {r[2]} : jobs'[i] = jobs[i]
          /\ Evolved(jobs[r[2]], jobs'[r[2]]) /\ jobs'[r[2]].status = "running"
          /\ jobs'[r[2]].token = jobs[r[2]].token /\ jobs'[r[2]].left > 0
      BY <1>1, <2>2, <3>1, RenewedRow
    <3>3. Steady(jobs[r[2]], jobs'[r[2]])
      BY <3>2 DEF Steady, Unharmed, Running
    <3> QED
      BY <1>1, <3>2, <3>3, SteadySelf DEF SteadyTable
  <2>3. SteadyTable(jobs, jobs')
    BY <1>1, <2>1, <2>2, SteadyTableSelf
  <2> QED
    BY <1>2, <1>8, <2>3 DEF LateRenewal
<1>9. CASE IdleChanges
  BY <1>1, <1>2, <1>9, SteadyTableSelf DEF IdleChanges, vars
<1> QED
  BY <1>3, <1>4, <1>5, <1>6, <1>7, <1>8, <1>9 DEF Elsewhere

LEMMA Split ==
    ASSUME [WorkerNext]_allVars
    PROVE  \/ \E w \in Workers : Poll(w) \/ (WorkerStep(w) /\ ~Poll(w))
           \/ Elsewhere
           \/ TickWorkers
  BY DEF WorkerNext, WorkerStep, Elsewhere

-----------------------------------------------------------------------------
(* Types and tokens. *)

LEMMA SlotTyped ==
    ASSUME WBase, [WorkerNext]_allVars
    PROVE  slot' \in [Processes -> Workers \cup {"none"}]
<1>1. slot \in [Processes -> Workers \cup {"none"}]
  BY DEF WBase, WorkerTypeOK
<1>2. ASSUME slot' = slot PROVE slot' \in [Processes -> Workers \cup {"none"}]
  BY <1>1, <1>2
<1>3. ASSUME NEW w, slot' = [p \in Processes |-> IF slot[p] = w THEN "none" ELSE slot[p]]
      PROVE  slot' \in [Processes -> Workers \cup {"none"}]
  BY <1>1, <1>3
<1>4. ASSUME NEW w \in Workers, WorkerStep(w)
      PROVE  slot' \in [Processes -> Workers \cup {"none"}]
  <2>1. CASE EnterSlot(w)
    BY <1>1, <1>3, <2>1 DEF EnterSlot, Leave
  <2> QED
    BY <1>2, <1>3, <1>4, <2>1
    DEF WorkerStep, Poll, PollNothing, Heartbeat, HeartbeatStops, HandlerReturns, HandlerRaises,
        FinishJob, FinishRaises, RetryJob, RetryRaises, Look, Leave, Proceed, workerVars
<1> QED
  BY <1>1, <1>2, <1>4
  DEF WorkerNext, Restart, LateRenewal, IdleChanges, TickWorkers, workerVars, allVars

\* Renewals under way are of runs there were, in a queue that is up.
RestTyped ==
    /\ renewals \subseteq Workers \X JobIds \X Nat
    /\ idle \in {FALSE, IdlePolicy}
    /\ renewals # {} => booted

LEMMA RestKept ==
    ASSUME IInv, WBase, [WorkerNext]_allVars, booted => booted'
    PROVE  RestTyped'
<1>1. RestTyped
  BY DEF WBase, WorkerTypeOK, RestTyped
<1>2. ASSUME renewals' \subseteq renewals, idle' = idle PROVE RestTyped'
  BY <1>1, <1>2 DEF RestTyped
<1>3. ASSUME NEW w \in Workers, WorkerStep(w) PROVE RestTyped'
  <2>1. CASE RetryRaises(w)
    <3>1. /\ worker[w].job \in JobIds /\ worker[w].token \in Nat /\ booted
      BY <2>1 DEF RetryRaises, WBase, WorkerTypeOK, Bound
    <3>2. <<w, worker[w].job, worker[w].token>> \in Workers \X JobIds \X Nat
      BY <3>1
    <3>3. renewals' \subseteq renewals \cup {<<w, worker[w].job, worker[w].token>>}
      BY <2>1 DEF RetryRaises
    <3> QED
      BY <1>1, <2>1, <3>1, <3>2, <3>3 DEF RetryRaises, vars, RestTyped
  <2> QED
    BY <1>2, <1>3, <2>1
    DEF WorkerStep, Look, Poll, PollNothing, EnterSlot, Heartbeat, HeartbeatStops,
        HandlerReturns, HandlerRaises, FinishJob, FinishRaises, RetryJob
<1>4. CASE IdleChanges
  <2>1. idle' \in {FALSE, IdlePolicy}
    BY <1>1, <1>4, WorkerAssumption, Zenon DEF IdleChanges, RestTyped
  <2> QED
    BY <1>1, <1>4, <2>1 DEF IdleChanges, RestTyped
<1>5. CASE LateRenewal
  BY <1>2, <1>5 DEF LateRenewal
<1>6. ASSUME NEW p \in Processes, Restart(p) PROVE RestTyped'
  BY <1>2, <1>6 DEF Restart
<1> QED
  BY <1>2, <1>3, <1>4, <1>5, <1>6 DEF WorkerNext, TickWorkers, workerVars, allVars

\* Workers that go on keep jobs and tokens.
LEMMA GoesKeepsBase ==
    ASSUME WBase, slot' \in [Processes -> Workers \cup {"none"}],
           jobs \in [JobIds -> JobRow], jobs' \in [JobIds -> JobRow],
           worker' \in [Workers -> WorkerRow],
           \A w \in Workers : Goes(worker[w], worker'[w]),
           \A j \in JobIds : Evolved(jobs[j], jobs'[j]), booted => booted', RestTyped'
    PROVE  WBase'
<1>1. WorkerTypeOK'
  BY DEF WorkerTypeOK, WorkerRow, RestTyped
<1>2. ASSUME NEW w \in Workers
      PROVE  /\ worker'[w].pc \notin {"idle", "polling"} =>
                  /\ worker[w].pc \notin {"idle", "polling"}
                  /\ worker'[w].job = worker[w].job /\ worker'[w].token = worker[w].token
             /\ worker'[w].beat => worker'[w].pc \notin {"idle", "polling"}
             /\ Bound(worker[w], jobs) /\ (worker[w].pc \notin {"idle", "polling"} => booted)
  BY DEF WBase, Goes, Bound, Free
<1>3. ASSUME NEW w \in Workers
      PROVE  /\ Bound(worker'[w], jobs')
             /\ worker'[w].pc \notin {"idle", "polling"} => booted'
  <2>1. CASE worker'[w].pc \in {"idle", "polling"}
    BY <1>2, <2>1 DEF Bound
  <2>2. CASE worker'[w].pc \notin {"idle", "polling"}
    <3> DEFINE j == worker[w].job
    <3>1. /\ j \in JobIds /\ worker'[w].job = j /\ worker'[w].token = worker[w].token
          /\ 0 < worker[w].token /\ worker[w].token <= jobs[j].claims
          /\ jobs[j].status # "absent" /\ booted
      BY <1>2, <2>2 DEF Bound
    <3>2. /\ jobs'[j].claims >= jobs[j].claims /\ jobs'[j].status # "absent"
          /\ jobs'[j].claims \in Nat /\ jobs[j].claims \in Nat /\ worker[w].token \in Nat
      BY <3>1 DEF Evolved, JobRow, WBase, WorkerTypeOK
    <3> HIDE DEF j
    <3>3. worker[w].token <= jobs'[j].claims
      BY <3>1, <3>2
    <3> QED
      BY <1>2, <2>2, <3>1, <3>2, <3>3 DEF Bound
  <2> QED
    BY <2>1, <2>2
<1>4. \A v, w \in Workers : v # w => Apart(worker'[v], worker'[w])
  BY <1>2 DEF WBase, Apart
<1> QED
  BY <1>1, <1>3, <1>4 DEF WBase, RestTyped

\* What a claim makes of its worker.
Claimed(w, j) ==
    [pc |-> IF jobs[j].type \in InventoryTypes THEN "waiting" ELSE "handling",
     job |-> j, token |-> jobs'[j].token, beat |-> TRUE, lost |-> FALSE]

\* A claim gives its worker a token nobody has, of a lease with time left.
LEMMA PollEffect ==
    ASSUME IInv, WBase, NEW w \in Workers, Poll(w), IInv'
    PROVE  \E j \in JobIds :
             /\ worker' = [worker EXCEPT ![w] = Claimed(w, j)]
             /\ Claimed(w, j) \in WorkerRow /\ booted /\ booted'
             /\ \A i \in JobIds : Evolved(jobs[i], jobs'[i])
             /\ \A i \in JobIds \ {j} : Steady(jobs[i], jobs'[i])
             /\ Exists(jobs[j]) /\ Running(jobs'[j]) /\ jobs'[j].left > 0
             /\ jobs'[j].token = jobs[j].claims + 1 /\ jobs'[j].claims = jobs[j].claims + 1
             /\ \A i \in JobIds :
                   Of(jobs[i], jobs[j].scope, jobs[j].type) =>
                     ~(Running(jobs[i]) /\ jobs[i].left > 0)
<1>1. PICK a \in Ages, j \in JobIds :
        /\ Claim(j, LaneOf[w], a)
        /\ worker' = [worker EXCEPT ![w] = Claimed(w, j)]
  BY DEF Poll, Claimed
<1>2. /\ jobs'[j] = Leased(jobs[j], a) /\ Actionable(jobs[j])
      /\ \A i \in JobIds \ {j} : Steady(jobs[i], jobs'[i])
      /\ \A i \in JobIds :
            Of(jobs[i], jobs[j].scope, jobs[j].type) =>
              ~(Running(jobs[i]) /\ jobs[i].left > 0)
  BY <1>1, ClaimEffect
<1>3. jobs[j] \in JobRow /\ jobs[j].claims \in Nat
  BY DEF IInv, RowsOK, JobRow
<1>4. /\ jobs'[j].status = "running" /\ jobs'[j].token = jobs[j].claims + 1
      /\ jobs'[j].claims = jobs[j].claims + 1 /\ jobs'[j].left = Lease - a
      /\ jobs'[j].scope = jobs[j].scope /\ jobs'[j].type = jobs[j].type
  BY <1>2, <1>3, LeasedRow
<1>5. Lease - a > 0
  BY TimeAssumption DEF Ages
<1>6. Exists(jobs[j]) /\ jobs[j].status # "deleted"
  BY <1>2 DEF Actionable, Waiting, Running, Exists
<1>7. Evolved(jobs[j], jobs'[j])
  BY <1>3, <1>4, <1>6 DEF Evolved
<1>8. Claimed(w, j) \in WorkerRow
  <2>1. jobs'[j].token \in Nat
    BY <1>3, <1>4
  <2> QED
    BY <2>1 DEF Claimed, WorkerRow
<1> QED
  BY <1>1, <1>2, <1>4, <1>5, <1>6, <1>7, <1>8 DEF Poll, Steady, Running

LEMMA PollKeepsBase ==
    ASSUME IInv, IInv', WBase, NEW w \in Workers, Poll(w),
           slot' \in [Processes -> Workers \cup {"none"}], RestTyped'
    PROVE  WBase'
<1>1. PICK j \in JobIds :
        /\ worker' = [worker EXCEPT ![w] = Claimed(w, j)]
        /\ Claimed(w, j) \in WorkerRow /\ booted /\ booted'
        /\ \A i \in JobIds : Evolved(jobs[i], jobs'[i])
        /\ Exists(jobs[j])
        /\ jobs'[j].token = jobs[j].claims + 1 /\ jobs'[j].claims = jobs[j].claims + 1
  BY PollEffect
<1>2. /\ worker \in [Workers -> WorkerRow]
      /\ jobs \in [JobIds -> JobRow] /\ jobs' \in [JobIds -> JobRow]
  BY DEF WBase, WorkerTypeOK, WorkerRow, IInv, RowsOK
<1>3. /\ worker' \in [Workers -> WorkerRow] /\ worker'[w] = Claimed(w, j)
      /\ \A v \in Workers \ {w} : worker'[v] = worker[v]
  BY <1>1, <1>2
<1>4. WorkerTypeOK'
  BY <1>3 DEF WorkerTypeOK, WorkerRow, RestTyped
<1>5. /\ Claimed(w, j).job = j /\ Claimed(w, j).token = jobs[j].claims + 1
      /\ Claimed(w, j).pc \notin {"idle", "polling"}
  BY <1>1 DEF Claimed
<1>6. \A i \in JobIds : jobs[i].claims \in Nat /\ jobs'[i].claims \in Nat
  BY <1>2 DEF JobRow
<1>7. Bound(worker'[w], jobs')
  <2>1. jobs'[j].status # "absent"
    BY <1>1 DEF Evolved, Exists
  <2> QED
    BY <1>1, <1>3, <1>5, <1>6, <2>1 DEF Bound
<1>8. ASSUME NEW v \in Workers \ {w}, worker[v].pc \notin {"idle", "polling"}
      PROVE  /\ worker[v].job \in JobIds /\ worker[v].token <= jobs[worker[v].job].claims
             /\ 0 < worker[v].token /\ worker[v].token \in Nat
             /\ jobs[worker[v].job].status # "absent"
  BY <1>2, <1>8 DEF WBase, Bound, WorkerRow
<1>9. ASSUME NEW v \in Workers \ {w}
      PROVE  Bound(worker'[v], jobs') /\ Apart(worker'[v], worker'[w])
             /\ Apart(worker'[w], worker'[v])
  <2>1. CASE worker[v].pc \in {"idle", "polling"}
    BY <1>3, <2>1 DEF WBase, Bound, Apart
  <2>2. CASE worker[v].pc \notin {"idle", "polling"}
    <3>1. /\ jobs'[worker[v].job].claims >= jobs[worker[v].job].claims
          /\ jobs'[worker[v].job].status # "absent"
      BY <1>1, <1>8, <2>2 DEF Evolved
    <3>2. Bound(worker'[v], jobs')
      BY <1>3, <1>6, <1>8, <2>2, <3>1 DEF Bound
    <3>3. worker[v].job = j => worker[v].token # jobs[j].claims + 1
      BY <1>6, <1>8, <2>2
    <3> QED
      BY <1>3, <1>5, <3>2, <3>3 DEF Apart
  <2> QED
    BY <2>1, <2>2
<1>10. \A v, u \in Workers : v # u => Apart(worker'[v], worker'[u])
  BY <1>3, <1>9 DEF WBase
<1> QED
  BY <1>1, <1>3, <1>4, <1>7, <1>9, <1>10 DEF WBase, RestTyped

-----------------------------------------------------------------------------
(* Punctual heartbeats. *)

\* The timing assumption: heartbeats renew in time, and before the lease ends.
PunctualHeartbeats == Punctual /\ RenewEvery < Lease

\* A handler that has not lost its lease has it, with time left, unless the
\* account was reset.
Held(x, r) ==
    Active(x) =>
      /\ x.beat
      /\ \/ Running(r) /\ r.token = x.token /\ r.left > 0
         \/ r.status = "deleted"

Exclusive(x, y, rows) ==
    /\ Active(x) /\ Active(y) /\ Exists(rows[x.job]) /\ Exists(rows[y.job])
    => rows[x.job].scope # rows[y.job].scope \/ rows[x.job].type # rows[y.job].type

PunctualInv ==
    PunctualHeartbeats =>
      /\ \A w \in Workers : Held(worker[w], jobs[worker[w].job])
      /\ \A v, w \in Workers : v # w => Exclusive(worker[v], worker[w], jobs)

LEMMA HeldKept ==
    ASSUME NEW x, NEW y, Goes(x, y), Held(x, jobs[x.job]),
           Evolved(jobs[x.job], jobs'[x.job]),
           Active(y) => Unharmed(jobs[x.job], jobs'[x.job])
    PROVE  Held(y, jobs'[y.job])
<1> SUFFICES ASSUME Active(y) PROVE y.beat /\ \/ /\ Running(jobs'[y.job])
                                                 /\ jobs'[y.job].token = y.token
                                                 /\ jobs'[y.job].left > 0
                                              \/ jobs'[y.job].status = "deleted"
  BY DEF Held
<1>1. Active(x) /\ y.beat = x.beat /\ y.job = x.job /\ y.token = x.token
  BY DEF Goes, Active, Free
<1>2. CASE jobs[x.job].status = "deleted"
  BY <1>1, <1>2 DEF Held, Evolved
<1>3. CASE jobs[x.job].status # "deleted"
  BY <1>1, <1>3 DEF Held, Unharmed
<1> QED
  BY <1>2, <1>3

LEMMA ExclusiveKept ==
    ASSUME NEW x1, NEW x2, NEW y1, NEW y2, Goes(x1, y1), Goes(x2, y2),
           Bound(x1, jobs), Bound(x2, jobs), Exclusive(x1, x2, jobs),
           \A j \in JobIds : Evolved(jobs[j], jobs'[j])
    PROVE  Exclusive(y1, y2, jobs')
<1> SUFFICES ASSUME Active(y1), Active(y2), Exists(jobs'[y1.job]), Exists(jobs'[y2.job])
             PROVE  \/ jobs'[y1.job].scope # jobs'[y2.job].scope
                    \/ jobs'[y1.job].type # jobs'[y2.job].type
  BY DEF Exclusive
<1>1. ASSUME NEW x, NEW y, Goes(x, y), Bound(x, jobs), Active(y), Exists(jobs'[y.job])
      PROVE  /\ Active(x) /\ y.job = x.job /\ Exists(jobs[x.job])
             /\ jobs'[x.job].scope = jobs[x.job].scope
             /\ jobs'[x.job].type = jobs[x.job].type
  <2>1. Active(x) /\ y.job = x.job
    BY <1>1 DEF Goes, Active, Free
  <2>2. x.job \in JobIds /\ jobs[x.job].status # "absent"
    BY <1>1, <2>1 DEF Bound, Active
  <2> QED
    BY <1>1, <2>1, <2>2 DEF Evolved, Exists
<1> QED
  BY <1>1 DEF Exclusive

\* Nobody writes the row of a lease another worker holds.
LEMMA StepSpares ==
    ASSUME WBase, PunctualInv, PunctualHeartbeats, NEW w \in Workers, Alone(w), Touches(w),
           NEW v \in Workers, Active(worker'[v])
    PROVE  Unharmed(jobs[worker[v].job], jobs'[worker[v].job])
<1> DEFINE i == worker[v].job
           j == worker[w].job
<1>1. Active(worker[v]) /\ worker[v].pc \notin {"idle", "polling"}
  BY DEF Alone, Goes, Active, Free
<1>2. i \in JobIds /\ Held(worker[v], jobs[i])
  BY <1>1 DEF WBase, Bound, PunctualInv
<1>3. CASE SteadyTable(jobs, jobs')
  BY <1>2, <1>3 DEF SteadyTable, Steady
<1>4. CASE ~SteadyTable(jobs, jobs')
  <2>1. /\ worker[w].pc \notin {"idle", "polling"} /\ Owns(j, worker[w].token)
        /\ \A k \in JobIds \ {j} : jobs'[k] = jobs[k]
        /\ worker'[w] = Free \/ Unharmed(jobs[j], jobs'[j])
    BY <1>4 DEF Touches, OwnsLease
  <2>2. CASE v = w
    BY <2>1, <2>2 DEF Active, Free
  <2>3. CASE v # w
    <3>1. i # j
      BY <1>1, <1>2, <2>1, <2>3 DEF WBase, Apart, Held, Owns, Running
    <3> QED
      BY <1>2, <2>1, <3>1 DEF Unharmed
  <2> QED
    BY <2>2, <2>3
<1> QED
  BY <1>3, <1>4

LEMMA GoesKeepsPunctual ==
    ASSUME WBase, PunctualInv,
           \A w \in Workers : Goes(worker[w], worker'[w]),
           \A j \in JobIds : Evolved(jobs[j], jobs'[j]),
           ASSUME PunctualHeartbeats, NEW v \in Workers, Active(worker'[v])
           PROVE  Unharmed(jobs[worker[v].job], jobs'[worker[v].job])
    PROVE  PunctualInv'
<1> SUFFICES ASSUME PunctualHeartbeats
             PROVE  /\ \A w \in Workers : Held(worker'[w], jobs'[worker'[w].job])
                    /\ \A v, w \in Workers :
                          v # w => Exclusive(worker'[v], worker'[w], jobs')
  BY DEF PunctualInv, PunctualHeartbeats
<1>1. ASSUME NEW w \in Workers
      PROVE  Held(worker'[w], jobs'[worker'[w].job])
  <2>1. CASE Active(worker'[w])
    <3>1. Active(worker[w]) /\ Goes(worker[w], worker'[w])
      BY <2>1 DEF Goes, Active, Free
    <3>2. worker[w].job \in JobIds /\ Held(worker[w], jobs[worker[w].job])
      BY <3>1 DEF WBase, Bound, Active, PunctualInv
    <3>3. Unharmed(jobs[worker[w].job], jobs'[worker[w].job])
      BY <2>1
    <3> QED
      BY <3>1, <3>2, <3>3, HeldKept
  <2>2. CASE ~Active(worker'[w])
    BY <2>2 DEF Held
  <2> QED
    BY <2>1, <2>2
<1>2. ASSUME NEW v \in Workers, NEW w \in Workers, v # w
      PROVE  Exclusive(worker'[v], worker'[w], jobs')
  <2>1. /\ Exclusive(worker[v], worker[w], jobs)
        /\ Bound(worker[v], jobs) /\ Bound(worker[w], jobs)
    BY <1>2 DEF PunctualInv, WBase
  <2> QED
    BY <2>1, ExclusiveKept
<1> QED
  BY <1>1, <1>2

\* Time passes only while every heartbeat is in time.
LEMMA TickKeepsHeld ==
    ASSUME IInv, WBase, PunctualInv, PunctualHeartbeats, TickWorkers,
           NEW v \in Workers, Active(worker'[v])
    PROVE  Unharmed(jobs[worker[v].job], jobs'[worker[v].job])
<1> DEFINE j == worker[v].job
<1>1. worker' = worker /\ Tick /\ ~Overdue(v)
  BY DEF TickWorkers, workerVars, PunctualHeartbeats
<1>2. Active(worker[v]) /\ Busy(v) /\ Bound(worker[v], jobs)
  BY <1>1 DEF Active, Busy, WBase
<1>3. /\ j \in JobIds /\ 0 < worker[v].token /\ worker[v].beat
      /\ \/ Running(jobs[j]) /\ jobs[j].token = worker[v].token
         \/ jobs[j].status = "deleted"
  BY <1>2 DEF Bound, Active, PunctualInv, Held
<1>4. jobs[j] \in JobRow /\ jobs'[j] = Aged(jobs[j])
  BY <1>1, <1>3 DEF IInv, RowsOK, Tick
<1>5. CASE Running(jobs[j]) /\ jobs[j].token = worker[v].token
  <2>1. ~(jobs[j].left <= Lease - RenewEvery)
    BY <1>1, <1>2, <1>3, <1>5 DEF Overdue, OwnsLease, Owns
  <2>2. jobs[j].left > 1
    <3>1. Lease - RenewEvery \in Int /\ Lease - RenewEvery >= 1 /\ jobs[j].left \in Int
      BY <1>4, WorkerAssumption, TimeAssumption DEF PunctualHeartbeats, JobRow
    <3> QED
      BY <2>1, <3>1
  <2>3. /\ jobs'[j].status = jobs[j].status /\ jobs'[j].token = jobs[j].token
        /\ jobs'[j].left = Greater(jobs[j].left - 1, -Skew)
    BY <1>4, <1>5, AgedRow
  <2>4. jobs'[j].left > 0
    BY <1>4, <2>2, <2>3, TimeAssumption DEF Greater, JobRow
  <2> QED
    BY <1>5, <2>3, <2>4 DEF Unharmed, Running
<1>6. CASE jobs[j].status = "deleted"
  BY <1>6 DEF Unharmed, Running
<1> QED
  BY <1>3, <1>5, <1>6

\* A claim finds the leases the others hold, and takes nothing of their work.
LEMMA PollKeepsPunctual ==
    ASSUME IInv, IInv', WBase, PunctualInv, NEW w \in Workers, Poll(w)
    PROVE  PunctualInv'
<1> SUFFICES ASSUME PunctualHeartbeats
             PROVE  /\ \A v \in Workers : Held(worker'[v], jobs'[worker'[v].job])
                    /\ \A v, u \in Workers :
                          v # u => Exclusive(worker'[v], worker'[u], jobs')
  BY DEF PunctualInv, PunctualHeartbeats
<1>1. PICK j \in JobIds :
        /\ worker' = [worker EXCEPT ![w] = Claimed(w, j)]
        /\ Claimed(w, j) \in WorkerRow
        /\ \A i \in JobIds : Evolved(jobs[i], jobs'[i])
        /\ \A i \in JobIds \ {j} : Steady(jobs[i], jobs'[i])
        /\ Exists(jobs[j]) /\ Running(jobs'[j]) /\ jobs'[j].left > 0
        /\ \A i \in JobIds :
              Of(jobs[i], jobs[j].scope, jobs[j].type) =>
                ~(Running(jobs[i]) /\ jobs[i].left > 0)
  BY PollEffect
<1>2. /\ worker'[w] = Claimed(w, j)
      /\ \A v \in Workers \ {w} : worker'[v] = worker[v]
  BY <1>1 DEF WBase, WorkerTypeOK
<1>3. /\ Claimed(w, j).job = j /\ Claimed(w, j).token = jobs'[j].token
      /\ Claimed(w, j).beat /\ ~Claimed(w, j).lost
  BY DEF Claimed
<1>4. Held(worker'[w], jobs'[worker'[w].job])
  BY <1>1, <1>2, <1>3 DEF Held
<1>5. jobs'[j].scope = jobs[j].scope /\ jobs'[j].type = jobs[j].type
  BY <1>1 DEF Evolved, Exists
<1>6. ASSUME NEW v \in Workers \ {w}, Active(worker[v])
      PROVE  LET i == worker[v].job IN
             /\ i \in JobIds /\ Held(worker[v], jobs[i])
             /\ Exists(jobs[i]) =>
                  jobs[i].scope # jobs[j].scope \/ jobs[i].type # jobs[j].type
             /\ i # j /\ Evolved(jobs[i], jobs'[i]) /\ Unharmed(jobs[i], jobs'[i])
             /\ jobs[i].status # "absent"
  <2> DEFINE i == worker[v].job
  <2>1. i \in JobIds /\ Held(worker[v], jobs[i]) /\ jobs[i].status # "absent"
    BY <1>6 DEF WBase, Bound, Active, PunctualInv
  <2>2. Exists(jobs[i]) => jobs[i].scope # jobs[j].scope \/ jobs[i].type # jobs[j].type
    BY <1>1, <1>6, <2>1 DEF Held, Of, Exists
  <2>3. i # j
    BY <1>1, <2>2
  <2> QED
    BY <1>1, <2>1, <2>2, <2>3 DEF Steady
<1>7. ASSUME NEW v \in Workers \ {w}
      PROVE  /\ Held(worker'[v], jobs'[worker'[v].job])
             /\ Exclusive(worker'[v], worker'[w], jobs')
             /\ Exclusive(worker'[w], worker'[v], jobs')
  <2>1. CASE Active(worker[v])
    <3>1. Held(worker'[v], jobs'[worker'[v].job])
      BY <1>2, <1>6, <2>1, HeldKept DEF Goes
    <3>2. Exists(jobs'[worker[v].job]) =>
            \/ jobs'[worker[v].job].scope # jobs'[j].scope
            \/ jobs'[worker[v].job].type # jobs'[j].type
      BY <1>5, <1>6, <2>1 DEF Evolved, Exists
    <3> QED
      BY <1>2, <1>3, <3>1, <3>2 DEF Exclusive
  <2>2. CASE ~Active(worker[v])
    BY <1>2, <2>2 DEF Held, Exclusive
  <2> QED
    BY <2>1, <2>2
<1>8. ASSUME NEW v \in Workers \ {w}, NEW u \in Workers \ {w}, v # u
      PROVE  Exclusive(worker'[v], worker'[u], jobs')
  <2>1. /\ Exclusive(worker[v], worker[u], jobs)
        /\ Bound(worker[v], jobs) /\ Bound(worker[u], jobs)
    BY <1>8 DEF PunctualInv, WBase
  <2> QED
    BY <1>1, <1>2, <2>1, ExclusiveKept DEF Goes
<1> QED
  BY <1>4, <1>7, <1>8

-----------------------------------------------------------------------------
(* The inventory slot. *)

SlotInv ==
    /\ SlotHeldByHandler
    /\ \A w \in Workers :
         worker[w].pc = "waiting" => jobs[worker[w].job].type \in InventoryTypes

\* A worker stays where it is, or is neither waiting for the slot nor handling.
Stays(w) ==
    /\ worker'[w].pc = worker[w].pc /\ worker'[w].job = worker[w].job
    /\ \A p \in Processes : slot'[p] = w <=> slot[p] = w

Gone(w) ==
    /\ worker'[w].pc \notin {"waiting", "handling"}
    /\ \A p \in Processes : slot'[p] # w

LEMMA TypesKept ==
    ASSUME WBase, \A j \in JobIds : Evolved(jobs[j], jobs'[j]),
           NEW w \in Workers, worker[w].pc \notin {"idle", "polling"}
    PROVE  jobs'[worker[w].job].type = jobs[worker[w].job].type
  BY DEF WBase, Bound, Evolved

LEMMA SlotKept ==
    ASSUME WBase, SlotInv, \A j \in JobIds : Evolved(jobs[j], jobs'[j]),
           \A w \in Workers : Stays(w) \/ Gone(w)
    PROVE  SlotInv'
<1>1. ASSUME NEW w \in Workers, NEW p \in Processes
      PROVE  /\ slot'[p] = w <=>
                  /\ ProcessOf[w] = p /\ worker'[w].pc = "handling"
                  /\ jobs'[worker'[w].job].type \in InventoryTypes
  BY TypesKept DEF SlotInv, SlotHeldByHandler, Stays, Gone
<1>2. ASSUME NEW w \in Workers, worker'[w].pc = "waiting"
      PROVE  jobs'[worker'[w].job].type \in InventoryTypes
  BY <1>2, TypesKept DEF SlotInv, Stays, Gone
<1> QED
  BY <1>1, <1>2 DEF SlotInv, SlotHeldByHandler

\* A worker that waits gets the slot when nobody has it.
LEMMA EnterSlotStep ==
    ASSUME WBase, SlotInv, NEW w \in Workers, EnterSlot(w), ~worker[w].lost
    PROVE  SlotInv'
<1>1. /\ worker[w].pc = "waiting" /\ slot[ProcessOf[w]] = "none"
      /\ worker' = [worker EXCEPT ![w].pc = "handling"]
      /\ slot' = [slot EXCEPT ![ProcessOf[w]] = w] /\ jobs' = jobs
  BY DEF EnterSlot, vars
<1>2. worker \in [Workers -> WorkerRow] /\ slot \in [Processes -> Workers \cup {"none"}]
  BY DEF WBase, WorkerTypeOK, WorkerRow
<1>3. /\ worker'[w].pc = "handling" /\ worker'[w].job = worker[w].job
      /\ \A v \in Workers \ {w} : worker'[v] = worker[v]
  <2>1. worker' = [worker EXCEPT ![w] = [worker[w] EXCEPT !.pc = "handling"]]
    BY <1>1, <1>2
  <2>2. /\ [worker[w] EXCEPT !.pc = "handling"].pc = "handling"
        /\ [worker[w] EXCEPT !.pc = "handling"].job = worker[w].job
    BY <1>2, SetPc DEF Steps
  <2> QED
    BY <1>2, <2>1, <2>2
<1>4. /\ ProcessOf[w] \in Processes /\ "none" \notin Workers
      /\ slot'[ProcessOf[w]] = w
      /\ \A p \in Processes \ {ProcessOf[w]} : slot'[p] = slot[p]
  BY <1>1, <1>2, WorkerAssumption
<1>5. ASSUME NEW v \in Workers, NEW p \in Processes
      PROVE  slot'[p] = v <=>
               /\ ProcessOf[v] = p /\ worker'[v].pc = "handling"
               /\ jobs'[worker'[v].job].type \in InventoryTypes
  BY <1>1, <1>3, <1>4 DEF SlotInv, SlotHeldByHandler
<1> QED
  BY <1>1, <1>3, <1>5 DEF SlotInv, SlotHeldByHandler

LEMMA PollKeepsSlot ==
    ASSUME IInv, IInv', WBase, SlotInv, NEW w \in Workers, Poll(w)
    PROVE  SlotInv'
<1>1. PICK j \in JobIds :
        /\ worker' = [worker EXCEPT ![w] = Claimed(w, j)]
        /\ \A i \in JobIds : Evolved(jobs[i], jobs'[i])
        /\ Exists(jobs[j])
  BY PollEffect
<1>2. /\ worker'[w] = Claimed(w, j) /\ slot' = slot /\ worker[w].pc = "polling"
      /\ \A v \in Workers \ {w} : worker'[v] = worker[v]
  BY <1>1 DEF WBase, WorkerTypeOK, Poll
<1>3. /\ worker'[w].job = j /\ jobs'[j].type = jobs[j].type
      /\ worker'[w].pc = IF jobs[j].type \in InventoryTypes THEN "waiting" ELSE "handling"
  BY <1>1, <1>2 DEF Claimed, Evolved, Exists
<1>4. ASSUME NEW v \in Workers \ {w}, worker[v].pc \notin {"idle", "polling"}
      PROVE  jobs'[worker'[v].job].type = jobs[worker[v].job].type
  BY <1>1, <1>2, <1>4, TypesKept
<1>5. ASSUME NEW v \in Workers, NEW p \in Processes
      PROVE  slot'[p] = v <=>
               /\ ProcessOf[v] = p /\ worker'[v].pc = "handling"
               /\ jobs'[worker'[v].job].type \in InventoryTypes
  BY <1>2, <1>3, <1>4 DEF SlotInv, SlotHeldByHandler
<1>6. ASSUME NEW v \in Workers, worker'[v].pc = "waiting"
      PROVE  jobs'[worker'[v].job].type \in InventoryTypes
  BY <1>2, <1>3, <1>4, <1>6 DEF SlotInv
<1> QED
  BY <1>5, <1>6 DEF SlotInv, SlotHeldByHandler

\* Whoever ends a handler gives the slot back, and nobody else touches it.
LEMMA StepStays ==
    ASSUME WBase, SlotInv, NEW w \in Workers, WorkerStep(w), ~Poll(w),
           ~(EnterSlot(w) /\ ~worker[w].lost), NEW v \in Workers
    PROVE  Stays(v) \/ Gone(v)
<1>1. /\ worker \in [Workers -> WorkerRow] /\ slot \in [Processes -> Workers \cup {"none"}]
      /\ worker[w] \in WorkerRow /\ "none" \notin Workers
  BY WorkerAssumption DEF WBase, WorkerTypeOK, WorkerRow
<1>2. CASE Leave(w)
  BY <1>1, <1>2 DEF Leave, Stays, Gone, Free
<1>3. ASSUME NEW pc \in {"finishing", "retrying"}, Proceed(w, pc)
      PROVE  Stays(v) \/ Gone(v)
  <2>1. PICK late \in {FALSE, worker[w].beat} :
          worker' = [worker EXCEPT ![w].pc = pc, ![w].beat = late]
    BY <1>3 DEF Proceed
  <2>2. worker'[w].pc = pc /\ \A u \in Workers \ {w} : worker'[u] = worker[u]
    BY <1>1, <2>1 DEF WorkerRow
  <2>3. slot' = [p \in Processes |-> IF slot[p] = w THEN "none" ELSE slot[p]]
    BY <1>3 DEF Proceed
  <2> QED
    BY <1>1, <2>2, <2>3 DEF Stays, Gone
<1>4. CASE Look(w)
  <2>1. /\ worker[w].pc = "idle" /\ slot' = slot
        /\ worker' = [worker EXCEPT ![w] = [worker[w] EXCEPT !.pc = "polling"]]
    BY <1>1, <1>4 DEF Look
  <2>2. /\ worker'[w].pc = "polling"
        /\ \A u \in Workers \ {w} : worker'[u] = worker[u]
    BY <1>1, <2>1, SetPc DEF Steps
  <2>3. \A p \in Processes : slot[p] # w
    BY <2>1 DEF SlotInv, SlotHeldByHandler
  <2> QED
    BY <2>1, <2>2, <2>3 DEF Stays, Gone
<1>5. CASE Heartbeat(w) \/ HeartbeatStops(w)
  <2>1. slot' = slot
    BY <1>5 DEF Heartbeat, HeartbeatStops
  <2> DEFINE m(b) == [worker[w] EXCEPT !.beat = b]
             y == [m(FALSE) EXCEPT !.lost = TRUE]
  <2>2. PICK q : /\ worker' = [worker EXCEPT ![w] = q]
                 /\ q.pc = worker[w].pc /\ q.job = worker[w].job
    <3>1. Busy(w) \in BOOLEAN
      BY DEF Busy
    <3>2. /\ m(Busy(w)).pc = worker[w].pc /\ m(Busy(w)).job = worker[w].job
          /\ m(FALSE) \in WorkerRow
          /\ m(FALSE).pc = worker[w].pc /\ m(FALSE).job = worker[w].job
      BY <1>1, <3>1, SetBeat
    <3>3. \/ worker' = [worker EXCEPT ![w] = m(Busy(w))]
          \/ worker' = [worker EXCEPT ![w] = y]
      BY <1>1, <1>5 DEF Heartbeat, HeartbeatStops
    <3> HIDE DEF m
    <3>4. y.pc = worker[w].pc /\ y.job = worker[w].job
      BY <3>2, SetLost
    <3> HIDE DEF y
    <3> QED
      BY <3>2, <3>3, <3>4
  <2>3. /\ worker'[w].pc = worker[w].pc /\ worker'[w].job = worker[w].job
        /\ \A u \in Workers \ {w} : worker'[u] = worker[u]
    BY <1>1, <2>2
  <2> QED
    BY <2>1, <2>3 DEF Stays
<1> QED
  BY <1>2, <1>3, <1>4, <1>5
  DEF WorkerStep, EnterSlot, PollNothing, HandlerReturns, HandlerRaises, FinishJob,
      FinishRaises, RetryJob, RetryRaises

LEMMA ElsewhereStays ==
    ASSUME WBase, SlotInv, Elsewhere \/ TickWorkers, NEW w \in Workers
    PROVE  Stays(w) \/ Gone(w)
<1>1. CASE UNCHANGED workerVars
  BY <1>1 DEF Stays, workerVars
<1>2. ASSUME NEW p \in Processes, Restart(p)
      PROVE  Stays(w) \/ Gone(w)
  <2>1. /\ worker'[w] = IF ProcessOf[w] = p THEN Free ELSE worker[w]
        /\ slot' = [slot EXCEPT ![p] = "none"]
        /\ slot \in [Processes -> Workers \cup {"none"}] /\ "none" \notin Workers
    BY <1>2, WorkerAssumption DEF Restart, WBase, WorkerTypeOK
  <2>2. \A q \in Processes : slot[q] = w => ProcessOf[w] = q
    BY DEF SlotInv, SlotHeldByHandler
  <2> QED
    BY <2>1, <2>2 DEF Stays, Gone, Free
<1>3. CASE LateRenewal \/ IdleChanges
  BY <1>3 DEF LateRenewal, IdleChanges, Stays
<1> QED
  BY <1>1, <1>2, <1>3 DEF Elsewhere, TickWorkers, workerVars, allVars

-----------------------------------------------------------------------------
(* The inductive invariant. *)

WorkerIInv == IInv /\ WBase /\ PunctualInv /\ SlotInv

LEMMA WorkerInitially == WorkerInit => WorkerIInv
<1> SUFFICES ASSUME WorkerInit PROVE WorkerIInv
  OBVIOUS
<1>1. IInv
  BY Initially DEF WorkerInit
<1>2. /\ \A w \in Workers : worker[w] = Free
      /\ \A p \in Processes : slot[p] = "none"
      /\ worker \in [Workers -> WorkerRow]
      /\ slot \in [Processes -> Workers \cup {"none"}]
      /\ renewals = {} /\ idle \in {FALSE, IdlePolicy}
  BY FreeRow DEF WorkerInit
<1>3. Free.pc = "idle" /\ ~Free.beat
  BY DEF Free
<1>4. WBase
  BY <1>2, <1>3 DEF WBase, WorkerTypeOK, WorkerRow, Bound, Apart
<1>5. PunctualInv
  BY <1>2, <1>3 DEF PunctualInv, Held, Exclusive, Active
<1>6. SlotInv
  BY <1>2, <1>3, WorkerAssumption DEF SlotInv, SlotHeldByHandler
<1> QED
  BY <1>1, <1>4, <1>5, <1>6 DEF WorkerIInv

LEMMA WorkerInductive ==
    ASSUME WorkerIInv, [WorkerNext]_allVars
    PROVE  WorkerIInv'
<1>1. IInv /\ WBase /\ PunctualInv /\ SlotInv
  BY DEF WorkerIInv
<1>2. IInv'
  BY <1>1, StepUsesTable, Inductive
<1>3. slot' \in [Processes -> Workers \cup {"none"}]
  BY <1>1, SlotTyped
<1>4. jobs \in [JobIds -> JobRow] /\ jobs' \in [JobIds -> JobRow]
  BY <1>1, <1>2 DEF IInv, RowsOK
<1>5. ASSUME NEW w \in Workers, Poll(w)
      PROVE  WorkerIInv'
  <2>1. booted => booted'
    BY <1>5 DEF Poll
  <2>2. RestTyped'
    BY <1>1, <2>1, RestKept
  <2> QED
    BY <1>1, <1>2, <1>3, <1>5, <2>2, PollKeepsBase, PollKeepsPunctual, PollKeepsSlot
    DEF WorkerIInv
<1>6. ASSUME NEW w \in Workers, WorkerStep(w), ~Poll(w)
      PROVE  WorkerIInv'
  <2>1. Alone(w) /\ Touches(w) /\ booted' = booted
    BY <1>1, <1>6, StepEffect
  <2>2. \A j \in JobIds : Evolved(jobs[j], jobs'[j])
    BY <1>4, <2>1, SteadySelf DEF Touches, SteadyTable, Steady
  <2>3. worker' \in [Workers -> WorkerRow] /\ \A v \in Workers : Goes(worker[v], worker'[v])
    BY <2>1 DEF Alone, Goes
  <2>4. WBase'
    BY <1>1, <1>3, <1>4, <2>1, <2>2, <2>3, GoesKeepsBase, RestKept
  <2>5. PunctualInv'
    BY <1>1, <2>1, <2>2, <2>3, StepSpares, GoesKeepsPunctual
  <2>6. SlotInv'
    <3>1. CASE EnterSlot(w) /\ ~worker[w].lost
      BY <1>1, <3>1, EnterSlotStep
    <3>2. CASE ~(EnterSlot(w) /\ ~worker[w].lost)
      BY <1>1, <1>6, <2>2, <3>2, StepStays, SlotKept
    <3> QED
      BY <3>1, <3>2
  <2> QED
    BY <1>2, <2>4, <2>5, <2>6 DEF WorkerIInv
<1>7. CASE Elsewhere
  <2>1. /\ SteadyTable(jobs, jobs') /\ (booted => booted')
        /\ worker' \in [Workers -> WorkerRow]
        /\ \A w \in Workers : Goes(worker[w], worker'[w])
    BY <1>1, <1>7, ElsewhereEffect
  <2>2. \A j \in JobIds : Evolved(jobs[j], jobs'[j]) /\ Unharmed(jobs[j], jobs'[j])
    BY <2>1 DEF SteadyTable, Steady
  <2>3. WBase'
    BY <1>1, <1>3, <1>4, <2>1, <2>2, GoesKeepsBase, RestKept
  <2>4. ASSUME NEW v \in Workers, Active(worker'[v])
        PROVE  Unharmed(jobs[worker[v].job], jobs'[worker[v].job])
    <3>1. Active(worker[v])
      BY <2>1, <2>4 DEF Goes, Active, Free
    <3>2. worker[v].job \in JobIds
      BY <1>1, <3>1 DEF WBase, Bound, Active
    <3> QED
      BY <2>2, <3>2
  <2>5. PunctualInv'
    BY <1>1, <2>1, <2>2, <2>4, GoesKeepsPunctual
  <2>6. SlotInv'
    BY <1>1, <1>7, <2>2, ElsewhereStays, SlotKept
  <2> QED
    BY <1>2, <2>3, <2>5, <2>6 DEF WorkerIInv
<1>8. CASE TickWorkers
  <2>1. worker' = worker /\ booted' = booted /\ Tick
    BY <1>8 DEF TickWorkers, Tick, workerVars
  <2>2. \A j \in JobIds : Evolved(jobs[j], jobs'[j])
    BY <1>1, <2>1, TickEvolves
  <2>3. /\ worker' \in [Workers -> WorkerRow]
        /\ \A w \in Workers : Goes(worker[w], worker'[w])
    BY <1>1, <2>1 DEF WBase, WorkerTypeOK, WorkerRow, Goes
  <2>4. WBase'
    BY <1>1, <1>3, <1>4, <2>1, <2>2, <2>3, GoesKeepsBase, RestKept
  <2>5. PunctualInv'
    BY <1>1, <1>8, <2>2, <2>3, TickKeepsHeld, GoesKeepsPunctual
  <2>6. SlotInv'
    BY <1>1, <1>8, <2>2, ElsewhereStays, SlotKept
  <2> QED
    BY <1>2, <2>4, <2>5, <2>6 DEF WorkerIInv
<1> QED
  BY <1>5, <1>6, <1>7, <1>8, Split

\* A row becomes succeeded only by a worker that owns its lease.
LEMMA OwnerFinishes ==
    ASSUME WorkerIInv, [WorkerNext]_allVars, NEW j \in JobIds,
           jobs[j].status # "succeeded", jobs'[j].status = "succeeded"
    PROVE  \E w \in Workers :
             /\ worker[w].pc = "finishing" /\ worker[w].job = j
             /\ worker[w].token = jobs[j].claims
<1>1. IInv /\ WBase /\ IInv'
  BY StepUsesTable, Inductive DEF WorkerIInv
<1>2. ~Elsewhere
  BY <1>1, ElsewhereEffect DEF SteadyTable, Steady
<1>3. ~TickWorkers
  BY <1>1, TickEvolves DEF TickWorkers
<1>4. \A w \in Workers : ~Poll(w)
  <2> SUFFICES ASSUME NEW w \in Workers, Poll(w) PROVE FALSE
    OBVIOUS
  <2>1. PICK i \in JobIds : /\ \A k \in JobIds \ {i} : Steady(jobs[k], jobs'[k])
                            /\ Running(jobs'[i])
    BY <1>1, PollEffect
  <2> QED
    BY <2>1 DEF Steady, Running
<1>5. PICK w \in Workers : WorkerStep(w) /\ ~Poll(w)
  BY <1>2, <1>3, <1>4, Split
<1>6. Touches(w)
  BY <1>1, <1>5, StepEffect
<1>7. /\ worker[w].pc = "finishing" /\ OwnsLease(w)
      /\ \A k \in JobIds \ {worker[w].job} : jobs'[k] = jobs[k]
  BY <1>6 DEF Touches, SteadyTable, Steady
<1>8. worker[w].job = j
  BY <1>7
<1>9. jobs[j].token = jobs[j].claims
  BY <1>1, <1>7, <1>8 DEF OwnsLease, Owns, IInv, RowsOK, RowOK
<1> QED
  BY <1>7, <1>8, <1>9 DEF OwnsLease, Owns

-----------------------------------------------------------------------------
(* Theorems. *)

\* The workers keep the invariant of the table and their own.
THEOREM WorkerInvariance == WorkerSpec => []WorkerIInv
  BY WorkerInitially, WorkerInductive, PTL DEF WorkerSpec

\* Workers and slots stay well formed through every step of run_once.
THEOREM WorkerTypeCorrect == WorkerSpec => []WorkerTypeOK
<1>1. WorkerIInv => WorkerTypeOK
  BY DEF WorkerIInv, WBase
<1> QED
  BY <1>1, WorkerInvariance, PTL

\* Workers use the job table only through its transactions, so that every
\* theorem about the table holds while they run.
THEOREM WorkersUseJobTable == WorkerSpec => UsesJobTable
<1>1. WorkerInit => Init
  BY DEF WorkerInit
<1>2. WorkerIInv /\ [WorkerNext]_allVars => [Next]_vars
  BY StepUsesTable DEF WorkerIInv
<1> QED
  BY <1>1, <1>2, WorkerInvariance, PTL DEF WorkerSpec, UsesJobTable, Spec

\* With punctual heartbeats, the handlers of one account and job type that
\* have not noticed a lost lease are never two.
THEOREM HandlersSerialised ==
    ASSUME PunctualHeartbeats
    PROVE  WorkerSpec => []HandlersExclusive
<1>1. WorkerIInv => HandlersExclusive
  BY DEF WorkerIInv, PunctualInv, HandlersExclusive, Exclusive, Active
<1> QED
  BY <1>1, WorkerInvariance, PTL

\* The inventory slot of a process is held exactly while a handler that needs
\* it runs there.
THEOREM SlotExact == WorkerSpec => []SlotHeldByHandler
<1>1. WorkerIInv => SlotHeldByHandler
  BY DEF WorkerIInv, SlotInv
<1> QED
  BY <1>1, WorkerInvariance, PTL

\* A worker whose lease was taken over cannot complete the job.
THEOREM OnlyLatestLeaseFinishes == WorkerSpec => LatestLeaseFinishes
<1>1. WorkerIInv /\ [WorkerNext]_allVars =>
        [\A j \in JobIds :
            jobs[j].status # "succeeded" /\ jobs'[j].status = "succeeded" =>
              \E w \in Workers :
                /\ worker[w].pc = "finishing" /\ worker[w].job = j
                /\ worker[w].token = jobs[j].claims]_allVars
  BY OwnerFinishes
<1> QED
  BY <1>1, WorkerInvariance, PTL DEF WorkerSpec, LatestLeaseFinishes

=============================================================================
