----------------------------- MODULE HomeWorker -----------------------------
(***************************************************************************)
(* HomeFeedWorker on top of the job table: lane threads that claim a job,  *)
(* run its handler while a heartbeat thread renews the lease, and then     *)
(* complete, fail or retry it.  A worker is one lane thread of one process *)
(* (_home_feed_lane_loop).  What a handler does to the feed is not here:   *)
(* it runs, takes time, and ends in one of the ways run_once tells apart.  *)
(***************************************************************************)
EXTENDS HomeJobs

CONSTANTS
    Workers,     \* lane threads
    Processes,   \* worker processes
    LaneOf,      \* [Workers -> Lanes]
    ProcessOf,   \* [Workers -> Processes]
    IdlePolicy,  \* NEATIE_BACKGROUND_IDLE: optional lanes rest while nobody listens
    Punctual,    \* heartbeats renew in time (a timing assumption)
    RenewEvery   \* HOME_JOB_LEASE_RENEW_SECONDS, in ticks

ASSUME WorkerAssumption ==
    /\ LaneOf \in [Workers -> Lanes]
    /\ ProcessOf \in [Workers -> Processes]
    /\ IdlePolicy \in BOOLEAN /\ Punctual \in BOOLEAN
    /\ RenewEvery \in Nat
    /\ "none" \notin Workers

VARIABLES
    worker,   \* run_once of each lane thread
    slot,     \* who holds _inventory_work_slot of each process
    renewals, \* renewals under way of runs that are over: <<worker, job, token>>
    idle      \* is_idle: nobody has asked for anything for a while

workerVars == <<worker, slot, renewals, idle>>
allVars == <<vars, workerVars>>

Free == [pc |-> "idle", job |-> 0, token |-> 0, beat |-> FALSE, lost |-> FALSE]

\* The handlers that expand a whole inventory run one at a time in a process.
InventoryTypes == {"supply", "candidates", "radio"}

\* Mutant: the inventory slot is not released.
LeaveHolding(w) ==
    /\ worker' = [worker EXCEPT ![w] = Free]
    /\ UNCHANGED slot

\* run_once is over for w; a slot it held is released.
Leave(w) ==
    /\ worker' = [worker EXCEPT ![w] = Free]
    /\ slot' = [p \in Processes |-> IF slot[p] = w THEN "none" ELSE slot[p]]

\* The handler is over: the slot is released and the heartbeat is told to
\* stop, but joined for two seconds only, so a renewal may be under way still.
Proceed(w, pc) ==
    /\ \E late \in {FALSE, worker[w].beat} :
         worker' = [worker EXCEPT ![w].pc = pc, ![w].beat = late]
    /\ slot' = [p \in Processes |-> IF slot[p] = w THEN "none" ELSE slot[p]]

OwnsLease(w) == Owns(worker[w].job, worker[w].token)

-----------------------------------------------------------------------------
\* The lanes whose loop does not poll while is_idle holds.
Optional(w) == LaneOf[w] \cap {"candidates", "radio", "artwork"} # {}

\* The loop lets the lane poll, and the read that claim_next begins with sees
\* due work or an expired lease in it.
Look(w) ==
    /\ booted /\ worker[w].pc = "idle"
    /\ Optional(w) => ~idle
    /\ \E a \in Ages, j \in JobIds :
         jobs[j].type \in LaneOf[w] /\ (Due(jobs[j], a) \/ Expired(jobs[j], a))
    /\ worker' = [worker EXCEPT ![w].pc = "polling"]
    /\ UNCHANGED <<vars, slot, renewals, idle>>

\* claim_next's transaction, then the heartbeat starts.
Poll(w) ==
    /\ booted /\ worker[w].pc = "polling"
    /\ \E a \in Ages, j \in JobIds :
         /\ Claim(j, LaneOf[w], a)
         /\ worker' = [worker EXCEPT ![w] =
              [pc |-> IF jobs[j].type \in InventoryTypes THEN "waiting"
                      ELSE "handling",
               job |-> j, token |-> jobs'[j].token, beat |-> TRUE,
               lost |-> FALSE]]
    /\ UNCHANGED <<call, booted, slot, renewals, idle>>

PollNothing(w) ==
    /\ booted /\ worker[w].pc = "polling"
    /\ \E a \in Ages : ClaimNothing(LaneOf[w], a)
    /\ Leave(w)
    /\ UNCHANGED <<call, booted, renewals, idle>>

\* with _inventory_work_slot: a lease lost while waiting is noticed here.
EnterSlot(w) ==
    /\ worker[w].pc = "waiting"
    /\ slot[ProcessOf[w]] = "none"
    /\ IF worker[w].lost
       THEN Leave(w)
       ELSE /\ worker' = [worker EXCEPT ![w].pc = "handling"]
            /\ slot' = [slot EXCEPT ![ProcessOf[w]] = w]
    /\ UNCHANGED <<vars, renewals, idle>>

Busy(w) == worker[w].pc \in {"waiting", "handling"}

\* The heartbeat renews, for the last time when the handler is over ...
Heartbeat(w) ==
    /\ worker[w].beat
    /\ \E a \in Ages : Renew(worker[w].job, worker[w].token, a)
    /\ worker' = [worker EXCEPT ![w].beat = Busy(w)]
    /\ UNCHANGED <<call, booted, slot, renewals, idle>>

\* ... or raises, because the lease is gone or for any other reason, such as
\* a locked database: it stops for good, and the handler runs on.
HeartbeatStops(w) ==
    /\ worker[w].beat
    /\ worker' = [worker EXCEPT ![w].beat = FALSE, ![w].lost = TRUE]
    /\ UNCHANGED <<vars, slot, renewals, idle>>

\* The handler returns; a lost lease turns that into LeaseLost.
HandlerReturns(w) ==
    /\ worker[w].pc = "handling"
    /\ IF worker[w].lost THEN Leave(w) ELSE Proceed(w, "finishing")
    /\ UNCHANGED <<vars, renewals, idle>>

\* The handler raises RetryableHomeJob or anything else.
HandlerRaises(w) ==
    /\ worker[w].pc = "handling"
    /\ Proceed(w, "retrying")
    /\ UNCHANGED <<vars, renewals, idle>>

\* Mutant: complete does not ask for the lease.
FinishUnowned(w) ==
    /\ worker[w].pc = "finishing"
    /\ jobs' = [jobs EXCEPT ![worker[w].job] = Closed(@, "succeeded")]
    /\ Leave(w)
    /\ UNCHANGED <<call, booted, renewals, idle>>

\* complete, or fail for a composition that was blocked.
FinishJob(w) ==
    /\ worker[w].pc = "finishing"
    /\ IF OwnsLease(w)
       THEN \E st \in {"succeeded", "failed"} :
              /\ st = "failed" => jobs[worker[w].job].type = "compose"
              /\ Finish(worker[w].job, worker[w].token, st)
       ELSE UNCHANGED jobs
    /\ Leave(w)
    /\ UNCHANGED <<call, booted, renewals, idle>>

\* complete raises something other than LeaseLost: done work is retried.
FinishRaises(w) ==
    /\ worker[w].pc = "finishing"
    /\ Proceed(w, "retrying")
    /\ UNCHANGED <<vars, renewals, idle>>

RetryJob(w) ==
    /\ worker[w].pc = "retrying"
    /\ IF OwnsLease(w)
       THEN \E a \in Ages : RetryAs(worker[w].job, worker[w].token, a)
       ELSE UNCHANGED jobs
    /\ Leave(w)
    /\ UNCHANGED <<call, booted, renewals, idle>>

\* retry raises too: the row stays leased until the lease runs out, which a
\* renewal still under way may put off once more.
RetryRaises(w) ==
    /\ worker[w].pc = "retrying"
    /\ renewals' = IF worker[w].beat
               THEN renewals \cup {<<w, worker[w].job, worker[w].token>>} ELSE renewals
    /\ Leave(w)
    /\ UNCHANGED <<vars, idle>>

LateRenewal ==
    /\ \E r \in renewals :
         /\ renewals' = renewals \ {r}
         /\ \/ \E a \in Ages : Renew(r[2], r[3], a)
            \/ UNCHANGED jobs
    /\ UNCHANGED <<call, booted, worker, slot, idle>>

\* A process dies and comes back with idle lanes.
Restart(p) ==
    /\ worker' = [w \in Workers |->
         IF ProcessOf[w] = p THEN Free ELSE worker[w]]
    /\ slot' = [slot EXCEPT ![p] = "none"]
    /\ renewals' = {r \in renewals : ProcessOf[r[1]] # p}
    /\ ReconcileQueue
    /\ UNCHANGED idle

\* A punctual heartbeat has renewed within RenewEvery ticks.
Overdue(w) ==
    /\ worker[w].beat /\ Busy(w) /\ OwnsLease(w)
    /\ jobs[worker[w].job].left <= Lease - RenewEvery

TickWorkers ==
    /\ Punctual => \A w \in Workers : ~Overdue(w)
    /\ Tick
    /\ UNCHANGED workerVars

\* Demand is noted, or none has been for the grace period.
IdleChanges ==
    /\ IdlePolicy
    /\ idle' = ~idle
    /\ UNCHANGED <<vars, worker, slot, renewals>>

-----------------------------------------------------------------------------
WorkerInit ==
    /\ Init
    /\ worker = [w \in Workers |-> Free]
    /\ slot = [p \in Processes |-> "none"]
    /\ renewals = {}
    /\ idle \in {FALSE, IdlePolicy}

WorkerStep(w) ==
    \/ Look(w) \/ Poll(w) \/ PollNothing(w) \/ EnterSlot(w)
    \/ Heartbeat(w) \/ HeartbeatStops(w)
    \/ HandlerReturns(w) \/ HandlerRaises(w)
    \/ FinishJob(w) \/ FinishRaises(w)
    \/ RetryJob(w) \/ RetryRaises(w)

WorkerNext ==
    \/ \E w \in Workers : WorkerStep(w)
    \/ \E p \in Processes : Restart(p)
    \/ LateRenewal
    \/ IdleChanges
    \/ ReconcileQueue /\ UNCHANGED workerVars
    \/ Admission /\ UNCHANGED workerVars
    \/ \E s \in Scopes : DeleteScope(s) /\ UNCHANGED workerVars
    \/ TickWorkers

WorkerSpec == WorkerInit /\ [][WorkerNext]_allVars

\* Lane threads keep looking: a lane that rests looks every five seconds, and
\* demand keeps it awake for at least a minute, so it looks in every such
\* period.  Not every claim_next is cut short by a restart.  Waiters get the
\* slot, handlers end, the transactions after a handler are tried; time passes.
\* Nothing is promised of heartbeats, failures, restarts and demand.
WorkerFairness ==
    /\ WF_allVars(TickWorkers)
    /\ WF_allVars(~booted /\ ReconcileQueue /\ UNCHANGED workerVars)
    /\ \A w \in Workers :
         /\ SF_allVars(Look(w))
         /\ SF_allVars(Poll(w) \/ PollNothing(w))
         /\ WF_allVars(EnterSlot(w))
         /\ WF_allVars(HandlerReturns(w) \/ HandlerRaises(w))
         /\ WF_allVars(FinishJob(w) \/ FinishRaises(w))
         /\ WF_allVars(RetryJob(w) \/ RetryRaises(w))

FairWorkerSpec == WorkerSpec /\ WorkerFairness

-----------------------------------------------------------------------------
(* Properties. *)

WorkerTypeOK ==
    /\ worker \in [Workers ->
         [pc : {"idle", "polling", "waiting", "handling", "finishing", "retrying"},
          job : JobIds \cup {0}, token : Nat, beat : BOOLEAN,
          lost : BOOLEAN]]
    /\ slot \in [Processes -> Workers \cup {"none"}]
    /\ renewals \subseteq Workers \X JobIds \X Nat
    /\ idle \in {FALSE, IdlePolicy}

\* With punctual heartbeats, two handlers that have not noticed a lost lease
\* never work for the same account and job type, whatever retries, expiries
\* and restarts happened: the effects of a job are serialised.
HandlersExclusive ==
    \A v, w \in Workers :
        LET i == worker[v].job  j == worker[w].job IN
        /\ worker[v].pc = "handling" /\ ~worker[v].lost /\ Exists(jobs[i])
        /\ worker[w].pc = "handling" /\ ~worker[w].lost /\ Exists(jobs[j])
        /\ jobs[i].scope = jobs[j].scope /\ jobs[i].type = jobs[j].type
        => v = w

\* The inventory slot is held exactly while an inventory handler runs: no
\* lost lease, failure or restart leaks it, and no handler runs without it.
SlotHeldByHandler ==
    \A p \in Processes, w \in Workers :
        slot[p] = w <=> /\ ProcessOf[w] = p /\ worker[w].pc = "handling"
                        /\ jobs[worker[w].job].type \in InventoryTypes

\* A job succeeds only by the worker of its latest lease, after that worker's
\* own handler returned: a worker whose lease was taken over cannot.
LatestLeaseFinishes ==
    [][\A j \in JobIds :
          jobs[j].status # "succeeded" /\ jobs'[j].status = "succeeded" =>
            \E w \in Workers :
              /\ worker[w].pc = "finishing" /\ worker[w].job = j
              /\ worker[w].token = jobs[j].claims]_allVars

\* Workers use the job table only through its transactions.
UsesJobTable == Spec

\* As long as there is demand again and again, every job that is waiting or
\* leased is eventually settled, even if heartbeats stop, processes restart and
\* transactions fail over and over: expired leases are recovered and each
\* recovery costs an attempt.
JobsSettle ==
    []<>~idle =>
      \A j \in JobIds : Actionable(jobs[j]) ~> ~Actionable(jobs[j])

=============================================================================
