------------------------------ MODULE JobQueue ------------------------------
(***************************************************************************)
(* miniaudio's job queue: a linked list of slots under a spinlock, a slot  *)
(* allocator whose bits and count change without the lock, and a semaphore *)
(* that counts the jobs.  The caller of the API, the audio thread and the  *)
(* job threads post; the job threads take.  A compare-and-swap that fails  *)
(* is tried again and is no step.  The reference counts in the slot        *)
(* numbers only serve the lock-free build and are left out.                *)
(***************************************************************************)
EXTENDS Integers, Sequences, FiniteSets, FiniteSetsExt

CONSTANTS
    Posters,     \* threads that post jobs of their own
    Workers,     \* job threads
    Owner,       \* the thread that ends the resource manager
    Capacity,    \* slots, the dummy of the list included
    GroupSize,   \* bits of one bitfield
    NoSlot,
    Nobody,
    NoJob,
    Quit         \* the job that ends job threads

Slots == 0 .. Capacity - 1
Groups == 0 .. (Capacity \div GroupSize) - 1
Threads == Posters \union Workers \union {Owner}
Jobs == Posters \union {Quit}

ASSUME WholeGroups == GroupSize \in Nat \ {0} /\ Capacity \in Nat \ {0} /\ Capacity % GroupSize = 0
ASSUME DistinctThreads == Posters \cap Workers = {} /\ Owner \notin Posters \union Workers /\ Nobody \notin Threads
ASSUME FiniteThreads == IsFiniteSet(Posters) /\ IsFiniteSet(Workers)
ASSUME NoSlotIsNone == NoSlot \notin Slots
ASSUME JobsDistinct == NoJob \notin Jobs /\ Quit \notin Posters

VARIABLES
    taken,      \* the bits set in the bitfields of the allocator
    count,      \* its count
    next,       \* next of each slot
    jobAt,      \* the job stored in each slot
    head, tail, \* of the list; the slot at the head is a dummy
    lock,       \* who holds the spinlock, or Nobody
    sem,        \* the value of the semaphore
    closed,     \* the resource manager is being ended
    pc,         \* where each thread is
    job,        \* the job it posts or has taken
    slot,       \* the slot it allocated or must free
    group,      \* the group of bits it looks at
    attempt     \* its attempts to find a slot

allocVars == <<taken, count>>
listVars == <<next, jobAt, head, tail>>
syncVars == <<lock, sem>>
localVars == <<job, slot, group, attempt>>
vars == <<allocVars, listVars, syncVars, closed, pc, localVars>>

PostSteps == {"scan", "full", "count", "link", "swing", "signal"}
NextSteps == {"wait", "copy", "advance", "free", "uncount", "process"}

TypeOK ==
    /\ taken \subseteq Slots /\ count \in Nat
    /\ next \in [Slots -> Slots \union {NoSlot}] /\ jobAt \in [Slots -> Jobs \union {NoJob}]
    /\ head \in Slots /\ tail \in Slots
    /\ lock \in Threads \union {Nobody} /\ sem \in Nat /\ closed \in BOOLEAN
    /\ pc \in [Threads -> PostSteps \union NextSteps \union {"idle", "gone"}]
    /\ job \in [Threads -> Jobs \union {NoJob}] /\ slot \in [Threads -> Slots \union {NoSlot}]
    /\ group \in [Threads -> Groups] /\ attempt \in [Threads -> 1 .. 2]

\* The queue begins with slot 0 as its dummy.
Init ==
    /\ taken = {0} /\ count = 1
    /\ next = [s \in Slots |-> NoSlot] /\ jobAt = [s \in Slots |-> NoJob]
    /\ head = 0 /\ tail = 0
    /\ lock = Nobody /\ sem = 0 /\ closed = FALSE
    /\ pc = [t \in Threads |-> IF t \in Workers THEN "wait" ELSE "idle"]
    /\ job = [t \in Threads |-> NoJob] /\ slot = [t \in Threads |-> NoSlot]
    /\ group = [t \in Threads |-> 0] /\ attempt = [t \in Threads |-> 1]

Goto(t, where) == pc' = [pc EXCEPT ![t] = where]

-----------------------------------------------------------------------------
(***************************************************************************)
(* ma_slot_allocator_alloc: the first free bit of the first group that has *)
(* one; the count follows in a step of its own.  A look at a full group    *)
(* goes on to the next one; after the last group the count decides whether *)
(* there is a second attempt.                                              *)
(***************************************************************************)
FreeIn(g) == {s \in Slots \ taken : s \div GroupSize = g}

Rewind(t) ==
    /\ group' = [group EXCEPT ![t] = 0]
    /\ attempt' = [attempt EXCEPT ![t] = 1]

StartPost(t, j) ==
    /\ job' = [job EXCEPT ![t] = j]
    /\ Goto(t, "scan")
    /\ UNCHANGED <<allocVars, listVars, syncVars, slot, group, attempt>>

\* Mutant: a job thread overlooks the quit job.
ReturnAlways(t) ==
    /\ Goto(t, IF t \notin Workers THEN "idle" ELSE "wait")
    /\ job' = [job EXCEPT ![t] = NoJob]
    /\ slot' = [slot EXCEPT ![t] = NoSlot]
    /\ Rewind(t)

\* A post or a take returns: posters are free again, a worker goes on unless
\* it has met the quit job.
Return(t) ==
    /\ Goto(t, IF t \notin Workers THEN "idle" ELSE IF job[t] = Quit THEN "gone" ELSE "wait")
    /\ job' = [job EXCEPT ![t] = NoJob]
    /\ slot' = [slot EXCEPT ![t] = NoSlot]
    /\ Rewind(t)

ClaimSlot(t) ==
    /\ pc[t] = "scan"
    /\ FreeIn(group[t]) # {}
    /\ slot' = [slot EXCEPT ![t] = Min(FreeIn(group[t]))]
    /\ taken' = taken \union {slot'[t]}
    /\ Goto(t, "count")
    /\ Rewind(t)
    /\ UNCHANGED <<count, listVars, syncVars, closed, job>>

SkipGroup(t) ==
    /\ pc[t] = "scan"
    /\ FreeIn(group[t]) = {}
    /\ IF group[t] + 1 \in Groups
       THEN group' = [group EXCEPT ![t] = @ + 1] /\ UNCHANGED pc
       ELSE Goto(t, "full") /\ UNCHANGED group
    /\ UNCHANGED <<allocVars, listVars, syncVars, closed, job, slot, attempt>>

\* Try once more, or give up: the job is not posted.
DecideFull(t) ==
    /\ pc[t] = "full"
    /\ IF count < Capacity /\ attempt[t] = 1
       THEN /\ attempt' = [attempt EXCEPT ![t] = 2]
            /\ group' = [group EXCEPT ![t] = 0]
            /\ Goto(t, "scan")
            /\ UNCHANGED <<job, slot>>
       ELSE Return(t)
    /\ UNCHANGED <<allocVars, listVars, syncVars, closed>>

-----------------------------------------------------------------------------
(***************************************************************************)
(* ma_job_queue_post, once it has a slot.  The job is written into the     *)
(* slot before the lock is taken; nobody else looks at the slot yet.       *)
(***************************************************************************)
CountAndWrite(t) ==
    /\ pc[t] = "count"
    /\ count' = count + 1
    /\ jobAt' = [jobAt EXCEPT ![slot[t]] = job[t]]
    /\ next' = [next EXCEPT ![slot[t]] = NoSlot]
    /\ Goto(t, "link")
    /\ UNCHANGED <<taken, head, tail, syncVars, closed, localVars>>

\* Mutant: the list is changed without the lock.
LinkUnlocked(t) ==
    /\ pc[t] = "link"
    /\ next' = [next EXCEPT ![tail] = slot[t]]
    /\ Goto(t, "swing")
    /\ UNCHANGED <<allocVars, jobAt, head, tail, syncVars, closed, localVars>>

LinkJob(t) ==
    /\ pc[t] = "link" /\ lock = Nobody
    /\ lock' = t
    /\ next' = [next EXCEPT ![tail] = slot[t]]
    /\ Goto(t, "swing")
    /\ UNCHANGED <<allocVars, jobAt, head, tail, sem, closed, localVars>>

SwingTail(t) ==
    /\ pc[t] = "swing"
    /\ tail' = slot[t]
    /\ lock' = Nobody
    /\ Goto(t, "signal")
    /\ UNCHANGED <<allocVars, next, jobAt, head, sem, closed, localVars>>

\* Mutant: a job thread that posts a job again does not count it.
SignalByOthers(t) ==
    /\ pc[t] = "signal"
    /\ sem' = IF t \in Workers THEN sem ELSE sem + 1
    /\ Return(t)
    /\ UNCHANGED <<allocVars, listVars, lock, closed>>

Signal(t) ==
    /\ pc[t] = "signal"
    /\ sem' = sem + 1
    /\ Return(t)
    /\ UNCHANGED <<allocVars, listVars, lock, closed>>

-----------------------------------------------------------------------------
(***************************************************************************)
(* ma_job_queue_next and the loop of a job thread around it.               *)
(***************************************************************************)
PassSemaphore(w) ==
    /\ pc[w] = "wait" /\ sem > 0
    /\ sem' = sem - 1
    /\ Goto(w, "copy")
    /\ UNCHANGED <<allocVars, listVars, lock, closed, localVars>>

\* Mutant: the job of the dummy is taken instead of the one after it.
CopyDummy(w) ==
    /\ pc[w] = "copy" /\ lock = Nobody
    /\ lock' = w
    /\ job' = [job EXCEPT ![w] = jobAt[head]]
    /\ Goto(w, "advance")
    /\ UNCHANGED <<allocVars, listVars, sem, closed, slot, group, attempt>>

\* Without a job the result is MA_NO_DATA_AVAILABLE and the job thread ends.
CopyJob(w) ==
    /\ pc[w] = "copy" /\ lock = Nobody
    /\ IF next[head] = NoSlot
       THEN Goto(w, "gone") /\ UNCHANGED <<lock, job>>
       ELSE /\ lock' = w
            /\ job' = [job EXCEPT ![w] = jobAt[next[head]]]
            /\ Goto(w, "advance")
    /\ UNCHANGED <<allocVars, listVars, sem, closed, slot, group, attempt>>

\* The slot of the job becomes the dummy and the old dummy is to be freed.
AdvanceHead(w) ==
    /\ pc[w] = "advance"
    /\ slot' = [slot EXCEPT ![w] = head]
    /\ head' = next[head]
    /\ lock' = Nobody
    /\ Goto(w, "free")
    /\ UNCHANGED <<allocVars, next, jobAt, tail, sem, closed, job, group, attempt>>

\* ma_slot_allocator_free gives up, and the slot stays taken, if the count
\* says that nothing is allocated.
FreeSlot(w) ==
    /\ pc[w] = "free"
    /\ IF count > 0
       THEN taken' = taken \ {slot[w]} /\ Goto(w, "uncount")
       ELSE UNCHANGED taken /\ Goto(w, "process")
    /\ UNCHANGED <<count, listVars, syncVars, closed, localVars>>

UncountSlot(w) ==
    /\ pc[w] = "uncount"
    /\ count' = count - 1
    /\ Goto(w, "process")
    /\ UNCHANGED <<taken, listVars, syncVars, closed, localVars>>

\* A job that is done, and a job that must wait for another one and is posted
\* again.  The quit job is always posted again, for the next worker.
FinishJob(w) ==
    /\ pc[w] = "process" /\ job[w] # Quit
    /\ Return(w)
    /\ UNCHANGED <<allocVars, listVars, syncVars, closed>>

PostAgain(w) ==
    /\ pc[w] = "process"
    /\ StartPost(w, job[w])
    /\ UNCHANGED closed

-----------------------------------------------------------------------------
PostOwnJob(p) ==
    /\ pc[p] = "idle" /\ ~closed
    /\ StartPost(p, p)
    /\ UNCHANGED closed

\* ma_resource_manager_uninit: the audio device has been stopped before, and
\* the caller posts nothing else.
PostQuit ==
    /\ ~closed /\ \A p \in Posters : pc[p] = "idle"
    /\ closed' = TRUE
    /\ StartPost(Owner, Quit)

Posting(t) ==
    \/ ClaimSlot(t) \/ SkipGroup(t) \/ DecideFull(t) \/ CountAndWrite(t)
    \/ LinkJob(t) \/ SwingTail(t) \/ Signal(t)

Taking(w) ==
    \/ PassSemaphore(w) \/ CopyJob(w) \/ AdvanceHead(w)
    \/ FreeSlot(w) \/ UncountSlot(w) \/ FinishJob(w) \/ PostAgain(w)

Next ==
    \/ \E p \in Posters : PostOwnJob(p)
    \/ PostQuit
    \/ \E t \in Threads : Posting(t)
    \/ \E w \in Workers : Taking(w)

Spec == Init /\ [][Next]_vars

\* Threads keep running and a job is processed in finite time.  A spinlock has
\* no queue, but a thread that tests it again and again finds it free once.
FairSpec ==
    /\ Spec
    /\ \A t \in Threads : WF_vars(Posting(t)) /\ SF_vars(LinkJob(t))
    /\ \A w \in Workers : WF_vars(Taking(w)) /\ SF_vars(CopyJob(w))

-----------------------------------------------------------------------------
\* The slots of the list: the one after n steps from the head, for each n.
Nth[n \in 0 .. Capacity] ==
    IF n = 0 THEN head ELSE IF Nth[n - 1] = NoSlot THEN NoSlot ELSE next[Nth[n - 1]]
Linked == {n \in 1 .. Capacity : Nth[n] # NoSlot}
List == {head} \union {Nth[n] : n \in Linked}

\* Threads that own a slot outside the list.
Outside == {t \in Threads : pc[t] \in {"count", "link", "free"}}

\* Every slot that is taken has one owner: the list, or a thread that has not
\* linked it yet or not freed it yet.  So no job is overwritten in its slot
\* while it waits or is copied, and no slot is lost.
SlotsOwned ==
    /\ taken = List \union {slot[t] : t \in Outside}
    /\ \A t \in Outside : slot[t] \notin List
    /\ \A t, u \in Outside : slot[t] = slot[u] => t = u

\* The count of the allocator lags behind its bits by the threads between the
\* two steps, so it is positive whenever a slot is freed and the free succeeds.
CountExact ==
    /\ count + Cardinality({t \in Threads : pc[t] = "count"})
         = Cardinality(taken) + Cardinality({t \in Threads : pc[t] = "uncount"})
    /\ \A w \in Workers : pc[w] = "free" => count > 0

\* The semaphore counts the jobs in the list that no worker is about to take,
\* so a worker that has passed it finds a job.
SemaphoreExact ==
    /\ sem + Cardinality({t \in Threads : pc[t] \in {"swing", "signal"}})
         + Cardinality({w \in Workers : pc[w] \in {"copy", "advance"}})
         = Cardinality(Linked)
    /\ \A w \in Workers : pc[w] = "copy" => next[head] # NoSlot

\* The queue's books balance: slots, their count and the semaphore agree with
\* the list and with what each thread is in the middle of.
QueueConsistent == TypeOK /\ SlotsOwned /\ CountExact /\ SemaphoreExact

\* The promised queue: the jobs of the list after the dummy, and the job of
\* each worker once the head has moved.
queue == [n \in 1 .. Cardinality(Linked) |-> jobAt[Nth[n]]]
hand == [w \in Workers |-> IF pc[w] = "advance" THEN NoJob ELSE job[w]]
Fifo == INSTANCE JobFifo

\* Jobs are handed out in the order they were linked, each to one worker.
ImplementsFifo == Fifo!Spec

\* A linked job is taken, unless a worker has met the quit job before it.
EveryJobTaken ==
    \A s \in Slots : (s \in List \ {head}) ~> (s = head \/ \E w \in Workers : pc[w] = "gone")

\* A quit job that made it into the queue ends every worker.
WorkersEnd == (\E n \in Linked : jobAt[Nth[n]] = Quit) ~> (\A w \in Workers : pc[w] = "gone")

=============================================================================
