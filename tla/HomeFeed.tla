------------------------------ MODULE HomeFeed ------------------------------
(***************************************************************************)
(* The Home feed of one account: its row of home_feed_state, the immutable *)
(* artifacts it names, the one compose slot of the job table, and the      *)
(* callers that reconcile, promote, compose and schedule.                  *)
(*                                                                         *)
(* One action is one SQLite transaction, or one connection's read followed *)
(* by in-memory decisions.  A caller works from view, the row as it last   *)
(* read it, and writes only if the row still has that revision.            *)
(*                                                                         *)
(* Home data is per account and no statement here spans two, so one        *)
(* account is enough.  Content is abstracted: a composition is accepted or *)
(* it is not, and an accepted bundle stays accepted.                       *)
(***************************************************************************)
EXTENDS Integers, Sequences, FiniteSets

CONSTANTS
    Actors,        \* request threads and worker handlers
    Tokens,        \* the action ids clients send as launch or refresh tokens
    Requests,      \* the recommend requests clients send
    Depth,         \* QUEUE_TARGET_DEPTH
    ReadyTTL,      \* READY_ARTIFACT_TTL_SECONDS, in ticks
    ActiveTTL,     \* ACTIVE_ARTIFACT_TTL_SECONDS, in ticks
    MinAge,        \* the 30 minutes a launch leaves an active feed alone
    Stall,         \* ticks a transaction may be later than its timestamp
    MaxArtifacts,  \* bound: compositions accepted
    MaxPairs,      \* bound: supply generations published
    MaxClock,      \* bound: ticks
    MaxResets      \* bound: account resets

ASSUME DepthAssumption == Depth \in Nat
ASSUME AgeAssumption ==
    /\ ReadyTTL \in Nat /\ ActiveTTL \in Nat /\ MinAge \in Nat /\ Stall \in Nat
ASSUME FeedBoundAssumption ==
    /\ MaxArtifacts \in Nat /\ MaxPairs \in Nat
    /\ MaxClock \in Nat /\ MaxResets \in Nat

\* What a request has when the client sent no refresh_from_version, no token.
NoBaseline == -1
NoToken == ""

Request ==
    [force : BOOLEAN, launch : BOOLEAN, baseline : Nat \cup {NoBaseline},
     token : Tokens \cup {NoToken}]

ASSUME RequestAssumption == Requests \subseteq Request

VARIABLES
    row,        \* the account's row of home_feed_state
    artifacts,  \* home_feed_artifacts, by artifact id
    minted,     \* artifact ids given out so far
    pairs,      \* candidate/radio supply generations published so far
    gone,       \* how many of those a reset has deleted
    slot,       \* the COMPOSE_FEED job that is waiting or running
    call,       \* what each actor is in the middle of
    clock,
    resets,     \* account resets so far
    shown       \* history: what became active in this life, when, for whom

vars == <<row, artifacts, minted, pairs, gone, slot, call, clock, resets, shown>>

None == 0   \* no artifact

ArtifactIds == 1..MaxArtifacts

\* Every queue the row can hold.
Queues == UNION {[1..n -> ArtifactIds] : n \in 0..Depth}

Members(s) == {s[i] : i \in DOMAIN s}

AbsentRow ==
    [exists |-> FALSE, active |-> None, ready |-> <<>>, version |-> 0,
     revision |-> 0, token |-> NoToken, since |-> 0]

FreshRow == [AbsentRow EXCEPT !.exists = TRUE]

NoSlot == [status |-> "none", epoch |-> 0, owner |-> "nobody"]

NoRequest ==
    [force |-> FALSE, launch |-> FALSE, baseline |-> NoBaseline, token |-> NoToken]

Idle ==
    [step |-> "idle", task |-> "none", req |-> NoRequest, view |-> AbsentRow,
     life |-> 0, at |-> 0, tries |-> 0, epoch |-> 0, pair |-> 0, art |-> None]

-----------------------------------------------------------------------------
(* Validity of an artifact, and the row a reconciliation wants. *)

\* In the store, created by t and not past expires_at.
Servable(x, t) ==
    /\ x \in DOMAIN artifacts
    /\ artifacts[x].created <= t
    /\ t < artifacts[x].created + ActiveTTL

Promotable(x, t) ==
    Servable(x, t) /\ t - artifacts[x].created <= ReadyTTL

\* t holds the entries of s that are in V, in their order, at most Depth.
Keeps(s, V, t) ==
    \E f \in [DOMAIN t -> DOMAIN s] :
        /\ \A i, j \in DOMAIN t : i < j => f[i] < f[j]
        /\ \A i \in DOMAIN t : t[i] = s[f[i]] /\ t[i] \in V
        /\ \A k \in DOMAIN s : s[k] \in V =>
             \/ \E i \in DOMAIN t : f[i] = k
             \/ Len(t) = Depth /\ \A i \in DOMAIN t : f[i] < k

KeptActive(r, t) == IF Servable(r.active, t) THEN r.active ELSE None

\* Mutant: the artifact on screen is held to the age of a prepared one.
PrunedAlike(r, t) ==
    LET active == IF Promotable(r.active, t) THEN r.active ELSE None
        valid == {x \in ArtifactIds \ {active} : Promotable(x, t)}
    IN  {[r EXCEPT !.active = active, !.ready = q] :
            q \in {q \in Queues : Keeps(r.ready, valid, q)}}

\* r without the references that are missing or expired at t.
Pruned(r, t) ==
    LET active == KeptActive(r, t)
        valid == {x \in ArtifactIds \ {active} : Promotable(x, t)}
    IN  {[r EXCEPT !.active = active, !.ready = q] :
            q \in {q \in Queues : Keeps(r.ready, valid, q)}}

-----------------------------------------------------------------------------
(* reconcile: read, decide, write if the revision still stands. *)

Begin(a, c) ==
    /\ call[a] = Idle
    /\ call' = [call EXCEPT ![a] = [c EXCEPT !.at = clock]]

Finished(a) == call' = [call EXCEPT ![a] = Idle]

\* The handler of a compose job returns, or raises; its lease comes next.
Ends(a, how) == call' = [call EXCEPT ![a] = [Idle EXCEPT !.step = how]]

\* Reconcile again, for another purpose: a new timestamp, and the row read
\* before is forgotten.
Again(a, task) ==
    call' = [call EXCEPT ![a].step = "read", ![a].task = task, ![a].at = clock,
                         ![a].view = AbsentRow, ![a].life = 0]

\* The caller goes on with row r, read now and in the current life of the
\* account.
\* (queue_status and background_prepare stop here: for the row that is a
\* request which then promotes nothing.)
Continue(a, r) ==
    call' = [call EXCEPT ![a].step = call[a].task, ![a].view = r,
                         ![a].life = resets, ![a].at = clock, ![a].tries = 0]

\* An exception ends a request and sends a compose job to retry.
Raises(a) ==
    IF call[a].task \in {"guard", "compose", "attach"} THEN Ends(a, "again") ELSE Finished(a)

\* A missing row is left to get_or_create; a row with nothing to drop is
\* returned; otherwise the caller holds the row it will write.
Read(a) ==
    LET c == call[a] IN
    /\ c.step = "read"
    /\ \/ /\ ~row.exists
          /\ call' = [call EXCEPT ![a].step = "create", ![a].at = 0]
       \/ /\ row.exists
          /\ row \in Pruned(row, c.at)
          /\ Continue(a, row)
       \/ /\ row.exists
          /\ \E q \in Pruned(row, c.at) \ {row} :
               call' = [call EXCEPT ![a].step = "write", ![a].view = q,
                                    ![a].life = resets]
    /\ UNCHANGED <<row, artifacts, minted, pairs, gone, slot, clock, resets,
                   shown>>

\* Once the row is stored it is read again, and may have moved on.
Stored(a) ==
    call' = [call EXCEPT ![a].step = "reread", ![a].view = AbsentRow,
                         ![a].life = 0, ![a].at = 0]

Create(a) ==
    /\ call[a].step = "create"
    /\ row' = IF row.exists THEN row ELSE FreshRow
    /\ Stored(a)
    /\ UNCHANGED <<artifacts, minted, pairs, gone, slot, clock, resets, shown>>

Reread(a) ==
    /\ call[a].step = "reread"
    /\ IF row.exists THEN Continue(a, row) ELSE Raises(a)
    /\ UNCHANGED <<row, artifacts, minted, pairs, gone, slot, clock, resets,
                   shown>>

\* The guard of every UPDATE: the row is still at the revision of r.
Current(r) == row.exists /\ row.revision = r.revision

\* Mutant: the revision stays.
RewrittenQuietly(q) == [row EXCEPT !.active = q.active, !.ready = q.ready]

Rewritten(q) ==
    [row EXCEPT !.active = q.active, !.ready = q.ready, !.revision = @ + 1]

Write(a) ==
    LET c == call[a] IN
    /\ c.step = "write"
    /\ Current(c.view)
    /\ row' = Rewritten(c.view)
    /\ Stored(a)
    /\ UNCHANGED <<artifacts, minted, pairs, gone, slot, clock, resets, shown>>

\* The row moved: start over with the same timestamp, twice at most, then
\* raise StaleRevision.
WriteLost(a) ==
    LET c == call[a] IN
    /\ c.step = "write"
    /\ ~Current(c.view)
    /\ IF c.tries < 2
       THEN call' = [call EXCEPT ![a].step = "read", ![a].tries = @ + 1,
                                 ![a].view = AbsentRow, ![a].life = 0]
       ELSE Raises(a)
    /\ UNCHANGED <<row, artifacts, minted, pairs, gone, slot, clock, resets,
                   shown>>

-----------------------------------------------------------------------------
(* recommend and promote_ready. *)

\* A transaction's timestamp is taken after the caller came by its view, and
\* before it waits for the database.
Stamps(a) == {t \in call[a].at .. clock : clock - t <= Stall}

Recommend(a) ==
    /\ \E r \in Requests :
         Begin(a, [Idle EXCEPT !.step = "read", !.task = "decide", !.req = r])
    /\ UNCHANGED <<row, artifacts, minted, pairs, gone, slot, clock, resets,
                   shown>>

\* A refresh that names the version it starts from prepares asynchronously.
Asynchronous(r) == r.force /\ r.baseline # NoBaseline

Overtaken(r, v) == Asynchronous(r) /\ v.version # r.baseline

\* A launch whose token the row remembers promotes nothing.
Repeated(r, v) == r.launch /\ r.token # NoToken /\ r.token = v.token

\* What recommend asks promote_ready for: none, or a set of one demand.
Demand(token, age, version) == [token |-> token, age |-> age, version |-> version]

Demands(r, v) ==
    IF Overtaken(r, v) \/ v.ready = <<>> THEN {}
    ELSE IF r.force THEN {Demand(r.token, 0, r.baseline)}
    ELSE IF r.launch
         THEN IF Repeated(r, v) THEN {} ELSE {Demand(r.token, MinAge, NoBaseline)}
    ELSE IF v.active = None THEN {Demand(NoToken, 0, NoBaseline)}
    ELSE {}

\* Mutant: a launch rotates whatever the age of the active feed.
DeclinedWithoutAge(d, t) ==
    \/ row.ready = <<>>
    \/ d.version # NoBaseline /\ row.version # d.version
    \/ d.token # NoToken /\ d.token = row.token

\* promote_ready, at t, leaves the row alone and returns it.
Declined(d, t) ==
    \/ row.ready = <<>>
    \/ d.version # NoBaseline /\ row.version # d.version
    \/ d.token # NoToken /\ d.token = row.token
    \/ /\ row.active # None
       /\ row.since > 0
       /\ t - row.since < d.age

\* Mutant: the promoted artifact stays in the queue.
PromotedKept(d, t) ==
    [row EXCEPT !.active = Head(row.ready), !.since = t,
                !.version = @ + 1, !.revision = @ + 1,
                !.token = IF d.token # NoToken THEN d.token ELSE @]

\* Mutant: the version counts initialisations only.
PromotedSameVersion(d, t) ==
    [row EXCEPT !.active = Head(row.ready), !.ready = Tail(row.ready),
                !.since = t, !.revision = @ + 1,
                !.token = IF d.token # NoToken THEN d.token ELSE @]

\* Mutant: the newest prepared feed is shown first.
PromotedNewest(d, t) ==
    [row EXCEPT !.active = row.ready[Len(row.ready)],
                !.ready = SubSeq(row.ready, 1, Len(row.ready) - 1),
                !.since = t, !.version = @ + 1, !.revision = @ + 1,
                !.token = IF d.token # NoToken THEN d.token ELSE @]

Promoted(d, t) ==
    [row EXCEPT !.active = Head(row.ready), !.ready = Tail(row.ready),
                !.since = t, !.version = @ + 1, !.revision = @ + 1,
                !.token = IF d.token # NoToken THEN d.token ELSE @]

\* Nothing was promoted and the request holds row v.  A synchronous refresh
\* without a successor waits for one until its deadline; every other request
\* is answered.
Answer(a, v) ==
    \/ Finished(a)
    \/ /\ call[a].req.force /\ ~Asynchronous(call[a].req)
       /\ v.active # None /\ v.ready = <<>>
       /\ Again(a, "poll")

\* What becomes active is recorded with its timestamp and the time it is.
Shows(x, t, by) ==
    shown' = Append(shown, [art |-> x, at |-> t, now |-> clock, by |-> by])

\* The transaction.  Promotion ends the request; a decline answers it with the
\* row as it is; a stale revision, or an artifact past its time, reconciles
\* before it answers.
Promote(a, d, next) ==
    \/ /\ ~Current(call[a].view)
       /\ IF row.exists THEN Again(a, next) ELSE Finished(a)
       /\ UNCHANGED <<row, shown>>
    \/ /\ Current(call[a].view)
       /\ \E t \in Stamps(a) :
            \/ /\ Declined(d, t)
               /\ Answer(a, row)
               /\ UNCHANGED <<row, shown>>
            \/ /\ ~Declined(d, t) /\ ~Promotable(Head(row.ready), t)
               /\ Again(a, next)
               /\ UNCHANGED <<row, shown>>
            \/ /\ ~Declined(d, t) /\ Promotable(Head(row.ready), t)
               /\ row' = Promoted(d, t)
               /\ Shows(row'.active, t, call[a].req)
               /\ Finished(a)

Decide(a) ==
    LET c == call[a]
        ds == Demands(c.req, c.view)
    IN
    /\ c.step = "decide"
    /\ \/ \E d \in ds : Promote(a, d, "settle")
       \/ /\ ds = {}
          /\ IF Overtaken(c.req, c.view) THEN Finished(a) ELSE Answer(a, c.view)
          /\ UNCHANGED <<row, shown>>
    /\ UNCHANGED <<artifacts, minted, pairs, gone, slot, clock, resets>>

Settle(a) ==
    /\ call[a].step = "settle"
    /\ Answer(a, call[a].view)
    /\ UNCHANGED <<row, artifacts, minted, pairs, gone, slot, clock, resets,
                   shown>>

\* The wait: promote what has become ready, or look again.
Poll(a) ==
    LET c == call[a] IN
    /\ c.step = "poll"
    /\ \/ /\ c.view.ready = <<>>
          /\ Again(a, "poll") \/ Finished(a)
          /\ UNCHANGED <<row, shown>>
       \/ /\ c.view.ready # <<>>
          /\ Promote(a, Demand(NoToken, 0, NoBaseline), "poll")
    /\ UNCHANGED <<artifacts, minted, pairs, gone, slot, clock, resets>>

-----------------------------------------------------------------------------
(* Scheduling and leasing of the compose slot.  HomeJobs has the job table *)
(* in full; here it is the slot's epoch and the handler that owns it.      *)

\* The epoch the next feed would be composed for.
Epoch(r) == r.version + Len(r.ready) + 1

\* Someone who has seen a candidate snapshot, deleted by now or not, wants a
\* slot; most look for room in the queue first.
PlanSlot(a) ==
    /\ pairs > 0
    /\ \E task \in {"plan", "enqueue"} :
         Begin(a, [Idle EXCEPT !.step = "read", !.task = task])
    /\ UNCHANGED <<row, artifacts, minted, pairs, gone, slot, clock, resets,
                   shown>>

\* There is room: scheduler.compose reconciles again, and takes the epoch it
\* was given, if any, for the one to compose for.
Plan(a) ==
    /\ call[a].step = "plan"
    /\ IF Len(call[a].view.ready) >= Depth
       THEN Finished(a)
       ELSE \E e \in {0, Epoch(call[a].view)} :
              call' = [call EXCEPT ![a] = [Idle EXCEPT !.step = "read", !.at = clock,
                                             !.task = "enqueue", !.epoch = e]]
    /\ UNCHANGED <<row, artifacts, minted, pairs, gone, slot, clock, resets,
                   shown>>

\* enqueue_singleton joins a running slot and replaces a waiting one.
EnqueueSlot(a) ==
    LET c == call[a] IN
    /\ c.step = "enqueue"
    /\ slot' = IF slot.status = "running"
               THEN slot
               ELSE [status |-> "waiting", owner |-> "nobody",
                     epoch |-> IF c.epoch > 0 THEN c.epoch ELSE Epoch(c.view)]
    /\ Finished(a)
    /\ UNCHANGED <<row, artifacts, minted, pairs, gone, clock, resets, shown>>

ClaimSlot(a) ==
    /\ slot.status = "waiting"
    /\ Begin(a, [Idle EXCEPT !.step = "read", !.task = "guard",
                             !.epoch = slot.epoch])
    /\ slot' = [slot EXCEPT !.status = "running", !.owner = a]
    /\ UNCHANGED <<row, artifacts, minted, pairs, gone, clock, resets, shown>>

\* The handler looks for room, takes the newest supply, and composes; the
\* composer reconciles again.
Guard(a) ==
    /\ call[a].step = "guard"
    /\ IF Len(call[a].view.ready) >= Depth
       THEN Ends(a, "finish")
       ELSE call' = [call EXCEPT ![a] = [Idle EXCEPT !.step = "read", !.at = clock,
                                           !.task = "compose", !.epoch = call[a].epoch,
                                           !.pair = IF pairs > gone THEN pairs ELSE 0]]
    /\ UNCHANGED <<row, artifacts, minted, pairs, gone, slot, clock, resets,
                   shown>>

\* A slot given back waits again, or has no attempts left.
GiveBack ==
    \/ slot' = [slot EXCEPT !.status = "waiting", !.owner = "nobody"]
    \/ slot' = NoSlot

\* The lease runs out: its owner died, or its heartbeat stopped.
LeaseExpires ==
    /\ slot.status = "running"
    /\ GiveBack
    /\ UNCHANGED <<row, artifacts, minted, pairs, gone, call, clock, resets,
                   shown>>

\* complete, or LeaseLost when another handler owns the slot by now.
Complete(a) ==
    /\ call[a].step = "finish"
    /\ slot' = IF slot.owner = a THEN NoSlot ELSE slot
    /\ Finished(a)
    /\ UNCHANGED <<row, artifacts, minted, pairs, gone, clock, resets, shown>>

\* RetryableHomeJob, or any exception of the handler.
Retry(a) ==
    /\ call[a].step = "again"
    /\ IF slot.owner = a THEN GiveBack ELSE UNCHANGED slot
    /\ Finished(a)
    /\ UNCHANGED <<row, artifacts, minted, pairs, gone, clock, resets, shown>>

-----------------------------------------------------------------------------
(* HomeFeedComposer.compose. *)

Of(p, e) ==
    {x \in DOMAIN artifacts : artifacts[x].pair = p /\ artifacts[x].epoch = e}

\* The supply the handler chose; it looks again when it found none.
Supply(c) == IF c.pair = 0 THEN pairs ELSE c.pair

\* The queue is full, no supply is usable, or the row contracts or the
\* novelty rule reject the result: the job is done, or retried with a newer
\* supply.  An artifact of this supply and epoch is attached; else a new one
\* starts, stamped now.
Compose(a) ==
    LET c == call[a]
        p == Supply(c)
        usable == Len(c.view.ready) < Depth /\ p > gone
    IN
    /\ c.step = "compose"
    /\ \/ /\ Ends(a, "finish") \/ (p # pairs /\ Ends(a, "again"))
          /\ UNCHANGED minted
       \/ /\ usable
          /\ \E x \in Of(p, c.epoch) :
               call' = [call EXCEPT ![a].step = "attach", ![a].art = x,
                                    ![a].at = clock]
          /\ UNCHANGED minted
       \/ /\ usable
          /\ Of(p, c.epoch) = {}
          /\ minted < MaxArtifacts
          /\ minted' = minted + 1
          /\ call' = [call EXCEPT ![a].step = "put", ![a].pair = p,
                                  ![a].art = minted', ![a].at = clock]
    /\ UNCHANGED <<row, artifacts, pairs, gone, slot, clock, resets, shown>>

\* Mutant: no look for an artifact of the same supply and epoch.
PutBlind(a) ==
    LET c == call[a] IN
    /\ c.step = "put"
    /\ artifacts' = [x \in DOMAIN artifacts \cup {c.art} |->
                       IF x = c.art
                       THEN [pair |-> c.pair, epoch |-> c.epoch,
                             created |-> c.at]
                       ELSE artifacts[x]]
    /\ call' = [call EXCEPT ![a].step = "commit", ![a].at = clock]
    /\ UNCHANGED <<row, minted, pairs, gone, slot, clock, resets, shown>>

\* artifacts.put: the supply was deleted meanwhile; or another handler stored
\* this supply and epoch, and its artifact is attached to a row read anew.
Put(a) ==
    LET c == call[a] IN
    /\ c.step = "put"
    /\ IF c.pair <= gone
       THEN /\ Ends(a, "again")
            /\ UNCHANGED artifacts
       ELSE IF Of(c.pair, c.epoch) # {}
       THEN /\ \E x \in Of(c.pair, c.epoch) :
                 call' = [call EXCEPT
                            ![a] = [Idle EXCEPT !.step = "read", !.at = clock,
                                      !.task = "attach", !.art = x]]
            /\ UNCHANGED artifacts
       ELSE /\ artifacts' = [x \in DOMAIN artifacts \cup {c.art} |->
                               IF x = c.art
                               THEN [pair |-> c.pair, epoch |-> c.epoch,
                                     created |-> c.at]
                               ELSE artifacts[x]]
            /\ call' = [call EXCEPT ![a].step = "commit", ![a].at = clock]
    /\ UNCHANGED <<row, minted, pairs, gone, slot, clock, resets, shown>>

Initialized(x, t) ==
    [row EXCEPT !.active = x, !.since = t, !.version = @ + 1,
                !.revision = @ + 1]

Appended(x) == [row EXCEPT !.ready = Append(@, x), !.revision = @ + 1]

Queued(r) == Members(r.ready) \cup ({r.active} \ {None})

\* initialize_active and append_ready, at t, of x against the row read as v.
Initializes(x, v, t) ==
    /\ v.active = None /\ Servable(x, t) /\ Current(v)
    /\ row.active = None /\ x \notin Queued(row)

\* append_ready finds x good and not yet in the feed.
Appendable(x, v, t) ==
    /\ v.active # None /\ Promotable(x, t) /\ Current(v)
    /\ x \notin Queued(row)

Appends(x, v, t) == Appendable(x, v, t) /\ Len(row.ready) < Depth

Full(x, v, t) == Appendable(x, v, t) /\ Len(row.ready) >= Depth

\* The new artifact, or the one found, enters the row.  One that the caller's
\* own view names is consumed already; a full queue ends an attachment; every
\* other refusal is a state_commit_conflict or raises, and the job retries.
Attach(a) ==
    LET c == call[a]
        consumed == c.step = "attach" /\ c.art \in Queued(c.view)
    IN
    /\ c.step \in {"commit", "attach"}
    /\ \/ /\ consumed
          /\ Ends(a, "finish")
          /\ UNCHANGED <<row, shown>>
       \/ /\ ~consumed
          /\ \E t \in Stamps(a) :
               \/ /\ Initializes(c.art, c.view, t)
                  /\ row' = Initialized(c.art, t)
                  /\ Shows(c.art, t, NoRequest)
                  /\ Ends(a, "finish")
               \/ /\ Appends(c.art, c.view, t)
                  /\ row' = Appended(c.art)
                  /\ Ends(a, "finish")
                  /\ UNCHANGED shown
               \/ /\ ~Initializes(c.art, c.view, t)
                  /\ ~Appends(c.art, c.view, t)
                  /\ Ends(a, IF c.step = "attach" /\ Full(c.art, c.view, t)
                             THEN "finish" ELSE "again")
                  /\ UNCHANGED <<row, shown>>
    /\ UNCHANGED <<artifacts, minted, pairs, gone, slot, clock, resets>>

-----------------------------------------------------------------------------
(* The rest of the system. *)

\* A candidate or radio refresh publishes a new supply generation.
NewSupply ==
    /\ pairs < MaxPairs
    /\ pairs' = pairs + 1
    /\ UNCHANGED <<row, artifacts, minted, gone, slot, call, clock, resets,
                   shown>>

\* delete_scope: one transaction over every Home table of the account.
DeleteScope ==
    /\ resets < MaxResets
    /\ resets' = resets + 1
    /\ row' = AbsentRow
    /\ artifacts' = <<>>
    /\ gone' = pairs
    /\ slot' = NoSlot
    /\ shown' = <<>>
    /\ UNCHANGED <<minted, pairs, call, clock>>

\* The process or the thread of an actor goes away.
Crash(a) ==
    /\ call[a] # Idle
    /\ Finished(a)
    /\ UNCHANGED <<row, artifacts, minted, pairs, gone, slot, clock, resets,
                   shown>>

\* A reconciliation reads and writes, and after a lost write reads and writes
\* again, at most Stall ticks past the one timestamp it took.
Tick ==
    /\ clock < MaxClock
    /\ \A a \in Actors :
         call[a].step \in {"read", "write"} => clock - call[a].at < Stall
    /\ clock' = clock + 1
    /\ UNCHANGED <<row, artifacts, minted, pairs, gone, slot, call, resets,
                   shown>>

Init ==
    /\ row = AbsentRow
    /\ artifacts = <<>>
    /\ minted = 0
    /\ pairs = 0
    /\ gone = 0
    /\ slot = NoSlot
    /\ call = [a \in Actors |-> Idle]
    /\ clock = 1
    /\ resets = 0
    /\ shown = <<>>

Reconciling(a) ==
    Read(a) \/ Create(a) \/ Write(a) \/ WriteLost(a) \/ Reread(a)

Serving(a) == Recommend(a) \/ Decide(a) \/ Settle(a) \/ Poll(a)

Slotting(a) ==
    \/ PlanSlot(a) \/ Plan(a) \/ EnqueueSlot(a)
    \/ ClaimSlot(a) \/ Guard(a) \/ Complete(a) \/ Retry(a)

Composing(a) == Compose(a) \/ Put(a) \/ Attach(a)

Next ==
    \/ \E a \in Actors :
         Reconciling(a) \/ Serving(a) \/ Slotting(a) \/ Composing(a) \/ Crash(a)
    \/ LeaseExpires \/ NewSupply \/ DeleteScope \/ Tick

Spec == Init /\ [][Next]_vars

-----------------------------------------------------------------------------
(* Properties. *)

Feed == INSTANCE FeedQueue
            WITH Ids <- ArtifactIds, active <- row.active, ready <- row.ready

\* q is r without some of the artifacts it names.
Prunes(q, r) ==
    /\ r = [q EXCEPT !.active = r.active, !.ready = r.ready]
    /\ q.active \in {r.active, None}
    /\ Feed!Subsequence(q.ready, r.ready)

\* The queue is sound whatever writers interleave: no artifact is prepared
\* twice, the one on screen is not also prepared, and the depth is kept.
\* (Reconcile, initialize_active, append_ready and promote_ready each keep
\* only their own part of this.)
QueueSoundRow(r) ==
    /\ \A i, j \in DOMAIN r.ready : r.ready[i] = r.ready[j] => i = j
    /\ r.active \notin Members(r.ready)
    /\ Len(r.ready) <= Depth

QueueSound == QueueSoundRow(row)

\* What the revision guard rests on: within one life of the account, a row
\* that a caller read and that still has its revision is still that row, or,
\* for a caller about to write, that row without what it prunes.
RevisionNamesRow ==
    \A a \in Actors :
        LET c == call[a] IN
        (c.view.exists /\ c.life = resets /\ Current(c.view)) =>
            IF c.step = "write" THEN Prunes(c.view, row) ELSE row = c.view

\* A supply generation is allocated to one epoch once, whichever handlers
\* compose it at the same time (artifacts.put against get_by_supply).
AllocatedOnce ==
    \A x, y \in DOMAIN artifacts :
        /\ artifacts[x].pair = artifacts[y].pair
        /\ artifacts[x].epoch = artifacts[y].epoch
        => x = y

\* A refresh that names the version it starts from advances it once, however
\* often it is sent and by however many clients: an advanced state is served
\* without consuming another artifact.
RefreshOnce ==
    \A i, j \in DOMAIN shown :
        (/\ Asynchronous(shown[i].by)
         /\ shown[i].by.baseline = shown[j].by.baseline
         /\ Asynchronous(shown[j].by)) => i = j

\* A launch leaves a feed on screen for its minimum age, short of what a
\* transaction may wait for the database, whoever put it there.  Only a feed
\* whose time is over goes before, or one that came on screen so soon after it
\* was composed that a reconciliation begun earlier still dropped it.
LaunchesWait ==
    \A i \in DOMAIN shown :
        i > 1 /\ shown[i].by.launch /\ ~shown[i].by.force =>
            LET before == shown[i - 1] IN
            \/ shown[i].now - before.now >= MinAge - Stall
            \/ ~Servable(before.art, shown[i].now)
            \/ before.now - artifacts[before.art].created < Stall

\* x leaves the feed by promotion of the next artifact, or its time is over.
LeavesInTime(x) ==
    \/ ~row'.exists
    \/ x = row.active /\ Len(shown') > Len(shown)
    \/ x = row.active /\ ~Servable(x, clock)
    \/ x # row.active /\ ~Promotable(x, clock)

\* What leaves the row was promoted, is past its time, or was composed after the
\* timestamp of a reconciliation that waited or was retried: reconcile keeps its
\* first timestamp and drops what is younger, so never what is Stall ticks old.
OnlyExpiredOrNewLeave ==
    [][\A x \in Queued(row) \ Queued(row') :
          LeavesInTime(x) \/ artifacts[x].created > clock - Stall]_vars

\* The feed is a persistent FIFO, in the terms of FeedQueue: readers see the
\* oldest prepared artifact next, whatever its callers interleave.
FeedIsQueue == Feed!QueueSpec

\* What ARCHITECTURE.md says of launches: one token promotes once.
TokenPromotesOnce ==
    \A i, j \in DOMAIN shown :
        (/\ shown[i].by.launch /\ shown[i].by.token # NoToken
         /\ shown[i].by = shown[j].by) => i = j

=============================================================================
