-------------------------- MODULE HomeFeedTimeProofs --------------------------
(***************************************************************************)
(* Theorems about HomeFeed and time: a launch leaves a feed on screen for  *)
(* its minimum age, and what is dropped has expired, or is newer than the  *)
(* reconciliation that drops it.  They hold for every Stall, and without   *)
(* account resets: a stale write may survive a reset and hit the new row.  *)
(***************************************************************************)
EXTENDS HomeFeedProofs, FiniteSetTheorems

-----------------------------------------------------------------------------
(* The invariant. *)

\* What v, decided at t, leaves out of the row is past its time or newer than t.
Spoiled(v, t) ==
    \A x \in Queued(row) \ Queued(v) :
        \/ IF x = row.active THEN ~Servable(x, clock) ELSE ~Promotable(x, clock)
        \/ artifacts[x].created > t

\* The stored artifacts, which are older than now, hold all that is prepared.
Stock ==
    /\ minted \in Nat /\ DOMAIN artifacts \subseteq 1..minted
    /\ \A x \in DOMAIN artifacts :
         artifacts[x].created \in Nat /\ artifacts[x].created <= clock
    /\ Queued(row) \subseteq DOMAIN artifacts
    /\ clock \in Nat \ {0}

Waits(c) == c.step = "poll" \/ c.task = "poll" => c.req.force

\* The steps that take a timestamp after the time they remember.
Dated == {"decide", "poll", "attach", "commit"}

\* A reconciliation is at most Stall ticks old, and what a write would drop has
\* expired or is newer; a new artifact has an id of its own.
Stamped(c) ==
    /\ c.step \in {"read", "write"} => /\ c.at \in Nat /\ c.at <= clock
                                      /\ clock - c.at <= Stall
    /\ c.step = "put" => /\ c.at \in Nat /\ c.at <= clock
                         /\ c.art \in 1..minted /\ c.art \notin DOMAIN artifacts
    /\ c.step \in Dated => c.at \in Nat \ {0}
    /\ Waits(c)
    /\ c.step = "write" /\ Current(c.view) => Spoiled(c.view, c.at)

Callers ==
    /\ \A a \in Actors : Stamped(call[a])
    /\ \A a, b \in Actors :
         a # b /\ call[a].step = "put" /\ call[b].step = "put" =>
           call[a].art # call[b].art

\* The row remembers the last artifact shown; it forgets it once it expired,
\* or if it was shown so soon that an earlier reconciliation found it too new.
Timeline ==
    /\ \A i \in DOMAIN shown : shown[i].art \in DOMAIN artifacts
    /\ shown # << >> =>
         LET e == shown[Len(shown)] IN
         /\ e.at = row.since /\ row.since > 0
         /\ e.now - e.at <= Stall /\ e.now <= clock
         /\ \/ row.active = e.art
            \/ /\ row.active = None
               /\ \/ ~Servable(e.art, clock)
                  \/ e.now - artifacts[e.art].created < Stall

TimesInv == Stock /\ Callers /\ Timeline /\ LaunchesWait

\* The step of OnlyExpiredOrNewLeave.
Leaves ==
    \A x \in Queued(row) \ Queued(row') :
        LeavesInTime(x) \/ artifacts[x].created > clock - Stall

LEMMA SameRowLeaves == row' = row => Leaves
  BY DEF Leaves

-----------------------------------------------------------------------------
(* Pruning drops only what is past its time. *)

\* An increasing map of 1..n stays within 1..m only if n is at most m.
LEMMA Pigeons ==
    ASSUME NEW n \in Nat, NEW m \in Nat, m < n, NEW f \in [1..n -> 1..m],
           \A i, j \in 1..n : i < j => f[i] < f[j]
    PROVE  FALSE
<1>1. /\ IsFiniteSet(1..n) /\ Cardinality(1..n) = n
      /\ IsFiniteSet(1..m) /\ Cardinality(1..m) = m
  BY FS_Interval
<1>2. PICK i \in 1..n, j \in 1..n : i # j /\ f[i] = f[j]
  BY <1>1, FS_PigeonHole
<1>3. i < j \/ j < i
  BY <1>2
<1>4. f[i] \in Int /\ f[j] \in Int
  OBVIOUS
<1> QED
  BY <1>2, <1>3, <1>4

\* What is past its time stays so.
LEMMA Aging ==
    ASSUME NEW x, NEW t \in Nat, NEW u \in Nat, t <= u,
           x \in DOMAIN artifacts => artifacts[x].created \in Nat
    PROVE  /\ ~Servable(x, t) =>
                ~Servable(x, u) \/ artifacts[x].created > t
           /\ ~Promotable(x, t) =>
                ~Promotable(x, u) \/ artifacts[x].created > t
  BY AgeAssumption DEF Servable, Promotable

LEMMA PrunedSpoiled ==
    ASSUME row \in Row, QueueSoundRow(row), Stock,
           NEW t \in Nat, t <= clock, NEW q \in Pruned(row, t)
    PROVE  Spoiled(q, t)
<1> DEFINE valid == {x \in ArtifactIds \ {KeptActive(row, t)} :
                       Promotable(x, t)}
           s == row.ready
<1>1. PICK p \in Queues :
        /\ Keeps(s, valid, p)
        /\ q = [row EXCEPT !.active = KeptActive(row, t), !.ready = p]
  BY DEF Pruned
<1>2. PICK f \in [DOMAIN p -> DOMAIN s] :
        /\ \A i, j \in DOMAIN p : i < j => f[i] < f[j]
        /\ \A i \in DOMAIN p : p[i] = s[f[i]] /\ p[i] \in valid
        /\ \A k \in DOMAIN s : s[k] \in valid =>
             \/ \E i \in DOMAIN p : f[i] = k
             \/ Len(p) = Depth /\ \A i \in DOMAIN p : f[i] < k
  BY <1>1 DEF Keeps
<1>3. /\ s \in Seq(ArtifactIds) /\ DOMAIN s = 1..Len(s) /\ Len(s) \in Nat
      /\ Len(s) <= Depth
  BY LenProperties DEF Row, QueueSoundRow
<1>4. p \in Seq(ArtifactIds) /\ DOMAIN p = 1..Len(p) /\ Len(p) \in Nat
  BY <1>1, QueueIsSeq, LenProperties
<1>5. q.active = KeptActive(row, t) /\ q.ready = p
  BY <1>1 DEF Row
<1> HIDE DEF valid
<1> SUFFICES ASSUME NEW x \in Queued(row), x \notin Queued(q)
             PROVE  IF x = row.active THEN ~Servable(x, t) ELSE ~Promotable(x, t)
  <2>1. \A x \in Queued(row) :
          /\ ~Servable(x, t) => ~Servable(x, clock) \/ artifacts[x].created > t
          /\ ~Promotable(x, t) =>
               ~Promotable(x, clock) \/ artifacts[x].created > t
    BY Aging DEF Stock
  <2> QED
    BY <2>1 DEF Spoiled
<1>6. x \in ArtifactIds /\ x # None
  <2>1. \A i \in DOMAIN row.ready : row.ready[i] \in ArtifactIds
    BY <1>3
  <2>2. row.active \in ArtifactIds \cup {None}
    BY DEF Row
  <2>3. x \in ArtifactIds
    BY <2>1, <2>2 DEF Queued, Members
  <2> QED
    BY <2>3 DEF ArtifactIds, None
<1>7. CASE x = row.active
  BY <1>5, <1>6, <1>7 DEF KeptActive, Queued
<1>8. ASSUME x # row.active, Promotable(x, t)
      PROVE  FALSE
  <2>1. PICK k \in DOMAIN s : x = s[k]
    BY <1>8 DEF Queued, Members
  <2>2. x \in valid
    BY <1>6, <1>8 DEF valid, KeptActive
  <2>3. CASE \E i \in DOMAIN p : f[i] = k
    BY <1>2, <1>5, <2>1, <2>3 DEF Queued, Members
  <2>4. CASE Len(p) = Depth /\ \A i \in DOMAIN p : f[i] < k
    <3> HIDE DEF s
    <3>1. k \in Nat /\ k - 1 \in Nat /\ k - 1 < Depth
      <4>1. \A m \in Nat : \A i \in 1..m :
              m <= Depth => i \in Nat /\ i - 1 \in Nat /\ i - 1 < Depth
        BY DepthAssumption
      <4> QED
        BY <1>3, <4>1
    <3>2. f \in [1..Depth -> 1..(k - 1)]
      <4>1. DOMAIN f = 1..Depth /\ f = [i \in 1..Depth |-> f[i]]
        BY <1>2, <1>4, <2>4
      <4>2. \A i \in 1..Depth : f[i] \in 1..(k - 1)
        <5>1. \A i \in 1..Depth : f[i] \in 1..Len(s) /\ f[i] < k
          BY <1>2, <1>3, <1>4, <2>4
        <5> QED
          BY <1>3, <3>1, <5>1
      <4> QED
        BY <4>1, <4>2
    <3>3. \A i, j \in 1..Depth : i < j => f[i] < f[j]
      BY <1>2, <1>4, <2>4
    <3>4. Depth \in Nat
      BY DepthAssumption
    <3> QED
      BY <3>1, <3>2, <3>3, <3>4, Pigeons
  <2> QED
    BY <1>2, <2>1, <2>2, <2>3, <2>4
<1> QED
  BY <1>7, <1>8

-----------------------------------------------------------------------------
(* Steps that leave the row and the store alone. *)

\* A step of one caller, which is not about to store an artifact.
LEMMA CallerSteps ==
    ASSUME IInv, TimesInv, NEW a \in Actors,
           UNCHANGED <<row, artifacts, minted, clock, shown>>,
           call' = [call EXCEPT ![a] = call'[a]],
           Stamped(call'[a]), call'[a].step # "put"
    PROVE  TimesInv'
<1>1. Stock' /\ Timeline' /\ LaunchesWait'
  BY DEF TimesInv, Stock, Timeline, LaunchesWait, Servable, Queued, Members
<1>2. \A b \in Actors \ {a} : call'[b] = call[b]
  BY ActorFacts
<1>3. ASSUME NEW b \in Actors
      PROVE  Stamped(call[b])'
  <2>1. Stamped(call'[b])
    BY <1>2 DEF TimesInv, Callers
  <2> QED
    BY <2>1 DEF Stamped, Waits, Spoiled, Current, Servable, Promotable, Queued, Members
<1>4. \A b, c \in Actors :
        b # c /\ call'[b].step = "put" /\ call'[c].step = "put" =>
          call'[b].art # call'[c].art
  BY <1>2 DEF TimesInv, Callers
<1> QED
  BY <1>1, <1>3, <1>4 DEF TimesInv, Callers

\* A caller that holds nothing that time, or another caller, could spoil.
Quiet(c) ==
    /\ c.step \notin {"read", "write", "put"} /\ Waits(c)
    /\ c.step \in Dated => c.at \in Nat \ {0}

LEMMA QuietStamped ==
    ASSUME NEW c, Quiet(c)
    PROVE  Stamped(c) /\ c.step # "put"
  BY DEF Quiet, Stamped

LEMMA QuietLeaves ==
    ASSUME IInv, TimesInv, NEW a \in Actors, Waits(call[a]),
           \/ Finished(a)
           \/ \E how \in {"finish", "again"} : Ends(a, how)
           \/ Stored(a)
           \/ Continue(a, row)
    PROVE  call' = [call EXCEPT ![a] = call'[a]] /\ Quiet(call'[a])
<1>1. CASE Finished(a)
  <2>1. call' = [call EXCEPT ![a] = call'[a]] /\ call'[a] = Idle
    BY <1>1, ActorFacts, CallSteps
  <2>2. Idle.step = "idle" /\ Idle.task = "none"
    BY DEF Idle
  <2> QED
    BY <2>1, <2>2 DEF Quiet, Waits, Dated
<1>2. CASE \E how \in {"finish", "again"} : Ends(a, how)
  <2>1. PICK how \in {"finish", "again"} : Ends(a, how)
    BY <1>2
  <2>2. /\ call' = [call EXCEPT ![a] = call'[a]]
        /\ call'[a] = [Idle EXCEPT !.step = how]
    BY <2>1, ActorFacts, CallSteps DEF Steps
  <2> QED
    BY <2>2 DEF Quiet, Waits, Idle, Dated
<1>3. CASE Stored(a)
  <2>1. /\ call' = [call EXCEPT ![a] = call'[a]]
        /\ call'[a].step = "reread" /\ call'[a].task = call[a].task
        /\ call'[a].req = call[a].req
    BY <1>3, ActorFacts DEF Stored, Call
  <2> QED
    BY <2>1 DEF Quiet, Waits, Dated
<1>4. CASE Continue(a, row)
  <2>1. /\ call' = [call EXCEPT ![a] = call'[a]]
        /\ call'[a] = [call[a] EXCEPT !.step = call[a].task, !.view = row,
                         !.life = resets, !.at = clock, !.tries = 0]
    BY <1>4, ActorFacts DEF Continue
  <2>2. /\ call'[a].step = call[a].task /\ call'[a].task = call[a].task
        /\ call'[a].req = call[a].req /\ call'[a].at = clock
    BY <2>1, ActorFacts DEF Call
  <2>3. call[a].task \in Tasks
    BY ActorFacts DEF Call
  <2> QED
    BY <2>1, <2>2, <2>3 DEF Quiet, Waits, Tasks, TimesInv, Stock
<1> QED
  BY <1>1, <1>2, <1>3, <1>4

\* A caller that starts to reconcile, now.
LEMMA ReadsStamped ==
    ASSUME Stock, NEW c, c.step = "read", c.at = clock,
           c.task = "poll" => c.req.force
    PROVE  Stamped(c) /\ c.step # "put"
  BY AgeAssumption DEF Stamped, Waits, Stock, Dated

LEMMA AgainStamped ==
    ASSUME IInv, Stock, NEW a \in Actors, NEW task \in Tasks, Again(a, task),
           task = "poll" => call[a].req.force
    PROVE  /\ call' = [call EXCEPT ![a] = call'[a]]
           /\ Stamped(call'[a]) /\ call'[a].step # "put"
<1>1. /\ call' = [call EXCEPT ![a] = call'[a]]
      /\ call'[a] = [call[a] EXCEPT !.step = "read", !.task = task,
                       !.at = clock, !.view = AbsentRow, !.life = 0]
  BY ActorFacts, CallSteps
<1>2. /\ call'[a].step = "read" /\ call'[a].at = clock
      /\ call'[a].task = task /\ call'[a].req = call[a].req
  BY <1>1, ActorFacts DEF Call
<1> QED
  BY <1>1, <1>2, ReadsStamped

LEMMA BeginStamped ==
    ASSUME IInv, Stock, NEW a \in Actors, NEW c \in Call, Begin(a, c),
           c.step = "read", c.task # "poll"
    PROVE  /\ call' = [call EXCEPT ![a] = call'[a]]
           /\ Stamped(call'[a]) /\ call'[a].step # "put"
<1>1. call' = [call EXCEPT ![a] = call'[a]] /\ call'[a] = [c EXCEPT !.at = clock]
  BY ActorFacts DEF Begin
<1>2. call'[a].step = "read" /\ call'[a].at = clock /\ call'[a].task = c.task
  BY <1>1 DEF Call
<1> QED
  BY <1>1, <1>2, ReadsStamped

LEMMA ActorStamped ==
    ASSUME TimesInv, NEW a \in Actors
    PROVE  Stamped(call[a]) /\ Waits(call[a])
  BY DEF TimesInv, Callers, Stamped

\* What a caller's new timestamp says about now.
LEMMA ActorStamps ==
    ASSUME IInv, TimesInv, NEW a \in Actors, call[a].step \in Dated,
           NEW t \in Stamps(a)
    PROVE  t \in Nat \ {0} /\ t <= clock /\ clock - t <= Stall
<1>1. call[a].at \in Nat \ {0} /\ clock \in Nat
  BY ActorStamped DEF Stamped, TimesInv, Stock
<1>2. t \in Nat /\ call[a].at <= t /\ t <= clock /\ clock - t <= Stall
  BY <1>1, StampFacts
<1> QED
  BY <1>1, <1>2

LEMMA ReadTimes ==
    ASSUME IInv, TimesInv, NEW a \in Actors, Read(a)
    PROVE  TimesInv'
<1>0. UNCHANGED <<row, artifacts, minted, clock, shown>> /\ call[a].step = "read"
  BY DEF Read
<1>1. CASE call' = [call EXCEPT ![a].step = "create", ![a].at = 0]
  <2>1. /\ call' = [call EXCEPT ![a] = call'[a]]
        /\ call'[a].step = "create" /\ call'[a].task = call[a].task
        /\ call'[a].req = call[a].req
    BY <1>1, ActorFacts DEF Call
  <2>2. Quiet(call'[a])
    BY <1>0, <2>1, ActorStamped DEF Quiet, Waits, Dated
  <2> QED
    BY <1>0, <2>1, <2>2, QuietStamped, CallerSteps
<1>2. CASE Continue(a, row)
  BY <1>0, <1>2, ActorStamped, QuietLeaves, QuietStamped, CallerSteps
<1>3. ASSUME NEW q \in Pruned(row, call[a].at),
             call' = [call EXCEPT ![a].step = "write", ![a].view = q,
                                  ![a].life = resets]
      PROVE  TimesInv'
  <2>1. call[a].at \in Nat /\ call[a].at <= clock /\ clock - call[a].at <= Stall
    BY <1>0, ActorStamped DEF Stamped
  <2>2. Spoiled(q, call[a].at)
    BY <1>3, <2>1, ActorFacts, PrunedSpoiled DEF TimesInv
  <2>3. /\ call' = [call EXCEPT ![a] = call'[a]]
        /\ call'[a].step = "write" /\ call'[a].task = call[a].task
        /\ call'[a].req = call[a].req /\ call'[a].at = call[a].at
        /\ call'[a].view = q
    BY <1>3, ActorFacts DEF Call
  <2>4. Stamped(call'[a])
    BY <2>1, <2>2, <2>3, ActorStamped DEF Stamped, Waits, Dated
  <2> QED
    BY <1>0, <2>3, <2>4, CallerSteps
<1> QED
  BY <1>1, <1>2, <1>3 DEF Read

LEMMA RereadTimes ==
    ASSUME IInv, TimesInv, NEW a \in Actors, Reread(a)
    PROVE  TimesInv'
<1>1. UNCHANGED <<row, artifacts, minted, clock, shown>>
  BY DEF Reread
<1>2. Continue(a, row) \/ Ends(a, "again") \/ Finished(a)
  BY DEF Reread, Raises
<1> QED
  BY <1>1, <1>2, ActorStamped, QuietLeaves, QuietStamped, CallerSteps

LEMMA WriteLostTimes ==
    ASSUME IInv, TimesInv, NEW a \in Actors, WriteLost(a)
    PROVE  TimesInv'
<1>1. UNCHANGED <<row, artifacts, minted, clock, shown>> /\ call[a].step = "write"
  BY DEF WriteLost
<1>2. CASE Ends(a, "again") \/ Finished(a)
  BY <1>1, <1>2, ActorStamped, QuietLeaves, QuietStamped, CallerSteps
<1>3. CASE call' = [call EXCEPT ![a].step = "read", ![a].tries = @ + 1,
                                ![a].view = AbsentRow, ![a].life = 0]
  <2>1. /\ call' = [call EXCEPT ![a] = call'[a]]
        /\ call'[a].step = "read" /\ call'[a].task = call[a].task
        /\ call'[a].req = call[a].req /\ call'[a].at = call[a].at
    BY <1>3, ActorFacts DEF Call
  <2>2. Stamped(call'[a]) /\ call'[a].step # "put"
    BY <1>1, <2>1, ActorStamped DEF Stamped, Waits, Dated
  <2> QED
    BY <1>1, <2>1, <2>2, CallerSteps
<1> QED
  BY <1>2, <1>3 DEF WriteLost, Raises

LEMMA RecommendTimes ==
    ASSUME IInv, TimesInv, NEW a \in Actors, Recommend(a)
    PROVE  TimesInv'
<1>1. PICK r \in Requests :
        Begin(a, [Idle EXCEPT !.step = "read", !.task = "decide", !.req = r])
  BY DEF Recommend
<1> DEFINE c == [Idle EXCEPT !.step = "read", !.task = "decide", !.req = r]
<1>2. c \in Call /\ c.step = "read" /\ c.task # "poll"
  <2>1. r \in Request /\ "read" \in Steps /\ "decide" \in Tasks
    BY RequestAssumption DEF Steps, Tasks
  <2> QED
    BY <2>1, IdleCall DEF Call
<1> HIDE DEF c
<1>3. Begin(a, c)
  BY <1>1 DEF c
<1> QED
  BY <1>2, <1>3, BeginStamped, CallerSteps DEF Recommend, TimesInv

LEMMA AnswerTimes ==
    ASSUME IInv, TimesInv, NEW a \in Actors, NEW v, Answer(a, v),
           UNCHANGED <<row, artifacts, minted, clock, shown>>
    PROVE  TimesInv'
<1>1. CASE Finished(a)
  BY <1>1, ActorStamped, QuietLeaves, QuietStamped, CallerSteps
<1>2. CASE Again(a, "poll") /\ call[a].req.force
  <2>1. "poll" \in Tasks
    BY DEF Tasks
  <2> QED
    BY <1>2, <2>1, AgainStamped, CallerSteps DEF TimesInv
<1> QED
  BY <1>1, <1>2 DEF Answer

\* The caller starts again as it is, for another task.
LEMMA StartsTimes ==
    ASSUME IInv, TimesInv, NEW a \in Actors, NEW c \in Call,
           UNCHANGED <<row, artifacts, minted, clock, shown>>,
           call' = [call EXCEPT ![a] = c],
           c.step = "read", c.at = clock, c.task # "poll"
    PROVE  TimesInv'
<1>1. call' = [call EXCEPT ![a] = call'[a]] /\ call'[a] = c
  BY ActorFacts
<1> QED
  BY <1>1, ReadsStamped, CallerSteps DEF TimesInv

LEMMA SlotTimes ==
    ASSUME IInv, TimesInv, NEW a \in Actors, Slotting(a)
    PROVE  TimesInv'
<1>0. UNCHANGED <<row, artifacts, minted, clock, shown>>
  BY DEF Slotting, PlanSlot, Plan, EnqueueSlot, ClaimSlot, Guard, Complete, Retry
<1>1. ASSUME \/ Finished(a)
             \/ \E how \in {"finish", "again"} : Ends(a, how)
      PROVE  TimesInv'
  BY <1>0, <1>1, ActorStamped, QuietLeaves, QuietStamped, CallerSteps
<1>2. ASSUME NEW t \in {"plan", "enqueue", "guard", "compose"}, NEW e \in Nat, NEW p \in Nat
      PROVE  /\ [Idle EXCEPT !.step = "read", !.task = t, !.epoch = e] \in Call
             /\ [Idle EXCEPT !.step = "read", !.task = t] \in Call
             /\ [Idle EXCEPT !.step = "read", !.at = clock, !.task = t,
                             !.epoch = e] \in Call
             /\ [Idle EXCEPT !.step = "read", !.at = clock, !.task = t,
                             !.epoch = e, !.pair = p] \in Call
  <2>1. clock \in Nat /\ "read" \in Steps /\ t \in Tasks
    BY ActorFacts DEF Steps, Tasks
  <2> QED
    BY <2>1, IdleCall DEF Call
<1>3. call[a].epoch \in Nat /\ slot.epoch \in Nat
  BY ActorFacts DEF Call, Slot
<1>4. CASE PlanSlot(a)
  <2>1. PICK t \in {"plan", "enqueue"} :
          Begin(a, [Idle EXCEPT !.step = "read", !.task = t])
    BY <1>4 DEF PlanSlot
  <2> DEFINE c == [Idle EXCEPT !.step = "read", !.task = t]
  <2>2. c \in Call /\ c.step = "read" /\ c.task # "poll"
    BY <1>2, <1>3 DEF Idle
  <2> HIDE DEF c
  <2>3. Begin(a, c)
    BY <2>1 DEF c
  <2> QED
    BY <1>0, <2>2, <2>3, BeginStamped, CallerSteps DEF TimesInv
<1>5. CASE Plan(a)
  <2>1. CASE Finished(a)
    BY <1>1, <2>1
  <2>2. ASSUME NEW e \in Nat,
               call' = [call EXCEPT ![a] = [Idle EXCEPT !.step = "read",
                          !.at = clock, !.task = "enqueue", !.epoch = e]]
        PROVE  TimesInv'
    <3> DEFINE c == [Idle EXCEPT !.step = "read", !.at = clock,
                                 !.task = "enqueue", !.epoch = e]
    <3>1. c \in Call /\ c.step = "read" /\ c.at = clock /\ c.task # "poll"
      BY <1>2, <1>3 DEF Idle
    <3>2. call' = [call EXCEPT ![a] = c]
      BY <2>2
    <3> HIDE DEF c
    <3> QED
      BY <1>0, <3>1, <3>2, StartsTimes
  <2>3. Epoch(call[a].view) \in Nat
    BY EpochIsNat
  <2> QED
    BY <1>5, <2>1, <2>2, <2>3 DEF Plan
<1>6. CASE ClaimSlot(a)
  <2> DEFINE c == [Idle EXCEPT !.step = "read", !.task = "guard",
                               !.epoch = slot.epoch]
  <2>1. c \in Call /\ c.step = "read" /\ c.task # "poll"
    BY <1>2, <1>3 DEF Idle
  <2>2. Begin(a, c)
    BY <1>6 DEF ClaimSlot
  <2> HIDE DEF c
  <2> QED
    BY <1>0, <2>1, <2>2, BeginStamped, CallerSteps DEF TimesInv
<1>7. CASE Guard(a)
  <2>1. CASE Ends(a, "finish")
    BY <1>1, <2>1
  <2>2. ASSUME NEW p \in Nat,
               call' = [call EXCEPT ![a] = [Idle EXCEPT !.step = "read",
                          !.at = clock, !.task = "compose",
                          !.epoch = call[a].epoch, !.pair = p]]
        PROVE  TimesInv'
    <3> DEFINE c == [Idle EXCEPT !.step = "read", !.at = clock,
                       !.task = "compose", !.epoch = call[a].epoch, !.pair = p]
    <3>1. c \in Call /\ c.step = "read" /\ c.at = clock /\ c.task # "poll"
      BY <1>2, <1>3 DEF Idle
    <3>2. call' = [call EXCEPT ![a] = c]
      BY <2>2
    <3> HIDE DEF c
    <3> QED
      BY <1>0, <3>1, <3>2, StartsTimes
  <2>3. (IF pairs > gone THEN pairs ELSE 0) \in Nat
    BY DEF IInv, FeedTypeOK
  <2> QED
    BY <1>7, <2>1, <2>2, <2>3 DEF Guard
<1>8. CASE EnqueueSlot(a) \/ Complete(a) \/ Retry(a)
  BY <1>1, <1>8 DEF EnqueueSlot, Complete, Retry
<1> QED
  BY <1>4, <1>5, <1>6, <1>7, <1>8 DEF Slotting

-----------------------------------------------------------------------------
(* Steps that move the row. *)

\* The row gets a new revision, so no other caller can write what it decided.
LEMMA RowOutdatesCallers ==
    ASSUME MaxResets = 0, IInv, TimesInv, NEW a \in Actors,
           UNCHANGED <<artifacts, minted, clock>>,
           row' \in Row, row.exists => row'.revision > row.revision,
           call' = [call EXCEPT ![a] = call'[a]], Quiet(call'[a])
    PROVE  Callers'
<1>1. \A b \in Actors \ {a} : call'[b] = call[b]
  BY ActorFacts
<1>2. ASSUME NEW b \in Actors, b # a
      PROVE  Stamped(call[b])'
  <2>1. Stamped(call[b]) /\ call'[b] = call[b]
    BY <1>1, <1>2, ActorStamped
  <2>2. ASSUME call[b].step = "write"
        PROVE  ~(row'.exists /\ row'.revision = call[b].view.revision)
    <3>1. call[b].view.exists /\ call[b].life = resets
      BY <2>2, ActorFacts DEF CallOK
    <3>2. row.exists /\ call[b].view.revision <= row.revision
      BY <3>1, ActorFacts DEF Fenced
    <3>3. /\ call[b].view.revision \in Nat /\ row.revision \in Nat
          /\ row'.revision \in Nat
      BY ActorFacts DEF Row
    <3> QED
      BY <3>2, <3>3
  <2> QED
    BY <2>1, <2>2 DEF Stamped, Waits, Current
<1>3. Stamped(call[a])'
  BY DEF Quiet, Stamped, Waits, Dated
<1>4. \A b, c \in Actors :
        b # c /\ call'[b].step = "put" /\ call'[c].step = "put" =>
          call'[b].art # call'[c].art
  BY <1>1 DEF TimesInv, Callers, Quiet
<1> QED
  BY <1>2, <1>3, <1>4 DEF Callers

\* What is shown next is recorded with its time; a launch waited for it.
LEMMA ShowsNext ==
    ASSUME IInv, TimesInv, UNCHANGED <<artifacts, clock>>,
           NEW x \in DOMAIN artifacts, NEW by \in Request,
           NEW t \in Nat \ {0}, t <= clock, clock - t <= Stall,
           row'.active = x, row'.since = t, Shows(x, t, by),
           shown # << >> /\ by.launch /\ ~by.force =>
             LET e == shown[Len(shown)] IN
             \/ clock - e.now >= MinAge - Stall
             \/ ~Servable(e.art, clock)
             \/ e.now - artifacts[e.art].created < Stall
    PROVE  Timeline' /\ LaunchesWait' /\ Len(shown') > Len(shown)
<1> DEFINE n == Len(shown)
<1>1. shown \in Seq(Shown) /\ DOMAIN artifacts \subseteq ArtifactIds /\ clock \in Nat
  BY DEF IInv, History, FeedTypeOK
<1>2. [art |-> x, at |-> t, now |-> clock, by |-> by] \in Shown
  BY <1>1 DEF Shown
<1>3. /\ DOMAIN shown = 1..n /\ n \in Nat /\ shown' \in Seq(Shown)
      /\ DOMAIN shown' = 1..(n + 1) /\ Len(shown') = n + 1
      /\ \A i \in 1..n : shown'[i] = shown[i]
      /\ shown'[n + 1] = [art |-> x, at |-> t, now |-> clock, by |-> by]
  BY <1>1, <1>2, AppendProperties, LenProperties DEF Shows
<1> HIDE DEF n
<1>4. Timeline'
  <2>1. \A i \in DOMAIN shown' : shown'[i].art \in DOMAIN artifacts'
    BY <1>3 DEF TimesInv, Timeline
  <2>2. LET e == shown'[Len(shown')] IN
        /\ e.at = row'.since /\ row'.since > 0 /\ row'.active = e.art
        /\ e.now - e.at <= Stall /\ e.now <= clock
    BY <1>1, <1>3
  <2> QED
    BY <2>1, <2>2 DEF Timeline
<1>5. ASSUME NEW i \in DOMAIN shown', i > 1, shown'[i].by.launch, ~shown'[i].by.force
      PROVE  \/ shown'[i].now - shown'[i - 1].now >= MinAge - Stall
             \/ ~Servable(shown'[i - 1].art, shown'[i].now)
             \/ shown'[i - 1].now - artifacts[shown'[i - 1].art].created < Stall
  <2>1. CASE i = n + 1
    <3>1. n \in 1..n /\ n # 0 /\ i - 1 = n
      BY <1>3, <1>5, <2>1
    <3>2. shown # << >>
      BY <1>1, <3>1, EmptySeq DEF n
    <3> QED
      BY <1>3, <1>5, <2>1, <3>1, <3>2 DEF n
  <2>2. CASE i \in 1..n
    <3>1. i - 1 \in 1..n
      BY <1>3, <1>5, <2>2
    <3>2. shown'[i] = shown[i] /\ shown'[i - 1] = shown[i - 1]
      BY <1>3, <2>2, <3>1
    <3> QED
      BY <1>3, <1>5, <2>2, <3>2 DEF TimesInv, LaunchesWait
  <2>3. i \in 1..(n + 1)
    BY <1>3
  <2>4. i = n + 1 \/ i \in 1..n
    BY <1>3, <2>3
  <2> QED
    BY <2>1, <2>2, <2>4
<1>6. LaunchesWait'
  BY <1>5 DEF LaunchesWait, Servable
<1> QED
  BY <1>3, <1>4, <1>6 DEF n

LEMMA QueueHead ==
    ASSUME NEW s \in Seq(ArtifactIds), s # << >>
    PROVE  Members(s) = {Head(s)} \cup Members(Tail(s))
<1> DEFINE t == Tail(s)
<1>1. /\ t \in Seq(ArtifactIds) /\ Len(t) = Len(s) - 1
      /\ \A i \in 1..Len(t) : t[i] = s[i + 1]
  BY HeadTailProperties
<1>2. /\ DOMAIN s = 1..Len(s) /\ Len(s) \in Nat \ {0} /\ DOMAIN t = 1..Len(t)
      /\ Head(s) = s[1] /\ Len(t) \in Nat
  BY <1>1, LenProperties, EmptySeq
<1> HIDE DEF t
<1>3. \A i \in DOMAIN t : i + 1 \in DOMAIN s /\ t[i] = s[i + 1]
  BY <1>1, <1>2
<1>4. \A i \in DOMAIN s : i # 1 => i - 1 \in DOMAIN t /\ s[i] = t[i - 1]
  <2>1. \A i \in 1..Len(s) : i # 1 => i - 1 \in 1..Len(t) /\ (i - 1) + 1 = i
    BY <1>1, <1>2
  <2> QED
    BY <1>1, <1>2, <2>1
<1>5. 1 \in DOMAIN s
  BY <1>2
<1>6. ASSUME NEW x \in Members(s)
      PROVE  x \in {Head(s)} \cup Members(t)
  <2>1. PICK i \in DOMAIN s : x = s[i]
    BY DEF Members
  <2> QED
    BY <1>2, <1>4, <2>1 DEF Members
<1>7. Members(t) \subseteq Members(s) /\ Head(s) \in Members(s)
  BY <1>2, <1>3, <1>5 DEF Members
<1> QED
  BY <1>6, <1>7 DEF t

LEMMA CreateTimes ==
    ASSUME MaxResets = 0, IInv, TimesInv, NEW a \in Actors, Create(a)
    PROVE  TimesInv' /\ Leaves
<1>1. /\ UNCHANGED <<artifacts, minted, clock, shown>>
      /\ call' = [call EXCEPT ![a] = call'[a]] /\ Quiet(call'[a])
  BY ActorStamped, QuietLeaves DEF Create
<1>2. CASE row.exists
  <2>1. row' = row
    BY <1>2 DEF Create
  <2> QED
    BY <1>1, <2>1, QuietStamped, CallerSteps, SameRowLeaves
<1>3. CASE ~row.exists
  <2>1. row = AbsentRow /\ row' = FreshRow /\ shown = << >>
    BY <1>3 DEF Create, IInv, FeedTypeOK, History
  <2>2. Queued(row') = Queued(row)
    BY <2>1 DEF FreshRow, AbsentRow, Queued
  <2>3. Stock'
    BY <1>1, <2>2 DEF TimesInv, Stock
  <2>4. Callers'
    BY <1>1, <1>3, <2>1, ConstantRows, RowOutdatesCallers
  <2>5. Timeline' /\ LaunchesWait'
    BY <1>1, <2>1 DEF TimesInv, Timeline, LaunchesWait, Servable
  <2> QED
    BY <2>2, <2>3, <2>4, <2>5 DEF TimesInv, Leaves
<1> QED
  BY <1>2, <1>3

\* The last artifact shown is a stored one.
LEMMA LastShown ==
    ASSUME IInv, TimesInv, shown # << >>
    PROVE  /\ Len(shown) \in DOMAIN shown
           /\ shown[Len(shown)] \in Shown
           /\ shown[Len(shown)].art \in DOMAIN artifacts
           /\ shown[Len(shown)].now \in Nat /\ shown[Len(shown)].at \in Nat
<1>1. /\ DOMAIN shown = 1..Len(shown) /\ Len(shown) \in Nat
      /\ shown \in Seq(Shown) /\ Len(shown) # 0
  BY LenProperties, EmptySeq DEF IInv, History
<1>2. Len(shown) \in DOMAIN shown
  BY <1>1
<1>3. shown[Len(shown)] \in Shown
  BY <1>1, <1>2, ElementOfSeq
<1> QED
  BY <1>2, <1>3 DEF TimesInv, Timeline, Shown

\* The write of a reconciliation drops what has expired or is too new for it.
LEMMA WriteTimes ==
    ASSUME MaxResets = 0, IInv, TimesInv, NEW a \in Actors, Write(a)
    PROVE  TimesInv' /\ Leaves
<1> DEFINE v == call[a].view
<1>1. /\ UNCHANGED <<artifacts, minted, clock, shown>>
      /\ call' = [call EXCEPT ![a] = call'[a]] /\ Quiet(call'[a])
      /\ call[a].step = "write" /\ Current(v) /\ row' = Rewritten(v)
  BY ActorStamped, QuietLeaves DEF Write
<1>2. /\ row \in Row /\ QueueSoundRow(row) /\ v.exists /\ call[a].life = resets
      /\ row.exists /\ row.revision = v.revision
  BY <1>1, ActorFacts DEF Current, CallOK
<1>3. /\ Spoiled(v, call[a].at) /\ call[a].at \in Nat
      /\ clock - call[a].at <= Stall
  BY <1>1, ActorStamped DEF Stamped
<1>4. Prunes(v, row)
  BY <1>1, <1>2, ActorFacts DEF Fenced, Agrees
<1>5. IInv'
  BY <1>1, WriteStep
<1>6. /\ row' \in Row /\ row'.active = v.active /\ row'.ready = v.ready
      /\ row'.revision = row.revision + 1 /\ row'.since = row.since
  <2>1. row' \in Row
    BY <1>5 DEF IInv, FeedTypeOK
  <2> HIDE DEF v
  <2> QED
    BY <1>1, <1>2, <2>1 DEF Rewritten, Row
<1>7. v.active \in {row.active, None} /\ Members(v.ready) \subseteq Members(row.ready)
  BY <1>4 DEF Prunes, Feed!Subsequence, Members
<1>8. Queued(row') = Queued(v) /\ Queued(v) \subseteq Queued(row)
  BY <1>6, <1>7 DEF Queued
<1>9. row.active # None /\ v.active = None =>
        \/ ~Servable(row.active, clock)
        \/ clock - artifacts[row.active].created < Stall
  <2>1. ASSUME row.active # None, v.active = None
        PROVE  row.active \in Queued(row) \ Queued(v)
    BY <1>2, <1>7, <2>1 DEF Queued, QueueSoundRow
  <2>2. ASSUME NEW x \in Queued(row), artifacts[x].created > call[a].at
        PROVE  /\ clock - artifacts[x].created < Stall
               /\ artifacts[x].created > clock - Stall
    <3>1. artifacts[x].created \in Nat /\ clock \in Nat
      BY DEF TimesInv, Stock
    <3> QED
      BY <1>3, <2>2, <3>1, AgeAssumption
  <2> QED
    BY <1>3, <2>1, <2>2 DEF Spoiled
<1> HIDE DEF v
<1>10. Stock'
  BY <1>1, <1>8 DEF TimesInv, Stock
<1>11. Callers'
  <2>1. row.revision \in Nat
    BY <1>2 DEF Row
  <2>2. row'.revision > row.revision
    BY <1>6, <2>1
  <2> QED
    BY <1>1, <1>6, <2>2, RowOutdatesCallers
<1>12. Timeline'
  <2>1. shown # << >> =>
          LET e == shown[Len(shown)] IN
          \/ row'.active = e.art
          \/ /\ row'.active = None
             /\ \/ ~Servable(e.art, clock)
                \/ e.now - artifacts[e.art].created < Stall
    <3> SUFFICES ASSUME shown # << >>
                 PROVE  LET e == shown[Len(shown)] IN
                        \/ row'.active = e.art
                        \/ /\ row'.active = None
                           /\ \/ ~Servable(e.art, clock)
                              \/ e.now - artifacts[e.art].created < Stall
      OBVIOUS
    <3> DEFINE e == shown[Len(shown)]
    <3>1. /\ e.now <= clock /\ e.now \in Nat /\ clock \in Nat
          /\ e.art \in DOMAIN artifacts
          /\ artifacts[e.art].created \in Nat
          /\ \/ row.active = e.art
             \/ /\ row.active = None
                /\ \/ ~Servable(e.art, clock)
                   \/ e.now - artifacts[e.art].created < Stall
      BY LastShown DEF TimesInv, Stock, Timeline
    <3> HIDE DEF e
    <3>2. clock - artifacts[e.art].created < Stall =>
            e.now - artifacts[e.art].created < Stall
      BY <3>1, AgeAssumption
    <3> QED
      BY <1>6, <1>7, <1>9, <3>1, <3>2 DEF e
  <2> QED
    BY <1>1, <1>6, <2>1 DEF TimesInv, Timeline, Servable
<1>13. LaunchesWait'
  BY <1>1 DEF TimesInv, LaunchesWait, Servable
<1>14. Leaves
  <2>1. \A x \in Queued(row) :
          artifacts[x].created \in Nat /\ clock \in Nat
    BY DEF TimesInv, Stock
  <2>2. \A x \in Queued(row) :
          artifacts[x].created > call[a].at => artifacts[x].created > clock - Stall
    BY <1>3, <2>1, AgeAssumption
  <2> QED
    BY <1>3, <1>8, <2>2 DEF Leaves, LeavesInTime, Spoiled
<1> QED
  BY <1>10, <1>11, <1>12, <1>13, <1>14 DEF TimesInv

\* A launch is promoted only when the feed on screen has had its time.
LEMMA PromoteTimes ==
    ASSUME MaxResets = 0, IInv, TimesInv, NEW a \in Actors, NEW d,
           NEW next \in {"settle", "poll"}, next = "poll" => call[a].req.force,
           call[a].req.launch /\ ~call[a].req.force => d.age = MinAge,
           call[a].step \in Dated, Promote(a, d, next), UNCHANGED <<artifacts, minted, clock>>, IInv'
    PROVE  TimesInv' /\ Leaves
<1>1. CASE (Again(a, next) \/ Finished(a)) /\ UNCHANGED <<row, shown>>
  <2>1. CASE Again(a, next)
    <3>1. next \in Tasks
      BY DEF Tasks
    <3> QED
      BY <1>1, <2>1, <3>1, AgainStamped, CallerSteps, SameRowLeaves DEF TimesInv
  <2>2. CASE Finished(a)
    BY <1>1, <2>2, ActorStamped, QuietLeaves, QuietStamped, CallerSteps,
       SameRowLeaves
  <2> QED
    BY <1>1, <2>1, <2>2
<1>2. CASE Answer(a, row) /\ UNCHANGED <<row, shown>>
  BY <1>2, AnswerTimes, SameRowLeaves
<1>3. ASSUME NEW t \in Stamps(a),
             Current(call[a].view), ~Declined(d, t), row' = Promoted(d, t),
             Shows(row'.active, t, call[a].req), Finished(a)
      PROVE  TimesInv' /\ Leaves
  <2> DEFINE x == Head(row.ready)
             req == call[a].req
  <2>0. t \in Nat \ {0} /\ t <= clock /\ clock - t <= Stall
    BY ActorStamps
  <2>1. /\ row.ready # << >> /\ row.ready \in Seq(ArtifactIds)
        /\ row.revision \in Nat /\ row.since \in Nat
        /\ row.active # None /\ row.since > 0 => ~(t - row.since < d.age)
    BY <1>3, ActorFacts DEF Declined, Row
  <2>2. /\ row'.active = x /\ row'.ready = Tail(row.ready) /\ row'.since = t
        /\ row'.revision = row.revision + 1
    BY <1>3, ActorFacts DEF Promoted, Row
  <2>3. Members(row.ready) = {x} \cup Members(row'.ready)
    BY <2>1, <2>2, QueueHead
  <2>4. Queued(row') \subseteq Queued(row) /\ x \in Queued(row)
    BY <2>2, <2>3 DEF Queued
  <2>5. Queued(row) \ Queued(row') \subseteq {row.active}
    <3>1. x # None
      <4>1. x \in ArtifactIds
        BY <2>1, HeadTailProperties
      <4> QED
        BY <4>1 DEF ArtifactIds, None
    <3> QED
      BY <2>2, <2>3, <3>1 DEF Queued
  <2> HIDE DEF x
  <2>6. x \in DOMAIN artifacts /\ req \in Request /\ clock \in Nat
    BY <2>4, ActorFacts DEF TimesInv, Stock, Call
  <2>7. Shows(x, t, req)
    BY <1>3, <2>2
  <2>8. ASSUME shown # << >>, req.launch, ~req.force
        PROVE  LET e == shown[Len(shown)] IN
               \/ clock - e.now >= MinAge - Stall
               \/ ~Servable(e.art, clock)
               \/ e.now - artifacts[e.art].created < Stall
    <3> DEFINE e == shown[Len(shown)]
    <3>1. /\ e.art \in DOMAIN artifacts /\ e.now \in Nat /\ e.at \in Nat
          /\ e.at = row.since /\ row.since > 0 /\ e.now - e.at <= Stall
          /\ \/ row.active = e.art
             \/ ~Servable(e.art, clock)
             \/ e.now - artifacts[e.art].created < Stall
      BY <2>8, LastShown DEF TimesInv, Timeline
    <3>2. None \notin DOMAIN artifacts
      BY DEF IInv, FeedTypeOK, ArtifactIds, None
    <3> HIDE DEF e
    <3>3. ASSUME row.active = e.art
          PROVE  clock - e.now >= MinAge - Stall
      <4>1. d.age = MinAge /\ MinAge \in Nat /\ Stall \in Nat
        BY <2>8, AgeAssumption
      <4>2. ~(t - row.since < MinAge)
        BY <2>1, <3>1, <3>2, <3>3, <4>1
      <4> QED
        BY <2>0, <2>6, <3>1, <4>1, <4>2
    <3> QED
      BY <3>1, <3>3 DEF e
  <2>9. Timeline' /\ LaunchesWait' /\ Len(shown') > Len(shown)
    <3> HIDE DEF req
    <3> QED
      BY <2>0, <2>2, <2>6, <2>7, <2>8, ShowsNext
  <2>10. Stock'
    BY <2>4 DEF TimesInv, Stock
  <2>11. Callers'
    <3>1. call' = [call EXCEPT ![a] = call'[a]] /\ Quiet(call'[a])
      BY <1>3, ActorStamped, QuietLeaves
    <3>2. row' \in Row
      BY DEF IInv, FeedTypeOK
    <3>3. row'.revision > row.revision
      BY <2>1, <2>2
    <3> QED
      BY <3>1, <3>2, <3>3, RowOutdatesCallers
  <2>12. Leaves
    BY <2>5, <2>9 DEF Leaves, LeavesInTime
  <2> QED
    BY <2>9, <2>10, <2>11, <2>12 DEF TimesInv
<1> QED
  BY <1>1, <1>2, <1>3 DEF Promote

LEMMA DecideTimes ==
    ASSUME MaxResets = 0, IInv, TimesInv, NEW a \in Actors, Decide(a)
    PROVE  TimesInv' /\ Leaves
<1> DEFINE req == call[a].req
           v == call[a].view
<1>1. UNCHANGED <<artifacts, minted, clock>> /\ IInv'
  BY DecideStep DEF Decide
<1>2. ASSUME NEW d \in Demands(req, v), Promote(a, d, "settle")
      PROVE  TimesInv' /\ Leaves
  <2>1. req.launch /\ ~req.force => d.age = MinAge
    BY <1>2 DEF Demands, Demand
  <2>2. call[a].step \in Dated
    BY DEF Decide, Dated
  <2> QED
    BY <1>1, <1>2, <2>1, <2>2, PromoteTimes
<1>3. CASE (Finished(a) \/ Answer(a, v)) /\ UNCHANGED <<row, shown>>
  <2>1. CASE Finished(a)
    BY <1>1, <1>3, <2>1, ActorStamped, QuietLeaves, QuietStamped, CallerSteps,
       SameRowLeaves
  <2>2. CASE Answer(a, v)
    BY <1>1, <1>3, <2>2, AnswerTimes, SameRowLeaves
  <2> QED
    BY <1>3, <2>1, <2>2
<1> QED
  BY <1>2, <1>3 DEF Decide

\* Only a forced request waits, so the wait may promote at any age.
LEMMA PollTimes ==
    ASSUME MaxResets = 0, IInv, TimesInv, NEW a \in Actors, Poll(a)
    PROVE  TimesInv' /\ Leaves
<1>1. /\ UNCHANGED <<artifacts, minted, clock>> /\ IInv'
      /\ call[a].req.force /\ "poll" \in Tasks /\ call[a].step \in Dated
  BY PollStep, ActorStamped DEF Poll, Waits, Tasks, Dated
<1>2. CASE Again(a, "poll") /\ UNCHANGED <<row, shown>>
  BY <1>1, <1>2, AgainStamped, CallerSteps, SameRowLeaves DEF TimesInv
<1>3. CASE Finished(a) /\ UNCHANGED <<row, shown>>
  BY <1>1, <1>3, ActorStamped, QuietLeaves, QuietStamped, CallerSteps,
     SameRowLeaves
<1>4. CASE Promote(a, Demand(NoToken, 0, NoBaseline), "poll")
  BY <1>1, <1>4, PromoteTimes
<1> QED
  BY <1>2, <1>3, <1>4 DEF Poll

-----------------------------------------------------------------------------
(* The composer. *)

LEMMA ComposeTimes ==
    ASSUME IInv, TimesInv, NEW a \in Actors, Compose(a)
    PROVE  TimesInv'
<1>0. UNCHANGED <<row, artifacts, clock, shown>> /\ call[a].step = "compose"
  BY DEF Compose
<1>1. CASE (\E how \in {"finish", "again"} : Ends(a, how)) /\ UNCHANGED minted
  BY <1>0, <1>1, ActorStamped, QuietLeaves, QuietStamped, CallerSteps
<1>2. ASSUME NEW x, UNCHANGED minted,
             call' = [call EXCEPT ![a].step = "attach", ![a].art = x,
                                  ![a].at = clock]
      PROVE  TimesInv'
  <2>1. /\ call' = [call EXCEPT ![a] = call'[a]]
        /\ call'[a].step = "attach" /\ call'[a].task = call[a].task
        /\ call'[a].req = call[a].req /\ call'[a].at = clock
    BY <1>2, ActorFacts DEF Call
  <2>2. Quiet(call'[a])
    BY <1>0, <2>1, ActorStamped DEF Quiet, Waits, TimesInv, Stock
  <2> QED
    BY <1>0, <1>2, <2>1, <2>2, QuietStamped, CallerSteps
<1>3. ASSUME NEW p, minted' = minted + 1,
             call' = [call EXCEPT ![a].step = "put", ![a].pair = p,
                                  ![a].art = minted', ![a].at = clock]
      PROVE  TimesInv'
  <2>1. /\ \A b \in Actors \ {a} : call'[b] = call[b]
        /\ call'[a].step = "put" /\ call'[a].task = call[a].task
        /\ call'[a].req = call[a].req
        /\ call'[a].art = minted + 1 /\ call'[a].at = clock
    BY <1>3, ActorFacts DEF Call
  <2>2. /\ minted \in Nat /\ clock \in Nat /\ DOMAIN artifacts \subseteq 1..minted
    BY DEF TimesInv, Stock
  <2>3. /\ minted + 1 \notin 1..minted /\ minted + 1 \in 1..(minted + 1)
        /\ 1..minted \subseteq 1..(minted + 1)
        /\ minted' \in Nat /\ clock <= clock
    BY <1>3, <2>2
  <2>4. Stock'
    BY <1>0, <1>3, <2>2, <2>3 DEF TimesInv, Stock, Queued, Members
  <2>5. Timeline' /\ LaunchesWait'
    BY <1>0 DEF TimesInv, Timeline, LaunchesWait, Servable
  <2>6. ASSUME NEW b \in Actors
        PROVE  Stamped(call[b])'
    <3>1. CASE b = a
      BY <1>0, <1>3, <2>1, <2>2, <2>3, <3>1, ActorStamped DEF Stamped, Waits, Dated
    <3>2. CASE b # a
      <4>1. Stamped(call[b]) /\ call'[b] = call[b]
        BY <2>1, <3>2, ActorStamped
      <4>2. Spoiled(call[b].view, call[b].at) => Spoiled(call[b].view, call[b].at)'
        BY <1>0, <4>1 DEF Spoiled, Servable, Promotable, Queued, Members
      <4>3. call[b].step = "put" => call[b].art \in 1..minted'
        BY <1>3, <2>3, <4>1 DEF Stamped
      <4> QED
        BY <1>0, <4>1, <4>2, <4>3 DEF Stamped, Waits, Current
    <3> QED
      BY <3>1, <3>2
  <2>7. ASSUME NEW b \in Actors, NEW c \in Actors, b # c,
               call'[b].step = "put", call'[c].step = "put"
        PROVE  call'[b].art # call'[c].art
    <3>1. \A e \in Actors \ {a} :
            call'[e].step = "put" => call'[e].art \in 1..minted
      BY <2>1, ActorStamped DEF Stamped
    <3>2. CASE b # a /\ c # a
      BY <2>1, <2>7, <3>2 DEF TimesInv, Callers
    <3> QED
      BY <2>1, <2>3, <2>7, <3>1, <3>2
  <2> QED
    BY <2>4, <2>5, <2>6, <2>7 DEF TimesInv, Callers
<1> QED
  BY <1>1, <1>2, <1>3 DEF Compose

\* A new artifact changes none that the row, or the history, already names.
LEMMA PutTimes ==
    ASSUME IInv, TimesInv, NEW a \in Actors, Put(a)
    PROVE  TimesInv'
<1> DEFINE c == call[a]
<1>0. UNCHANGED <<row, minted, clock, shown>> /\ c.step = "put"
  BY DEF Put
<1>1. CASE Ends(a, "again") /\ UNCHANGED artifacts
  BY <1>0, <1>1, ActorStamped, QuietLeaves, QuietStamped, CallerSteps
<1>2. ASSUME NEW x \in Of(c.pair, c.epoch), UNCHANGED artifacts,
             call' = [call EXCEPT ![a] = [Idle EXCEPT !.step = "read",
                        !.at = clock, !.task = "attach", !.art = x]]
      PROVE  TimesInv'
  <2> DEFINE e == [Idle EXCEPT !.step = "read", !.at = clock,
                               !.task = "attach", !.art = x]
  <2>1. e \in Call /\ e.step = "read" /\ e.at = clock /\ e.task # "poll"
    <3>1. x \in ArtifactIds
      BY DEF Of, IInv, FeedTypeOK
    <3>2. clock \in Nat /\ "read" \in Steps /\ "attach" \in Tasks
      BY ActorFacts DEF Steps, Tasks
    <3> QED
      BY <3>1, <3>2, IdleCall DEF Call
  <2>2. call' = [call EXCEPT ![a] = e]
    BY <1>2
  <2> HIDE DEF e
  <2> QED
    BY <1>0, <1>2, <2>1, <2>2, StartsTimes
<1>3. ASSUME artifacts' = [x \in DOMAIN artifacts \cup {c.art} |->
                             IF x = c.art
                             THEN [pair |-> c.pair, epoch |-> c.epoch,
                                   created |-> c.at]
                             ELSE artifacts[x]],
             call' = [call EXCEPT ![a].step = "commit", ![a].at = clock]
      PROVE  TimesInv'
  <2>1. /\ \A b \in Actors \ {a} : call'[b] = call[b]
        /\ call'[a].step = "commit" /\ call'[a].task = c.task
        /\ call'[a].req = c.req /\ call'[a].at = clock
    BY <1>3, ActorFacts DEF Call
  <2>2. /\ c.at \in Nat /\ c.at <= clock /\ c.art \in 1..minted
        /\ c.art \notin DOMAIN artifacts
    BY <1>0, ActorStamped DEF Stamped
  <2>3. /\ DOMAIN artifacts' = DOMAIN artifacts \cup {c.art}
        /\ \A x \in DOMAIN artifacts : artifacts'[x] = artifacts[x]
        /\ artifacts'[c.art].created = c.at
    BY <1>3, <2>2
  <2> HIDE DEF c
  <2>4. Stock'
    BY <1>0, <2>2, <2>3 DEF TimesInv, Stock, Queued, Members
  <2>5. Timeline'
    <3>1. shown # << >> => shown[Len(shown)].art \in DOMAIN artifacts
      BY LastShown
    <3> QED
      BY <1>0, <2>3, <3>1 DEF TimesInv, Timeline, Servable
  <2>6. LaunchesWait'
    <3>1. \A i \in DOMAIN shown : i > 1 => i - 1 \in DOMAIN shown
      <4>1. DOMAIN shown = 1..Len(shown) /\ Len(shown) \in Nat
        BY LenProperties DEF IInv, History
      <4>2. \A n \in Nat : \A i \in 1..n : i > 1 => i - 1 \in 1..n
        OBVIOUS
      <4> QED
        BY <4>1, <4>2
    <3>2. \A i \in DOMAIN shown : shown[i].art \in DOMAIN artifacts
      BY DEF TimesInv, Timeline
    <3>3. \A x \in DOMAIN artifacts : \A t :
            (x \in DOMAIN artifacts' /\ artifacts'[x].created <= t
              /\ t < artifacts'[x].created + ActiveTTL) => Servable(x, t)
      BY <2>3 DEF Servable
    <3>4. LaunchesWait
      BY DEF TimesInv
    <3> SUFFICES ASSUME NEW i \in DOMAIN shown, i > 1,
                        shown[i].by.launch, ~shown[i].by.force,
                        Servable(shown[i - 1].art, shown[i].now)'
                 PROVE  \/ shown[i].now - shown[i - 1].now >= MinAge - Stall
                        \/ shown[i - 1].now - artifacts'[shown[i - 1].art].created < Stall
      BY <1>0 DEF LaunchesWait
    <3>5. Servable(shown[i - 1].art, shown[i].now)
      BY <1>0, <3>1, <3>2, <3>3 DEF Servable
    <3>6. artifacts'[shown[i - 1].art] = artifacts[shown[i - 1].art]
      BY <2>3, <3>1, <3>2
    <3> QED
      BY <3>4, <3>5, <3>6 DEF LaunchesWait
  <2>7. ASSUME NEW b \in Actors
        PROVE  Stamped(call[b])'
    <3>1. CASE b = a
      BY <1>0, <2>1, <3>1, ActorStamped DEF Stamped, Waits, Dated, TimesInv, Stock, c
    <3>2. CASE b # a
      <4>1. Stamped(call[b]) /\ call'[b] = call[b]
        BY <2>1, <3>2, ActorStamped
      <4>2. call[b].step = "put" => call[b].art \notin DOMAIN artifacts'
        BY <1>0, <2>3, <3>2, <4>1 DEF TimesInv, Callers, Stamped, c
      <4>3. call[b].step = "write" /\ Current(call[b].view) => Spoiled(call[b].view, call[b].at)'
        <5>1. Queued(row) \subseteq DOMAIN artifacts
          BY DEF TimesInv, Stock
        <5>2. \A x \in DOMAIN artifacts :
                /\ Servable(x, clock) <=> Servable(x, clock)'
                /\ Promotable(x, clock) <=> Promotable(x, clock)'
          BY <1>0, <2>3 DEF Servable, Promotable
        <5>3. Queued(row)' = Queued(row) /\ Queued(call[b].view)' = Queued(call[b].view)
          BY <1>0, <4>1 DEF Queued, Members
        <5>4. \A x \in DOMAIN artifacts : artifacts'[x].created = artifacts[x].created
          BY <2>3
        <5>5. row' = row /\ clock' = clock /\ call'[b] = call[b]
          BY <1>0, <4>1
        <5> HIDE DEF c
        <5> QED
          BY <4>1, <5>1, <5>2, <5>3, <5>4, <5>5 DEF Stamped, Spoiled
      <4> QED
        BY <1>0, <4>1, <4>2, <4>3 DEF Stamped, Waits, Current
    <3> QED
      BY <3>1, <3>2
  <2>8. \A b, e \in Actors :
          b # e /\ call'[b].step = "put" /\ call'[e].step = "put" =>
            call'[b].art # call'[e].art
    BY <2>1 DEF TimesInv, Callers
  <2> QED
    BY <2>4, <2>5, <2>6, <2>7, <2>8 DEF TimesInv, Callers
<1> QED
  BY <1>1, <1>2, <1>3 DEF Put

LEMMA AttachTimes ==
    ASSUME MaxResets = 0, IInv, TimesInv, NEW a \in Actors, Attach(a)
    PROVE  TimesInv' /\ Leaves
<1> DEFINE x == call[a].art
           v == call[a].view
<1>1. UNCHANGED <<artifacts, minted, clock>> /\ IInv'
  BY AttachStep DEF Attach
<1>2. ASSUME NEW how \in {"finish", "again"}, Ends(a, how)
      PROVE  call' = [call EXCEPT ![a] = call'[a]] /\ Quiet(call'[a])
  BY <1>2, ActorStamped, QuietLeaves
<1>3. CASE (\E how \in {"finish", "again"} : Ends(a, how)) /\ UNCHANGED <<row, shown>>
  BY <1>1, <1>2, <1>3, QuietStamped, CallerSteps, SameRowLeaves
<1>4. /\ row.revision \in Nat /\ row.ready \in Seq(ArtifactIds)
      /\ row' \in Row /\ row.active \in ArtifactIds \cup {None}
  BY <1>1, ActorFacts DEF IInv, FeedTypeOK, Row
<1>5. ASSUME NEW t \in Stamps(a),
             Initializes(x, v, t), row' = Initialized(x, t),
             Shows(x, t, NoRequest), Ends(a, "finish")
      PROVE  TimesInv' /\ Leaves
  <2>0. t \in Nat \ {0} /\ t <= clock /\ clock - t <= Stall
    <3>1. call[a].step \in Dated
      BY DEF Attach, Dated
    <3> QED
      BY <3>1, ActorStamps
  <2>1. x \in DOMAIN artifacts /\ row.active = None
    BY <1>5 DEF Initializes, Servable
  <2> HIDE DEF x
  <2>2. /\ row'.active = x /\ row'.ready = row.ready /\ row'.since = t
        /\ row'.revision = row.revision + 1
    BY <1>5, ActorFacts DEF Initialized, Row
  <2>3. NoRequest \in Request /\ ~NoRequest.launch
    BY DEF NoRequest, Request, NoBaseline
  <2>4. Timeline' /\ LaunchesWait'
    BY <1>1, <1>5, <2>0, <2>1, <2>2, <2>3, ShowsNext
  <2>5. Queued(row') = Queued(row) \cup ({x} \ {None})
    BY <2>1, <2>2 DEF Queued
  <2>6. Stock'
    BY <1>1, <2>1, <2>5 DEF TimesInv, Stock
  <2>7. Callers'
    <3>1. row'.revision > row.revision
      BY <1>4, <2>2
    <3> QED
      BY <1>1, <1>2, <1>4, <1>5, <3>1, RowOutdatesCallers
  <2>8. Leaves
    BY <2>5 DEF Leaves
  <2> QED
    BY <2>4, <2>6, <2>7, <2>8 DEF TimesInv
<1>6. ASSUME NEW t \in Stamps(a),
             Appends(x, v, t), row' = Appended(x), Ends(a, "finish"),
             UNCHANGED shown
      PROVE  TimesInv' /\ Leaves
  <2>1. x \in DOMAIN artifacts
    BY <1>6 DEF Appends, Appendable, Promotable, Servable
  <2> HIDE DEF x
  <2>2. /\ row'.active = row.active /\ row'.ready = Append(row.ready, x)
        /\ row'.since = row.since /\ row'.revision = row.revision + 1
    BY <1>6, ActorFacts DEF Appended, Row
  <2>3. Members(row'.ready) = Members(row.ready) \cup {x}
    <3>1. /\ DOMAIN row.ready = 1..Len(row.ready) /\ Len(row.ready) \in Nat
          /\ DOMAIN row'.ready = 1..(Len(row.ready) + 1)
          /\ \A i \in 1..Len(row.ready) : row'.ready[i] = row.ready[i]
          /\ row'.ready[Len(row.ready) + 1] = x
      <4>1. x \in ArtifactIds
        BY <2>1 DEF IInv, FeedTypeOK
      <4> QED
        BY <1>4, <2>2, <4>1, AppendProperties, LenProperties
    <3>2. \A n \in Nat : 1..(n + 1) = 1..n \cup {n + 1}
      OBVIOUS
    <3>3. DOMAIN row'.ready = DOMAIN row.ready \cup {Len(row.ready) + 1}
      BY <3>1, <3>2
    <3> QED
      BY <3>1, <3>3 DEF Members
  <2>4. Queued(row') = Queued(row) \cup {x}
    BY <2>2, <2>3 DEF Queued
  <2>5. Stock'
    BY <1>1, <2>1, <2>4 DEF TimesInv, Stock
  <2>6. Callers'
    <3>1. row'.revision > row.revision
      BY <1>4, <2>2
    <3> QED
      BY <1>1, <1>2, <1>4, <1>6, <3>1, RowOutdatesCallers
  <2>7. Timeline' /\ LaunchesWait'
    BY <1>1, <1>6, <2>2 DEF TimesInv, Timeline, LaunchesWait, Servable
  <2>8. Leaves
    BY <2>4 DEF Leaves
  <2> QED
    BY <2>5, <2>6, <2>7, <2>8 DEF TimesInv
<1> QED
  BY <1>3, <1>5, <1>6 DEF Attach

-----------------------------------------------------------------------------
(* Time, the rest, and the induction. *)

\* A reconciliation under way is younger than Stall when time passes, and what
\* it found past its time still is.
LEMMA TickTimes ==
    ASSUME IInv, TimesInv, Tick
    PROVE  TimesInv'
<1>1. /\ UNCHANGED <<row, artifacts, minted, call, shown>>
      /\ clock' = clock + 1 /\ clock \in Nat
  BY DEF Tick, TimesInv, Stock
<1>2. ASSUME NEW x \in DOMAIN artifacts
      PROVE  /\ ~Servable(x, clock) => ~Servable(x, clock)'
             /\ ~Promotable(x, clock) => ~Promotable(x, clock)'
  <2>1. artifacts[x].created \in Nat /\ artifacts[x].created <= clock
    BY DEF TimesInv, Stock
  <2> QED
    BY <1>1, <2>1, AgeAssumption DEF Servable, Promotable
<1>3. Stock'
  BY <1>1 DEF TimesInv, Stock, Queued, Members
<1>4. Callers'
  <2>1. ASSUME NEW a \in Actors
        PROVE  Stamped(call[a])'
    <3> DEFINE c == call[a]
    <3>1. Stamped(c) /\ call'[a] = c
      BY <1>1, ActorStamped
    <3>2. c.step \in {"read", "write"} => clock - c.at < Stall
      BY DEF Tick
    <3> HIDE DEF c
    <3>3. c.step \in {"read", "write"} =>
            c.at \in Nat /\ c.at <= clock' /\ clock' - c.at <= Stall
      BY <1>1, <3>1, <3>2, AgeAssumption DEF Stamped
    <3>4. Spoiled(c.view, c.at) => (Spoiled(c.view, c.at))'
      <4>1. Queued(row) \subseteq DOMAIN artifacts
        BY DEF TimesInv, Stock
      <4>2. c' = c
        BY <1>1 DEF c
      <4> QED
        BY <1>1, <1>2, <4>1, <4>2 DEF Spoiled, Queued, Members
    <3>5. c.step = "put" => c.at \in Nat /\ c.at <= clock'
      BY <1>1, <3>1 DEF Stamped
    <3> QED
      BY <1>1, <3>1, <3>3, <3>4, <3>5 DEF Stamped, Waits, Current, c
  <2> QED
    BY <1>1, <2>1 DEF TimesInv, Callers
<1>5. Timeline'
  <2>1. shown # << >> =>
          /\ shown[Len(shown)].art \in DOMAIN artifacts
          /\ shown[Len(shown)].now \in Nat
    BY LastShown
  <2> QED
    BY <1>1, <1>2, <2>1 DEF TimesInv, Timeline
<1>6. LaunchesWait'
  BY <1>1 DEF TimesInv, LaunchesWait, Servable
<1> QED
  BY <1>3, <1>4, <1>5, <1>6 DEF TimesInv

LEMMA SameTimes ==
    ASSUME TimesInv, UNCHANGED <<row, artifacts, minted, call, clock, shown>>
    PROVE  TimesInv'
<1>1. Stock' /\ Timeline' /\ LaunchesWait'
  BY DEF TimesInv, Stock, Timeline, LaunchesWait, Servable, Queued, Members
<1>2. Callers'
  BY DEF TimesInv, Callers, Stamped, Waits, Spoiled, Current, Servable,
         Promotable, Queued, Members
<1> QED
  BY <1>1, <1>2 DEF TimesInv

LEMMA InitTimes == Init => TimesInv
<1> SUFFICES ASSUME Init
             PROVE  TimesInv
  OBVIOUS
<1>1. /\ row = AbsentRow /\ artifacts = << >> /\ minted = 0
      /\ call = [a \in Actors |-> Idle] /\ clock = 1 /\ shown = << >>
  BY DEF Init
<1>2. DOMAIN artifacts = {} /\ DOMAIN shown = {}
  BY <1>1
<1>3. Queued(row) = {}
  BY <1>1 DEF AbsentRow, Queued, Members
<1>4. Stamped(Idle) /\ Idle.step # "put"
  <2>1. Idle.step = "idle" /\ Idle.task = "none"
    BY DEF Idle
  <2> QED
    BY <2>1 DEF Stamped, Waits, Dated
<1>5. Callers
  BY <1>1, <1>4 DEF Callers
<1> QED
  BY <1>1, <1>2, <1>3, <1>5 DEF TimesInv, Stock, Timeline, LaunchesWait

LEMMA NextTimes ==
    ASSUME MaxResets = 0, IInv, TimesInv, [Next]_vars
    PROVE  TimesInv' /\ Leaves
<1>1. ASSUME NEW a \in Actors, Reconciling(a)
      PROVE  TimesInv' /\ Leaves
  <2>1. CASE Read(a) \/ Reread(a) \/ WriteLost(a)
    <3>1. row' = row
      BY <2>1 DEF Read, Reread, WriteLost
    <3> QED
      BY <2>1, <3>1, ReadTimes, RereadTimes, WriteLostTimes, SameRowLeaves
  <2>2. CASE Create(a) \/ Write(a)
    BY <2>2, CreateTimes, WriteTimes
  <2> QED
    BY <1>1, <2>1, <2>2 DEF Reconciling
<1>2. ASSUME NEW a \in Actors, Serving(a)
      PROVE  TimesInv' /\ Leaves
  <2>1. CASE Recommend(a)
    <3>1. row' = row
      BY <2>1 DEF Recommend
    <3> QED
      BY <2>1, <3>1, RecommendTimes, SameRowLeaves
  <2>2. CASE Settle(a)
    <3>1. /\ Answer(a, call[a].view) /\ row' = row
          /\ UNCHANGED <<row, artifacts, minted, clock, shown>>
      BY <2>2 DEF Settle
    <3> QED
      BY <3>1, AnswerTimes, SameRowLeaves
  <2>3. CASE Decide(a) \/ Poll(a)
    BY <2>3, DecideTimes, PollTimes
  <2> QED
    BY <1>2, <2>1, <2>2, <2>3 DEF Serving
<1>3. ASSUME NEW a \in Actors, Slotting(a)
      PROVE  TimesInv' /\ Leaves
  <2>1. row' = row
    BY <1>3 DEF Slotting, PlanSlot, Plan, EnqueueSlot, ClaimSlot, Guard,
                Complete, Retry
  <2> QED
    BY <1>3, <2>1, SlotTimes, SameRowLeaves
<1>4. ASSUME NEW a \in Actors, Composing(a)
      PROVE  TimesInv' /\ Leaves
  <2>1. CASE Compose(a) \/ Put(a)
    <3>1. row' = row
      BY <2>1 DEF Compose, Put
    <3> QED
      BY <2>1, <3>1, ComposeTimes, PutTimes, SameRowLeaves
  <2>2. CASE Attach(a)
    BY <2>2, AttachTimes
  <2> QED
    BY <1>4, <2>1, <2>2 DEF Composing
<1>5. ASSUME NEW a \in Actors, Crash(a)
      PROVE  TimesInv' /\ Leaves
  <2>1. /\ Finished(a) /\ row' = row
        /\ UNCHANGED <<row, artifacts, minted, clock, shown>>
    BY <1>5 DEF Crash
  <2> QED
    BY <2>1, ActorStamped, QuietLeaves, QuietStamped, CallerSteps, SameRowLeaves
<1>6. CASE LeaseExpires \/ NewSupply \/ UNCHANGED vars
  <2>1. UNCHANGED <<row, artifacts, minted, call, clock, shown>> /\ row' = row
    BY <1>6 DEF LeaseExpires, NewSupply, vars
  <2> QED
    BY <2>1, SameTimes, SameRowLeaves
<1>7. CASE Tick
  <2>1. row' = row
    BY <1>7 DEF Tick
  <2> QED
    BY <1>7, <2>1, TickTimes, SameRowLeaves
<1>8. CASE DeleteScope
  BY <1>8, DeleteScopeStep
<1> QED
  BY <1>1, <1>2, <1>3, <1>4, <1>5, <1>6, <1>7, <1>8 DEF Next

\* What is dropped is past its time, or newer than what drops it.
THEOREM TimesInvariance ==
    ASSUME MaxResets = 0
    PROVE  Spec => [](IInv /\ TimesInv)
<1>1. Init => IInv /\ TimesInv
  BY InitIInv, InitTimes
<1>2. IInv /\ TimesInv /\ [Next]_vars => (IInv /\ TimesInv)'
  BY NextIInv, NextTimes
<1> QED
  BY <1>1, <1>2, PTL DEF Spec

\* promote_ready leaves an active feed for its minimum age when a launch asks,
\* however promotions, compositions, late reconciliations and expiry
\* interleave; the exceptions are those LaunchesWait names.
THEOREM LaunchLeavesYoungFeed ==
    ASSUME MaxResets = 0
    PROVE  Spec => []LaunchesWait
<1>1. IInv /\ TimesInv => LaunchesWait
  BY DEF TimesInv
<1> QED
  BY <1>1, TimesInvariance, PTL

\* reconcile drops only what has expired or was composed less than Stall ticks
\* ago, and promote_ready only the artifact that was on screen.
THEOREM NothingSettledDropped ==
    ASSUME MaxResets = 0
    PROVE  Spec => OnlyExpiredOrNewLeave
<1>1. IInv /\ TimesInv /\ [Next]_vars =>
        [\A x \in Queued(row) \ Queued(row') :
          LeavesInTime(x) \/ artifacts[x].created > clock - Stall]_vars
  BY NextTimes DEF Leaves
<1> QED
  BY <1>1, TimesInvariance, PTL DEF Spec, OnlyExpiredOrNewLeave
=============================================================================
