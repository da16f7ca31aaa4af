--------------------------- MODULE HomeFeedProofs ---------------------------
(***************************************************************************)
(* Theorems about HomeFeed, for every value of its constants: the queue    *)
(* stays sound, the revision guard means what its callers think it means,  *)
(* supply is allocated once, a refresh is answered once, and the feed is   *)
(* a bounded first-in first-out queue.                                     *)
(*                                                                         *)
(* All follow from one inductive invariant, IInv.  Its heart is Fenced:    *)
(* what a caller holds of the row is the row as long as the row has the    *)
(* revision it was read at.                                                *)
(***************************************************************************)
EXTENDS HomeFeed, SequenceTheorems, TLAPS

USE DepthAssumption, AgeAssumption, FeedBoundAssumption

-----------------------------------------------------------------------------
(* The inductive invariant. *)

Row ==
    [exists : BOOLEAN, active : ArtifactIds \cup {None},
     ready : Seq(ArtifactIds), version : Nat, revision : Nat,
     token : Tokens \cup {NoToken}, since : Nat]

Tasks ==
    {"none", "decide", "settle", "poll", "plan", "enqueue", "guard", "compose",
     "attach"}

Steps ==
    Tasks \cup {"idle", "read", "create", "write", "reread", "put", "commit",
                "finish", "again"}

Call ==
    [step : Steps, task : Tasks, req : Request, view : Row, life : Nat,
     at : Nat, tries : Nat, epoch : Nat, pair : Nat,
     art : ArtifactIds \cup {None}]

\* What a caller's locals can hold: a row that was or will be sound, an
\* artifact id before one is stored, and only synchronous requests wait.
CallOK(c) ==
    /\ c \in Call
    /\ QueueSoundRow(c.view)
    /\ c.step = "put" => c.art \in ArtifactIds
    /\ c.step = "write" => c.view.exists
    /\ ~c.view.exists => c.view = AbsentRow
    /\ c.step = "poll" \/ c.task = "poll" => ~Asynchronous(c.req)

Agrees(c, r) == IF c.step = "write" THEN Prunes(c.view, r) ELSE r = c.view

\* The view of caller c against the row r of life n of the account.
Fenced(c, r, n) ==
    /\ c.life <= n
    /\ c.view.exists /\ c.life = n =>
         /\ r.exists
         /\ c.view.revision <= r.revision
         /\ r.revision = c.view.revision => Agrees(c, r)

Slot ==
    [status : {"none", "waiting", "running"}, epoch : Nat,
     owner : Actors \cup {"nobody"}]

Shown == [art : ArtifactIds, at : Nat, now : Nat, by : Request]

\* Every refresh that was answered started from a version already left.
History ==
    /\ shown \in Seq(Shown)
    /\ ~row.exists => shown = <<>>
    /\ \A i \in DOMAIN shown :
         Asynchronous(shown[i].by) => shown[i].by.baseline < row.version

FeedTypeOK ==
    /\ row \in Row
    /\ ~row.exists => row = AbsentRow
    /\ DOMAIN artifacts \subseteq ArtifactIds
    /\ minted \in 0..MaxArtifacts
    /\ pairs \in Nat /\ gone \in Nat
    /\ slot \in Slot
    /\ call \in [Actors -> Call]
    /\ clock \in Nat /\ resets \in 0..MaxResets

IInv ==
    /\ FeedTypeOK
    /\ QueueSoundRow(row)
    /\ \A a \in Actors : CallOK(call[a]) /\ Fenced(call[a], row, resets)
    /\ AllocatedOnce
    /\ History
    /\ RefreshOnce

-----------------------------------------------------------------------------
(* Queues. *)

\* A queue of Queues is a sequence of artifacts no longer than Depth.
LEMMA QueueIsSeq ==
    ASSUME NEW q \in Queues
    PROVE  q \in Seq(ArtifactIds) /\ Len(q) <= Depth /\ DOMAIN q = 1..Len(q)
<1>1. PICK n \in 0..Depth : q \in [1..n -> ArtifactIds]
  BY DEF Queues
<1>2. n \in Nat /\ q \in Seq(ArtifactIds)
  BY <1>1
<1>3. DOMAIN q = 1..n /\ DOMAIN q = 1..Len(q) /\ Len(q) \in Nat
  BY <1>1, <1>2, LenProperties
<1>4. Len(q) = n
  BY <1>2, <1>3
<1>. QED
  BY <1>1, <1>2, <1>3, <1>4

\* A pruning reconciliation keeps the queue sound and its order.
LEMMA PrunedRow ==
    ASSUME NEW r \in Row, QueueSoundRow(r), NEW t, NEW q \in Pruned(r, t)
    PROVE  /\ q \in Row /\ QueueSoundRow(q)
           /\ Prunes(q, r)
           /\ q.exists = r.exists /\ q.revision = r.revision
<1>. DEFINE valid == {x \in ArtifactIds \ {KeptActive(r, t)} : Promotable(x, t)}
<1>1. PICK p \in Queues :
        /\ Keeps(r.ready, valid, p)
        /\ q = [r EXCEPT !.active = KeptActive(r, t), !.ready = p]
  BY DEF Pruned
<1>2. PICK f \in [DOMAIN p -> DOMAIN r.ready] :
        /\ \A i, j \in DOMAIN p : i < j => f[i] < f[j]
        /\ \A i \in DOMAIN p : p[i] = r.ready[f[i]] /\ p[i] \in valid
  BY <1>1 DEF Keeps
<1>3. p \in Seq(ArtifactIds) /\ Len(p) <= Depth /\ DOMAIN p = 1..Len(p)
  BY <1>1, QueueIsSeq
<1>4. KeptActive(r, t) \in {r.active, None}
  BY DEF KeptActive
<1>5. /\ q \in Row /\ q.active = KeptActive(r, t) /\ q.ready = p
      /\ q.exists = r.exists /\ q.revision = r.revision
      /\ r = [q EXCEPT !.active = r.active, !.ready = r.ready]
  BY <1>1, <1>3, <1>4 DEF Row
<1>6. Feed!Subsequence(p, r.ready)
  BY <1>2 DEF Feed!Subsequence
<1>7. \A i, j \in DOMAIN p : p[i] = p[j] => i = j
  <2>. SUFFICES ASSUME NEW i \in DOMAIN p, NEW j \in DOMAIN p, p[i] = p[j]
                PROVE  i = j
    OBVIOUS
  <2>1. r.ready[f[i]] = r.ready[f[j]] /\ f[i] \in DOMAIN r.ready
        /\ f[j] \in DOMAIN r.ready
    BY <1>2
  <2>2. f[i] = f[j]
    BY <2>1 DEF QueueSoundRow
  <2>3. f[i] \in Int /\ i \in Int /\ j \in Int
    <3>. DOMAIN r.ready = 1..Len(r.ready)
      BY LenProperties DEF Row
    <3>. QED
      BY <1>3, <2>1
  <2>. QED
    BY <1>2, <2>2, <2>3
<1>8. KeptActive(r, t) \notin Members(p)
  BY <1>2 DEF Members
<1>. QED
  BY <1>3, <1>4, <1>5, <1>6, <1>7, <1>8 DEF QueueSoundRow, Prunes

-----------------------------------------------------------------------------
(* Callers. *)

LEMMA ConstantRows ==
    /\ AbsentRow \in Row /\ FreshRow \in Row
    /\ QueueSoundRow(AbsentRow) /\ QueueSoundRow(FreshRow)
<1>1. << >> \in Seq(ArtifactIds) /\ Len(<< >>) = 0
  BY EmptySeq
<1>2. AbsentRow \in Row /\ FreshRow \in Row
  BY <1>1 DEF AbsentRow, FreshRow, Row, None
<1>3. \A r \in Row : r.ready = << >> => QueueSoundRow(r)
  <2>. SUFFICES ASSUME NEW r \in Row, r.ready = << >>
                PROVE  QueueSoundRow(r)
    OBVIOUS
  <2>1. DOMAIN r.ready = {}
    OBVIOUS
  <2>2. Members(r.ready) = {}
    BY <2>1 DEF Members
  <2>. QED
    BY <1>1, <2>1, <2>2 DEF QueueSoundRow
<1>4. AbsentRow.ready = << >> /\ FreshRow.ready = << >>
  BY DEF AbsentRow, FreshRow
<1>. QED
  BY <1>2, <1>3, <1>4

LEMMA IdleCall == Idle \in Call /\ Idle.view = AbsentRow /\ Idle.life = 0
<1>1. NoRequest \in Request
  BY DEF NoRequest, Request, NoBaseline
<1>. QED
  BY <1>1, ConstantRows DEF Idle, Call, Steps, Tasks

\* A caller that holds no row is consistent with any row.
LEMMA Forgotten ==
    ASSUME NEW c \in Call, c.view = AbsentRow, c.life = 0,
           c.step \notin {"put", "write"},
           c.step = "poll" \/ c.task = "poll" => ~Asynchronous(c.req),
           NEW r, NEW n \in Nat
    PROVE  CallOK(c) /\ Fenced(c, r, n)
<1>1. AbsentRow.exists = FALSE
  BY DEF AbsentRow
<1>. QED
  BY <1>1, ConstantRows DEF CallOK, Fenced

\* The steps of a caller, as what they make of its entry of call.
LEMMA CallSteps ==
    ASSUME call \in [Actors -> Call], clock \in Nat, resets \in Nat,
           NEW a \in Actors
    PROVE  /\ Finished(a) =>
                /\ call' = [call EXCEPT ![a] = call'[a]]
                /\ call'[a] = Idle
           /\ \A how \in Steps : Ends(a, how) =>
                /\ call' = [call EXCEPT ![a] = call'[a]]
                /\ call'[a] = [Idle EXCEPT !.step = how]
           /\ \A task \in Tasks : Again(a, task) =>
                /\ call' = [call EXCEPT ![a] = call'[a]]
                /\ call'[a] = [call[a] EXCEPT !.step = "read", !.task = task,
                                 !.at = clock, !.view = AbsentRow, !.life = 0]
           /\ \A r \in Row : Continue(a, r) =>
                /\ call' = [call EXCEPT ![a] = call'[a]]
                /\ call'[a] = [call[a] EXCEPT !.step = call[a].task,
                                 !.view = r, !.life = resets, !.at = clock,
                                 !.tries = 0]
<1>1. ASSUME Finished(a)
      PROVE  /\ call' = [call EXCEPT ![a] = call'[a]]
             /\ call'[a] = Idle
  BY <1>1 DEF Finished
<1>2. ASSUME NEW how \in Steps, Ends(a, how)
      PROVE  /\ call' = [call EXCEPT ![a] = call'[a]]
             /\ call'[a] = [Idle EXCEPT !.step = how]
  BY <1>2 DEF Ends
<1>3. ASSUME NEW task \in Tasks, Again(a, task)
      PROVE  /\ call' = [call EXCEPT ![a] = call'[a]]
             /\ call'[a] = [call[a] EXCEPT !.step = "read", !.task = task,
                              !.at = clock, !.view = AbsentRow, !.life = 0]
  BY <1>3 DEF Again
<1>4. ASSUME NEW r \in Row, Continue(a, r)
      PROVE  /\ call' = [call EXCEPT ![a] = call'[a]]
             /\ call'[a] = [call[a] EXCEPT !.step = call[a].task,
                              !.view = r, !.life = resets, !.at = clock,
                              !.tries = 0]
  BY <1>4 DEF Continue
<1>. QED
  BY <1>1, <1>2, <1>3, <1>4

\* A caller that finishes, ends its handler or forgets its row is consistent
\* with whatever row there is; one that goes on with the row is too.
LEMMA CallerLeaves ==
    ASSUME call \in [Actors -> Call], clock \in Nat, resets \in Nat,
           NEW a \in Actors, CallOK(call[a]), NEW r, NEW n \in Nat,
           \/ Finished(a)
           \/ \E how \in {"finish", "again"} : Ends(a, how)
           \/ Stored(a)
           \/ \E task \in Tasks :
                 Again(a, task) /\ (task = "poll" => ~Asynchronous(call[a].req))
    PROVE  /\ call' = [call EXCEPT ![a] = call'[a]]
           /\ CallOK(call'[a]) /\ Fenced(call'[a], r, n)
<1>1. CASE Finished(a)
  <2>1. call'[a] = Idle /\ call' = [call EXCEPT ![a] = call'[a]]
    BY <1>1, CallSteps
  <2>. QED
    BY <2>1, IdleCall, Forgotten DEF Idle
<1>2. ASSUME NEW how \in {"finish", "again"}, Ends(a, how)
      PROVE  /\ call' = [call EXCEPT ![a] = call'[a]]
             /\ CallOK(call'[a]) /\ Fenced(call'[a], r, n)
  <2>1. /\ call'[a] = [Idle EXCEPT !.step = how]
        /\ call' = [call EXCEPT ![a] = call'[a]]
    BY <1>2, CallSteps DEF Steps
  <2>2. /\ call'[a] \in Call /\ call'[a].step = how
        /\ call'[a].view = AbsentRow /\ call'[a].life = 0
        /\ call'[a].task = "none"
    BY <2>1, IdleCall DEF Call, Steps, Idle
  <2>. QED
    BY <2>1, <2>2, Forgotten
<1>3. ASSUME NEW task \in Tasks, Again(a, task),
             task = "poll" => ~Asynchronous(call[a].req)
      PROVE  /\ call' = [call EXCEPT ![a] = call'[a]]
             /\ CallOK(call'[a]) /\ Fenced(call'[a], r, n)
  <2>1. /\ call'[a] = [call[a] EXCEPT !.step = "read", !.task = task,
                         !.at = clock, !.view = AbsentRow, !.life = 0]
        /\ call' = [call EXCEPT ![a] = call'[a]]
    BY <1>3, CallSteps
  <2>2. /\ call'[a] \in Call /\ call'[a].step = "read"
        /\ call'[a].view = AbsentRow /\ call'[a].life = 0
        /\ call'[a].task = task /\ call'[a].req = call[a].req
    <3>. DEFINE c == call[a]
    <3>1. c \in Call /\ "read" \in Steps /\ AbsentRow \in Row
      BY ConstantRows DEF Steps
    <3>2. [c EXCEPT !.step = "read", !.task = task, !.at = clock,
             !.view = AbsentRow, !.life = 0] \in Call
      <4>. HIDE DEF c
      <4>. QED
        BY <3>1 DEF Call
    <3>. QED
      BY <2>1, <3>1, <3>2 DEF Call
  <2>. QED
    BY <1>3, <2>1, <2>2, Forgotten
<1>4. CASE Stored(a)
  <2>. DEFINE c == call[a]
              d == [c EXCEPT !.step = "reread", !.view = AbsentRow,
                             !.life = 0, !.at = 0]
  <2>1. call' = [call EXCEPT ![a] = call'[a]] /\ call'[a] = d
    BY <1>4 DEF Stored
  <2>2. c \in Call /\ "reread" \in Steps
    BY DEF Steps
  <2>3. /\ d \in Call /\ d.step = "reread" /\ d.view = AbsentRow /\ d.life = 0
        /\ d.task = c.task /\ d.req = c.req
    <3>. HIDE DEF c
    <3>. QED
      BY <2>2, ConstantRows DEF Call
  <2>4. CallOK(d) /\ Fenced(d, r, n)
    <3>. HIDE DEF d
    <3>. QED
      BY <2>3, Forgotten DEF CallOK
  <2>. QED
    BY <2>1, <2>4
<1>. QED
  BY <1>1, <1>2, <1>3, <1>4

\* A caller that goes on with row r, in the current life of the account.
LEMMA CallerContinues ==
    ASSUME call \in [Actors -> Call], clock \in Nat, resets \in Nat,
           NEW a \in Actors, CallOK(call[a]),
           NEW r \in Row, QueueSoundRow(r), r.exists, Continue(a, r)
    PROVE  /\ call' = [call EXCEPT ![a] = call'[a]]
           /\ CallOK(call'[a]) /\ Fenced(call'[a], r, resets)
<1>1. /\ call'[a] = [call[a] EXCEPT !.step = call[a].task, !.view = r,
                       !.life = resets, !.at = clock, !.tries = 0]
      /\ call' = [call EXCEPT ![a] = call'[a]]
  BY CallSteps
<1>2. /\ call'[a] \in Call /\ call'[a].step = call[a].task
      /\ call'[a].view = r /\ call'[a].life = resets
      /\ call'[a].task = call[a].task /\ call'[a].req = call[a].req
  <2>. DEFINE c == call[a]
  <2>1. c \in Call /\ c.task \in Steps
    <3>1. Tasks \subseteq Steps
      BY DEF Steps
    <3>2. c \in Call
      OBVIOUS
    <3>. QED
      BY <3>1, <3>2 DEF Call
  <2>2. [c EXCEPT !.step = c.task, !.view = r, !.life = resets, !.at = clock,
           !.tries = 0] \in Call
    <3>. HIDE DEF c
    <3>. QED
      BY <2>1 DEF Call
  <2>. QED
    BY <1>1, <2>1, <2>2 DEF Call
<1>3. call'[a].step \notin {"put", "write"}
  BY <1>2 DEF Call, Tasks
<1>4. r.revision <= r.revision
  BY DEF Row
<1>. QED
  BY <1>1, <1>2, <1>3, <1>4 DEF CallOK, Fenced, Agrees

-----------------------------------------------------------------------------
(* Steps of one caller. *)

\* A write gives the row a revision of its own, so it fences the views the
\* other callers hold.
LEMMA OthersFenced ==
    ASSUME IInv, NEW a \in Actors,
           \/ row' = row
           \/ row'.exists /\ (row.exists => row'.revision > row.revision),
           row' \in Row, resets' = resets,
           call' = [call EXCEPT ![a] = call'[a]],
           CallOK(call'[a]), Fenced(call'[a], row', resets)
    PROVE  /\ call' \in [Actors -> Call]
           /\ \A b \in Actors : CallOK(call'[b]) /\ Fenced(call'[b], row', resets')
<1>1. call \in [Actors -> Call] /\ row \in Row /\ call'[a] \in Call
  BY DEF IInv, FeedTypeOK, CallOK
<1>2. call' \in [Actors -> Call]
  BY <1>1
<1>3. ASSUME NEW b \in Actors, b # a
      PROVE  CallOK(call'[b]) /\ Fenced(call'[b], row', resets')
  <2>1. call'[b] = call[b]
    BY <1>1, <1>3
  <2>2. CallOK(call[b]) /\ Fenced(call[b], row, resets)
    BY DEF IInv
  <2>3. CASE row' = row
    BY <2>1, <2>2, <2>3
  <2>4. CASE row'.exists /\ (row.exists => row'.revision > row.revision)
    <3>1. call[b].view \in Row
      BY <1>1 DEF Call
    <3>2. /\ call[b].view.revision \in Nat /\ row.revision \in Nat
          /\ row'.revision \in Nat
      BY <1>1, <3>1 DEF Row
    <3>. QED
      BY <2>1, <2>2, <2>4, <3>2 DEF Fenced
  <2>. QED
    BY <2>3, <2>4
<1>. QED
  BY <1>2, <1>3

\* A step that moves one caller, the slot and the ids given out.
LEMMA CallerMoves ==
    ASSUME IInv, NEW a \in Actors,
           UNCHANGED <<row, artifacts, pairs, gone, clock, resets, shown>>,
           minted' \in 0..MaxArtifacts, slot' \in Slot,
           call' = [call EXCEPT ![a] = call'[a]],
           CallOK(call'[a]), Fenced(call'[a], row, resets)
    PROVE  IInv'
<1>1. row' \in Row
  BY DEF IInv, FeedTypeOK
<1>2. /\ call' \in [Actors -> Call]
      /\ \A b \in Actors : CallOK(call'[b]) /\ Fenced(call'[b], row', resets')
  BY <1>1, OthersFenced
<1>3. FeedTypeOK'
  BY <1>2 DEF IInv, FeedTypeOK
<1>4. QueueSoundRow(row')
  BY DEF IInv
<1>5. AllocatedOnce'
  BY DEF IInv, AllocatedOnce
<1>6. History' /\ RefreshOnce'
  BY DEF IInv, History, RefreshOnce
<1>. QED
  BY <1>2, <1>3, <1>4, <1>5, <1>6 DEF IInv

\* A step that moves one caller and the row.
LEMMA RowMoves ==
    ASSUME IInv, NEW a \in Actors,
           UNCHANGED <<artifacts, minted, pairs, gone, slot, clock, resets>>,
           row'.exists, row.exists => row'.revision > row.revision,
           row' \in Row, QueueSoundRow(row'),
           call' = [call EXCEPT ![a] = call'[a]],
           CallOK(call'[a]), Fenced(call'[a], row', resets),
           History', RefreshOnce'
    PROVE  IInv'
<1>1. /\ call' \in [Actors -> Call]
      /\ \A b \in Actors : CallOK(call'[b]) /\ Fenced(call'[b], row', resets')
  BY OthersFenced
<1>2. FeedTypeOK'
  BY <1>1 DEF IInv, FeedTypeOK
<1>3. AllocatedOnce'
  BY DEF IInv, AllocatedOnce
<1>. QED
  BY <1>1, <1>2, <1>3 DEF IInv

\* A step of the row that shows nothing new and keeps the version.
LEMMA HistoryKept ==
    ASSUME IInv, UNCHANGED shown, row'.version = row.version,
           row.exists => row'.exists
    PROVE  History' /\ RefreshOnce'
<1>1. RefreshOnce'
  BY DEF IInv, RefreshOnce
<1>2. History'
  BY DEF IInv, History
<1>. QED
  BY <1>1, <1>2

\* A step that leaves every caller alone.
LEMMA RowAndCallersKept ==
    ASSUME IInv,
           UNCHANGED <<row, artifacts, minted, call, resets, shown>>,
           pairs' \in Nat, gone' \in Nat, slot' \in Slot, clock' \in Nat
    PROVE  IInv'
<1>1. FeedTypeOK'
  BY DEF IInv, FeedTypeOK
<1>2. AllocatedOnce'
  BY DEF IInv, AllocatedOnce
<1>3. History' /\ RefreshOnce'
  BY DEF IInv, History, RefreshOnce
<1>. QED
  BY <1>1, <1>2, <1>3 DEF IInv

-----------------------------------------------------------------------------
(* The actions on the row. *)

\* What a step may do to the feed, in the terms of FeedQueue.
Moves == Feed!QueueNext \/ UNCHANGED <<row.active, row.ready>>

\* What the invariant says of the actor of a step.
LEMMA ActorFacts ==
    ASSUME IInv, NEW a \in Actors
    PROVE  /\ row \in Row /\ QueueSoundRow(row)
           /\ call \in [Actors -> Call] /\ call[a] \in Call
           /\ CallOK(call[a]) /\ Fenced(call[a], row, resets)
           /\ call[a].view \in Row /\ QueueSoundRow(call[a].view)
           /\ clock \in Nat /\ resets \in Nat
           /\ minted \in 0..MaxArtifacts /\ slot \in Slot
           /\ MaxResets = 0 => resets = call[a].life
<1>1. /\ row \in Row /\ QueueSoundRow(row) /\ call \in [Actors -> Call]
      /\ CallOK(call[a]) /\ Fenced(call[a], row, resets)
      /\ clock \in Nat /\ resets \in 0..MaxResets
      /\ minted \in 0..MaxArtifacts /\ slot \in Slot
  BY DEF IInv, FeedTypeOK
<1>2. call[a] \in Call /\ call[a].view \in Row /\ call[a].life \in Nat
  BY <1>1 DEF Call
<1>3. QueueSoundRow(call[a].view) /\ call[a].life <= resets
  BY <1>1 DEF CallOK, Fenced
<1>. QED
  BY <1>1, <1>2, <1>3

LEMMA SameQueue ==
    ASSUME NEW q, NEW r, q.active = r.active, q.ready = r.ready,
           QueueSoundRow(q)
    PROVE  QueueSoundRow(r)
BY DEF QueueSoundRow

LEMMA ReadStep ==
    ASSUME IInv, NEW a \in Actors, Read(a)
    PROVE  IInv'
<1>0. UNCHANGED <<row, artifacts, minted, pairs, gone, slot, clock, resets,
                  shown>>
  BY DEF Read
<1>1. CASE call[a].step = "read" /\
           call' = [call EXCEPT ![a].step = "create", ![a].at = 0]
  <2>. DEFINE c == call[a]
              d == [c EXCEPT !.step = "create", !.at = 0]
  <2>1. call' = [call EXCEPT ![a] = call'[a]] /\ call'[a] = d
    BY <1>1, ActorFacts
  <2>2. c \in Call /\ "create" \in Steps
    BY ActorFacts DEF Steps
  <2>3. /\ d \in Call /\ d.step = "create" /\ d.view = c.view
        /\ d.life = c.life /\ d.task = c.task /\ d.req = c.req
    <3>. HIDE DEF c
    <3>. QED
      BY <2>2 DEF Call
  <2>4. CallOK(d)
    <3>. HIDE DEF d
    <3>. QED
      BY <2>3, ActorFacts DEF CallOK
  <2>5. Fenced(d, row, resets)
    <3>. HIDE DEF d
    <3>. QED
      BY <1>1, <2>3, ActorFacts DEF Fenced, Agrees
  <2>. QED
    BY <1>0, <2>1, <2>4, <2>5, ActorFacts, CallerMoves
<1>2. CASE row.exists /\ Continue(a, row)
  <2>1. /\ call' = [call EXCEPT ![a] = call'[a]]
        /\ CallOK(call'[a]) /\ Fenced(call'[a], row, resets)
    BY <1>2, ActorFacts, CallerContinues
  <2>. QED
    BY <1>0, <2>1, ActorFacts, CallerMoves
<1>3. ASSUME row.exists,
             NEW q \in Pruned(row, call[a].at),
             call' = [call EXCEPT ![a].step = "write", ![a].view = q,
                                  ![a].life = resets]
      PROVE  IInv'
  <2>1. /\ q \in Row /\ QueueSoundRow(q) /\ Prunes(q, row)
        /\ q.exists /\ q.revision = row.revision
    BY <1>3, ActorFacts, PrunedRow
  <2>2. /\ call' = [call EXCEPT ![a] = call'[a]]
        /\ call'[a] = [call[a] EXCEPT !.step = "write", !.view = q,
                                      !.life = resets]
    BY <1>3, ActorFacts
  <2>3. /\ call'[a] \in Call /\ call'[a].step = "write"
        /\ call'[a].view = q /\ call'[a].life = resets
        /\ call'[a].task = call[a].task /\ call'[a].req = call[a].req
    <3>. DEFINE c == call[a]
    <3>1. c \in Call /\ "write" \in Steps /\ resets \in Nat
      BY ActorFacts DEF Steps
    <3>2. [c EXCEPT !.step = "write", !.view = q, !.life = resets] \in Call
      <4>. HIDE DEF c
      <4>. QED
        BY <2>1, <3>1 DEF Call
    <3>. QED
      BY <2>2, <3>1, <3>2 DEF Call
  <2>4. CallOK(call'[a])
    BY <2>1, <2>3, ActorFacts DEF CallOK
  <2>5. Fenced(call'[a], row, resets)
    <3>1. q.revision <= row.revision /\ resets <= resets
      BY <2>1, ActorFacts DEF Row
    <3>. QED
      BY <1>3, <2>1, <2>3, <3>1 DEF Fenced, Agrees
  <2>. QED
    BY <1>0, <2>2, <2>4, <2>5, ActorFacts, CallerMoves
<1>. QED
  BY <1>1, <1>2, <1>3 DEF Read

LEMMA CreateStep ==
    ASSUME IInv, NEW a \in Actors, Create(a)
    PROVE  IInv' /\ Moves
<1>1. /\ UNCHANGED <<artifacts, minted, pairs, gone, slot, clock, resets>>
      /\ UNCHANGED shown
      /\ Stored(a)
  BY DEF Create
<1>2. \A r : /\ call' = [call EXCEPT ![a] = call'[a]]
            /\ CallOK(call'[a]) /\ Fenced(call'[a], r, resets)
  BY <1>1, ActorFacts, CallerLeaves
<1>3. CASE row.exists
  <2>1. row' = row
    BY <1>3 DEF Create
  <2>. QED
    BY <1>1, <1>2, <2>1, ActorFacts, CallerMoves DEF Moves
<1>4. CASE ~row.exists
  <2>1. row = AbsentRow /\ row' = FreshRow
    BY <1>4 DEF Create, IInv, FeedTypeOK
  <2>2. /\ FreshRow.exists /\ FreshRow.version = AbsentRow.version
        /\ FreshRow.active = AbsentRow.active
        /\ FreshRow.ready = AbsentRow.ready
    BY DEF FreshRow, AbsentRow
  <2>3. History' /\ RefreshOnce'
    BY <1>1, <1>4, <2>1, <2>2, HistoryKept
  <2>4. IInv'
    BY <1>1, <1>2, <1>4, <2>1, <2>2, <2>3, ConstantRows, RowMoves
  <2>. QED
    BY <2>1, <2>2, <2>4 DEF Moves
<1>. QED
  BY <1>3, <1>4

LEMMA RereadStep ==
    ASSUME IInv, NEW a \in Actors, Reread(a)
    PROVE  IInv'
<1>1. UNCHANGED <<row, artifacts, minted, pairs, gone, slot, clock, resets,
                  shown>>
  BY DEF Reread
<1>2. CASE row.exists /\ Continue(a, row)
  <2>1. /\ call' = [call EXCEPT ![a] = call'[a]]
        /\ CallOK(call'[a]) /\ Fenced(call'[a], row, resets)
    BY <1>2, ActorFacts, CallerContinues
  <2>. QED
    BY <1>1, <2>1, ActorFacts, CallerMoves
<1>3. CASE Ends(a, "again") \/ Finished(a)
  <2>1. /\ call' = [call EXCEPT ![a] = call'[a]]
        /\ CallOK(call'[a]) /\ Fenced(call'[a], row, resets)
    BY <1>3, ActorFacts, CallerLeaves
  <2>. QED
    BY <1>1, <2>1, ActorFacts, CallerMoves
<1>. QED
  BY <1>2, <1>3 DEF Reread, Raises

LEMMA WriteStep ==
    ASSUME IInv, NEW a \in Actors, Write(a)
    PROVE  IInv' /\ (MaxResets = 0 => Moves)
<1>. DEFINE v == call[a].view
<1>1. /\ call[a].step = "write" /\ Current(v)
      /\ row' = Rewritten(v) /\ Stored(a)
      /\ UNCHANGED <<artifacts, minted, pairs, gone, slot, clock, resets, shown>>
  BY DEF Write
<1>2. /\ row \in Row /\ v \in Row /\ QueueSoundRow(v)
      /\ row.exists /\ row.revision = v.revision /\ v.exists
  BY <1>1, ActorFacts DEF Current, CallOK
<1>3. /\ row' \in Row /\ row'.active = v.active /\ row'.ready = v.ready
      /\ row'.exists = row.exists /\ row'.version = row.version
      /\ row'.revision = row.revision + 1
  <2>1. row.revision \in Nat
    BY <1>2 DEF Row
  <2>2. row.revision + 1 \in Nat
    BY <2>1
  <2>. HIDE DEF v
  <2>. QED
    BY <1>1, <1>2, <2>2 DEF Rewritten, Row
<1>4. QueueSoundRow(row') /\ row'.revision > row.revision
  <2>1. QueueSoundRow(row')
    BY <1>2, <1>3, SameQueue
  <2>2. row.revision \in Nat
    BY <1>2 DEF Row
  <2>. QED
    BY <1>3, <2>1, <2>2
<1>5. /\ call' = [call EXCEPT ![a] = call'[a]]
      /\ CallOK(call'[a]) /\ Fenced(call'[a], row', resets)
  BY <1>1, ActorFacts, CallerLeaves
<1>6. History' /\ RefreshOnce'
  BY <1>1, <1>2, <1>3, HistoryKept
<1>7. IInv'
  BY <1>1, <1>2, <1>3, <1>4, <1>5, <1>6, RowMoves
<1>8. ASSUME MaxResets = 0
      PROVE  Moves
  <2>1. Prunes(v, row)
    BY <1>1, <1>2, <1>8, ActorFacts DEF Fenced, Agrees
  <2>2. /\ row'.active \in {row.active, Feed!Nothing}
        /\ Feed!Subsequence(row'.ready, row.ready)
    BY <1>3, <2>1 DEF Prunes, None, Feed!Nothing
  <2>. QED
    BY <2>2 DEF Moves, Feed!QueueNext, Feed!Expire
<1>. QED
  BY <1>7, <1>8

LEMMA WriteLostStep ==
    ASSUME IInv, NEW a \in Actors, WriteLost(a)
    PROVE  IInv'
<1>1. UNCHANGED <<row, artifacts, minted, pairs, gone, slot, clock, resets,
                  shown>>
  BY DEF WriteLost
<1>2. CASE Ends(a, "again") \/ Finished(a)
  <2>1. /\ call' = [call EXCEPT ![a] = call'[a]]
        /\ CallOK(call'[a]) /\ Fenced(call'[a], row, resets)
    BY <1>2, ActorFacts, CallerLeaves
  <2>. QED
    BY <1>1, <2>1, ActorFacts, CallerMoves
<1>3. CASE call' = [call EXCEPT ![a].step = "read", ![a].tries = @ + 1,
                                ![a].view = AbsentRow, ![a].life = 0]
  <2>. DEFINE c == call[a]
           d == [c EXCEPT !.step = "read", !.tries = @ + 1,
                          !.view = AbsentRow, !.life = 0]
  <2>1. call' = [call EXCEPT ![a] = call'[a]] /\ call'[a] = d
    BY <1>3, ActorFacts
  <2>2. c \in Call /\ CallOK(c) /\ "read" \in Steps
    BY ActorFacts DEF Steps
  <2>3. /\ d \in Call /\ d.step = "read" /\ d.view = AbsentRow /\ d.life = 0
        /\ d.task = c.task /\ d.req = c.req
    <3>1. c.tries \in Nat
      BY <2>2 DEF Call
    <3>2. c.tries + 1 \in Nat
      BY <3>1
    <3>. HIDE DEF c
    <3>. QED
      BY <2>2, <3>2, ConstantRows DEF Call
  <2>4. CallOK(d) /\ Fenced(d, row, resets)
    <3>. HIDE DEF d
    <3>. QED
      BY <2>2, <2>3, ActorFacts, Forgotten DEF CallOK
  <2>. QED
    BY <1>1, <2>1, <2>4, ActorFacts, CallerMoves
<1>. QED
  BY <1>2, <1>3 DEF WriteLost, Raises

-----------------------------------------------------------------------------
(* The requests. *)

\* The head of a queue without repetition is not in its tail.
LEMMA Dequeued ==
    ASSUME NEW s \in Seq(ArtifactIds), s # << >>, Len(s) <= Depth,
           \A i, j \in DOMAIN s : s[i] = s[j] => i = j
    PROVE  /\ Head(s) \in ArtifactIds /\ Tail(s) \in Seq(ArtifactIds)
           /\ Len(Tail(s)) <= Depth
           /\ \A i, j \in DOMAIN Tail(s) : Tail(s)[i] = Tail(s)[j] => i = j
           /\ Head(s) \notin Members(Tail(s))
<1>. DEFINE t == Tail(s)
<1>1. /\ Head(s) \in ArtifactIds /\ t \in Seq(ArtifactIds)
      /\ Len(t) = Len(s) - 1 /\ \A i \in 1..Len(t) : t[i] = s[i + 1]
  BY HeadTailProperties
<1>2. /\ DOMAIN s = 1..Len(s) /\ Len(s) \in Nat /\ DOMAIN t = 1..Len(t)
      /\ Head(s) = s[1]
  BY <1>1, LenProperties
<1>. HIDE DEF t
<1>3. Len(s) \in Nat \ {0}
  BY <1>2, EmptySeq
<1>4. \A i \in DOMAIN t : i + 1 \in DOMAIN s /\ t[i] = s[i + 1] /\ i + 1 # 1
  BY <1>1, <1>2, <1>3
<1>5. \A i, j \in DOMAIN t : t[i] = t[j] => i = j
  BY <1>2, <1>4
<1>6. Head(s) \notin Members(t)
  BY <1>2, <1>3, <1>4 DEF Members
<1>. QED
  BY <1>1, <1>2, <1>5, <1>6 DEF t

\* A caller that starts on a reconciliation.
LEMMA Starts ==
    ASSUME IInv, NEW a \in Actors, NEW c \in Call, Begin(a, c),
           c.view = AbsentRow, c.life = 0, c.step = "read", c.task # "poll"
    PROVE  /\ call' = [call EXCEPT ![a] = call'[a]]
           /\ CallOK(call'[a]) /\ Fenced(call'[a], row, resets)
<1>. DEFINE d == [c EXCEPT !.at = clock]
<1>1. call' = [call EXCEPT ![a] = call'[a]] /\ call'[a] = d
  BY ActorFacts DEF Begin
<1>2. /\ d \in Call /\ d.step = "read" /\ d.task # "poll"
      /\ d.view = AbsentRow /\ d.life = 0
  BY ActorFacts DEF Call
<1>3. CallOK(d) /\ Fenced(d, row, resets)
  <2>. HIDE DEF d
  <2>. QED
    BY <1>2, ActorFacts, Forgotten
<1>. QED
  BY <1>1, <1>3

LEMMA RecommendStep ==
    ASSUME IInv, NEW a \in Actors, Recommend(a)
    PROVE  IInv'
<1>1. PICK r \in Requests :
        Begin(a, [Idle EXCEPT !.step = "read", !.task = "decide", !.req = r])
  BY DEF Recommend
<1>. DEFINE c == [Idle EXCEPT !.step = "read", !.task = "decide", !.req = r]
<1>2. /\ c \in Call /\ c.step = "read" /\ c.task # "poll"
      /\ c.view = AbsentRow /\ c.life = 0
  <2>1. r \in Request /\ "read" \in Steps /\ "decide" \in Tasks
    BY RequestAssumption DEF Steps, Tasks
  <2>. QED
    BY <2>1, IdleCall DEF Call
<1>3. /\ call' = [call EXCEPT ![a] = call'[a]]
      /\ CallOK(call'[a]) /\ Fenced(call'[a], row, resets)
  <2>. HIDE DEF c
  <2>. QED
    BY <1>1, <1>2, Starts DEF c
<1>. QED
  BY <1>3, ActorFacts, CallerMoves DEF Recommend

\* An answered request holds nothing, and only a synchronous one waits.
LEMMA Answered ==
    ASSUME IInv, NEW a \in Actors, NEW v, Answer(a, v)
    PROVE  /\ call' = [call EXCEPT ![a] = call'[a]]
           /\ CallOK(call'[a]) /\ Fenced(call'[a], row, resets)
<1>1. CASE Finished(a)
  BY <1>1, ActorFacts, CallerLeaves
<1>2. CASE Again(a, "poll") /\ ~Asynchronous(call[a].req)
  <2>1. "poll" \in Tasks
    BY DEF Tasks
  <2>. QED
    BY <1>2, <2>1, ActorFacts, CallerLeaves
<1>. QED
  BY <1>1, <1>2 DEF Answer

\* A timestamp is a time between what the caller did last and now.
LEMMA StampFacts ==
    ASSUME NEW a \in Actors, call[a].at \in Nat, clock \in Nat,
           NEW t \in Stamps(a)
    PROVE  /\ t \in Nat /\ call[a].at <= t /\ t <= clock
           /\ clock - t <= Stall
  BY DEF Stamps

\* A refresh that names a version promotes only from that version.
LEMMA PromoteStep ==
    ASSUME IInv, NEW a \in Actors, NEW d, NEW next \in {"settle", "poll"},
           d.token \in Tokens \cup {NoToken},
           Asynchronous(call[a].req) =>
             next # "poll" /\ d.version = call[a].req.baseline,
           Promote(a, d, next),
           UNCHANGED <<artifacts, minted, pairs, gone, slot, clock, resets>>
    PROVE  IInv' /\ Moves
<1>0. next \in Tasks /\ clock \in Nat /\ row \in Row /\ QueueSoundRow(row)
  BY ActorFacts DEF Tasks
<1>1. CASE /\ Again(a, next) \/ Finished(a)
           /\ UNCHANGED <<row, shown>>
  <2>1. /\ call' = [call EXCEPT ![a] = call'[a]]
        /\ CallOK(call'[a]) /\ Fenced(call'[a], row, resets)
    BY <1>0, <1>1, ActorFacts, CallerLeaves
  <2>. QED
    BY <1>1, <2>1, ActorFacts, CallerMoves DEF Moves
<1>2. CASE Answer(a, row) /\ UNCHANGED <<row, shown>>
  <2>1. /\ call' = [call EXCEPT ![a] = call'[a]]
        /\ CallOK(call'[a]) /\ Fenced(call'[a], row, resets)
    BY <1>2, Answered
  <2>. QED
    BY <1>2, <2>1, ActorFacts, CallerMoves DEF Moves
<1>3. ASSUME NEW t \in Stamps(a),
             Current(call[a].view), ~Declined(d, t), row' = Promoted(d, t),
             Shows(row'.active, t, call[a].req), Finished(a)
      PROVE  IInv' /\ Moves
  <2>. DEFINE req == call[a].req
  <2>0. t \in Nat
    BY <1>0, ActorFacts, StampFacts DEF Call
  <2>1. row.ready # << >> /\ row.exists
        /\ (d.version # NoBaseline => row.version = d.version)
    BY <1>3 DEF Declined, Current
  <2>2. /\ row.ready \in Seq(ArtifactIds) /\ row.version \in Nat
        /\ row.revision \in Nat
        /\ row.version + 1 \in Nat /\ row.revision + 1 \in Nat
    BY <1>0 DEF Row
  <2>3. /\ Head(row.ready) \in ArtifactIds
        /\ Tail(row.ready) \in Seq(ArtifactIds)
        /\ Len(Tail(row.ready)) <= Depth
        /\ \A i, j \in DOMAIN Tail(row.ready) :
             Tail(row.ready)[i] = Tail(row.ready)[j] => i = j
        /\ Head(row.ready) \notin Members(Tail(row.ready))
    BY <1>0, <2>1, <2>2, Dequeued DEF QueueSoundRow
  <2>4. /\ row' \in Row /\ row'.exists
        /\ row'.active = Head(row.ready) /\ row'.ready = Tail(row.ready)
        /\ row'.version = row.version + 1
        /\ row'.revision = row.revision + 1
    BY <1>0, <1>3, <2>0, <2>1, <2>2, <2>3 DEF Promoted, Row
  <2>5. QueueSoundRow(row') /\ row'.revision > row.revision
    BY <2>2, <2>3, <2>4 DEF QueueSoundRow
  <2>6. /\ call' = [call EXCEPT ![a] = call'[a]]
        /\ CallOK(call'[a]) /\ Fenced(call'[a], row', resets)
    BY <1>3, ActorFacts, CallerLeaves
  <2>7. /\ shown \in Seq(Shown) /\ shown' \in Seq(Shown)
        /\ DOMAIN shown = 1..Len(shown) /\ Len(shown) \in Nat
        /\ DOMAIN shown' = 1..(Len(shown) + 1)
        /\ \A i \in 1..Len(shown) : shown'[i] = shown[i]
        /\ shown'[Len(shown) + 1].by = req
    <3>1. req \in Request
      BY ActorFacts DEF Call
    <3>2. [art |-> row'.active, at |-> t, now |-> clock, by |-> req] \in Shown
      BY <1>0, <2>0, <2>3, <2>4, <3>1 DEF Shown
    <3>3. shown \in Seq(Shown)
      BY DEF IInv, History
    <3>. QED
      BY <1>3, <3>2, <3>3, AppendProperties, LenProperties DEF Shows
  <2>8. Asynchronous(req) => req.baseline = row.version
    BY <2>1 DEF Asynchronous
  <2>9. \A i \in DOMAIN shown :
          Asynchronous(shown[i].by) => shown[i].by.baseline < row.version
    BY DEF IInv, History
  <2>10. \A i \in DOMAIN shown : shown[i].by.baseline \in Int
    <3>1. \A i \in DOMAIN shown : shown[i] \in Shown
      BY <2>7, ElementOfSeq
    <3>. QED
      BY <3>1 DEF Shown, Request, NoBaseline
  <2>11. History'
    <3>1. \A i \in DOMAIN shown' :
            Asynchronous(shown'[i].by) => shown'[i].by.baseline < row'.version
      BY <2>2, <2>4, <2>7, <2>8, <2>9, <2>10
    <3>. QED
      BY <2>4, <2>7, <3>1 DEF History
  <2>12. RefreshOnce'
    <3>1. \A i \in DOMAIN shown : Asynchronous(req) /\ Asynchronous(shown[i].by)
            => shown[i].by.baseline # req.baseline
      BY <2>2, <2>8, <2>9, <2>10
    <3>2. RefreshOnce
      BY DEF IInv
    <3>. SUFFICES ASSUME NEW i \in DOMAIN shown', NEW j \in DOMAIN shown',
                         Asynchronous(shown'[i].by), Asynchronous(shown'[j].by),
                         shown'[i].by.baseline = shown'[j].by.baseline
                  PROVE  i = j
      BY DEF RefreshOnce
    <3>. QED
      BY <2>7, <3>1, <3>2 DEF RefreshOnce
  <2>13. IInv'
    BY <2>4, <2>5, <2>6, <2>11, <2>12, RowMoves
  <2>14. Moves
    BY <2>1, <2>4 DEF Moves, Feed!QueueNext, Feed!Rotate
  <2>. QED
    BY <2>13, <2>14
<1>. QED
  BY <1>1, <1>2, <1>3 DEF Promote

LEMMA DecideStep ==
    ASSUME IInv, NEW a \in Actors, Decide(a)
    PROVE  IInv' /\ Moves
<1>. DEFINE req == call[a].req
            v == call[a].view
<1>1. UNCHANGED <<artifacts, minted, pairs, gone, slot, clock, resets>>
  BY DEF Decide
<1>2. ASSUME NEW d \in Demands(req, v), Promote(a, d, "settle")
      PROVE  IInv' /\ Moves
  <2>1. req \in Request
    BY ActorFacts DEF Call
  <2>2. /\ d.token \in Tokens \cup {NoToken}
        /\ Asynchronous(req) => d.version = req.baseline
    BY <1>2, <2>1 DEF Demands, Demand, Request, Asynchronous
  <2>. QED
    BY <1>1, <1>2, <2>2, PromoteStep
<1>3. CASE /\ Finished(a) \/ Answer(a, v)
           /\ UNCHANGED <<row, shown>>
  <2>1. /\ call' = [call EXCEPT ![a] = call'[a]]
        /\ CallOK(call'[a]) /\ Fenced(call'[a], row, resets)
    BY <1>3, Answered, ActorFacts, CallerLeaves
  <2>. QED
    BY <1>1, <1>3, <2>1, ActorFacts, CallerMoves DEF Moves
<1>. QED
  BY <1>2, <1>3 DEF Decide

LEMMA SettleStep ==
    ASSUME IInv, NEW a \in Actors, Settle(a)
    PROVE  IInv'
<1>1. Answer(a, call[a].view)
  BY DEF Settle
<1>2. /\ call' = [call EXCEPT ![a] = call'[a]]
      /\ CallOK(call'[a]) /\ Fenced(call'[a], row, resets)
  BY <1>1, Answered
<1>. QED
  BY <1>2, ActorFacts, CallerMoves DEF Settle

LEMMA PollStep ==
    ASSUME IInv, NEW a \in Actors, Poll(a)
    PROVE  IInv' /\ Moves
<1>1. /\ UNCHANGED <<artifacts, minted, pairs, gone, slot, clock, resets>>
      /\ ~Asynchronous(call[a].req)
  BY ActorFacts DEF Poll, CallOK
<1>2. CASE /\ Again(a, "poll") \/ Finished(a)
           /\ UNCHANGED <<row, shown>>
  <2>1. "poll" \in Tasks
    BY DEF Tasks
  <2>2. /\ call' = [call EXCEPT ![a] = call'[a]]
        /\ CallOK(call'[a]) /\ Fenced(call'[a], row, resets)
    BY <1>1, <1>2, <2>1, ActorFacts, CallerLeaves
  <2>. QED
    BY <1>1, <1>2, <2>2, ActorFacts, CallerMoves DEF Moves
<1>3. CASE Promote(a, Demand(NoToken, 0, NoBaseline), "poll")
  <2>1. Demand(NoToken, 0, NoBaseline).token \in Tokens \cup {NoToken}
    BY DEF Demand
  <2>. QED
    BY <1>1, <1>3, <2>1, PromoteStep
<1>. QED
  BY <1>2, <1>3 DEF Poll

-----------------------------------------------------------------------------
(* The compose slot and the composer. *)

LEMMA EpochIsNat ==
    ASSUME IInv, NEW a \in Actors
    PROVE  Epoch(call[a].view) \in Nat
<1>1. call[a].view.version \in Nat /\ call[a].view.ready \in Seq(ArtifactIds)
  BY ActorFacts DEF Row
<1>. QED
  BY <1>1, LenProperties DEF Epoch

\* A handler that reconciles again keeps its epoch and its supply only.
LEMMA ReadsAfresh ==
    ASSUME IInv, NEW a \in Actors, NEW task \in Tasks, task # "poll",
           NEW e \in Nat, NEW p \in Nat,
           \/ call' = [call EXCEPT
                         ![a] = [Idle EXCEPT !.step = "read", !.at = clock,
                                   !.task = task, !.epoch = e]]
           \/ call' = [call EXCEPT
                         ![a] = [Idle EXCEPT !.step = "read", !.at = clock,
                                   !.task = task, !.epoch = e, !.pair = p]]
    PROVE  /\ call' = [call EXCEPT ![a] = call'[a]]
           /\ CallOK(call'[a]) /\ Fenced(call'[a], row, resets)
<1>1. /\ call' = [call EXCEPT ![a] = call'[a]]
      /\ \/ call'[a] = [Idle EXCEPT !.step = "read", !.at = clock,
                           !.task = task, !.epoch = e]
         \/ call'[a] = [Idle EXCEPT !.step = "read", !.at = clock,
                           !.task = task, !.epoch = e, !.pair = p]
  BY ActorFacts
<1>2. /\ call'[a] \in Call /\ call'[a].step = "read" /\ call'[a].task = task
      /\ call'[a].view = AbsentRow /\ call'[a].life = 0
  <2>1. "read" \in Steps /\ clock \in Nat
    BY ActorFacts DEF Steps
  <2>. QED
    BY <1>1, <2>1, IdleCall DEF Call
<1>. QED
  BY <1>1, <1>2, ActorFacts, Forgotten

LEMMA SlotSteps ==
    ASSUME IInv, NEW a \in Actors, Slotting(a)
    PROVE  IInv'
<1>0. NoSlot \in Slot /\ slot \in Slot
  BY ActorFacts DEF NoSlot, Slot
<1>1. CASE PlanSlot(a)
  <2>0. PICK task \in {"plan", "enqueue"} :
          Begin(a, [Idle EXCEPT !.step = "read", !.task = task])
    BY <1>1 DEF PlanSlot
  <2>. DEFINE c == [Idle EXCEPT !.step = "read", !.task = task]
  <2>1. /\ c \in Call /\ c.step = "read" /\ c.task # "poll"
        /\ c.view = AbsentRow /\ c.life = 0
    BY IdleCall DEF Call, Steps, Tasks
  <2>2. Begin(a, c)
    BY <2>0
  <2>. HIDE DEF c
  <2>3. /\ call' = [call EXCEPT ![a] = call'[a]]
        /\ CallOK(call'[a]) /\ Fenced(call'[a], row, resets)
    BY <2>1, <2>2, Starts
  <2>. QED
    BY <1>1, <2>3, ActorFacts, CallerMoves DEF PlanSlot
<1>2. CASE EnqueueSlot(a)
  <2>1. Epoch(call[a].view) \in Nat
    BY EpochIsNat
  <2>2. slot' \in Slot
    <3>1. call[a].epoch \in Nat
      BY ActorFacts DEF Call
    <3>. QED
      BY <1>0, <1>2, <2>1, <3>1 DEF EnqueueSlot, Slot
  <2>3. /\ call' = [call EXCEPT ![a] = call'[a]]
        /\ CallOK(call'[a]) /\ Fenced(call'[a], row, resets)
    BY <1>2, ActorFacts, CallerLeaves DEF EnqueueSlot
  <2>. QED
    BY <1>2, <2>2, <2>3, ActorFacts, CallerMoves DEF EnqueueSlot
<1>3. CASE ClaimSlot(a)
  <2>. DEFINE c == [Idle EXCEPT !.step = "read", !.task = "guard",
                                !.epoch = slot.epoch]
  <2>1. /\ c \in Call /\ c.step = "read" /\ c.task # "poll"
        /\ c.view = AbsentRow /\ c.life = 0
    BY <1>0, IdleCall DEF Call, Steps, Tasks, Slot
  <2>2. Begin(a, c)
    BY <1>3 DEF ClaimSlot
  <2>. HIDE DEF c
  <2>3. /\ call' = [call EXCEPT ![a] = call'[a]]
        /\ CallOK(call'[a]) /\ Fenced(call'[a], row, resets)
    BY <2>1, <2>2, Starts
  <2>4. slot' \in Slot
    BY <1>0, <1>3 DEF ClaimSlot, Slot
  <2>. QED
    BY <1>3, <2>3, <2>4, ActorFacts, CallerMoves DEF ClaimSlot
<1>4. CASE Complete(a) \/ Retry(a)
  <2>1. slot' \in Slot
    BY <1>0, <1>4 DEF Complete, Retry, GiveBack, Slot
  <2>2. /\ call' = [call EXCEPT ![a] = call'[a]]
        /\ CallOK(call'[a]) /\ Fenced(call'[a], row, resets)
    BY <1>4, ActorFacts, CallerLeaves DEF Complete, Retry
  <2>. QED
    BY <1>4, <2>1, <2>2, ActorFacts, CallerMoves DEF Complete, Retry
<1>5. CASE Plan(a)
  <2>1. CASE Finished(a)
    <3>1. /\ call' = [call EXCEPT ![a] = call'[a]]
          /\ CallOK(call'[a]) /\ Fenced(call'[a], row, resets)
      BY <2>1, ActorFacts, CallerLeaves
    <3>. QED
      BY <1>5, <3>1, ActorFacts, CallerMoves DEF Plan
  <2>2. ASSUME NEW e \in {0, Epoch(call[a].view)},
               call' = [call EXCEPT
                          ![a] = [Idle EXCEPT !.step = "read", !.at = clock,
                                    !.task = "enqueue", !.epoch = e]]
        PROVE  IInv'
    <3>1. e \in Nat
      BY EpochIsNat
    <3>2. /\ call' = [call EXCEPT ![a] = call'[a]]
          /\ CallOK(call'[a]) /\ Fenced(call'[a], row, resets)
      BY <2>2, <3>1, ActorFacts, ReadsAfresh DEF Tasks
    <3>. QED
      BY <1>5, <3>2, ActorFacts, CallerMoves DEF Plan
  <2>. QED
    BY <1>5, <2>1, <2>2 DEF Plan
<1>6. CASE Guard(a)
  <2>1. CASE Ends(a, "finish")
    <3>1. /\ call' = [call EXCEPT ![a] = call'[a]]
          /\ CallOK(call'[a]) /\ Fenced(call'[a], row, resets)
      BY <2>1, ActorFacts, CallerLeaves
    <3>. QED
      BY <1>6, <3>1, ActorFacts, CallerMoves DEF Guard
  <2>2. CASE call' = [call EXCEPT
                        ![a] = [Idle EXCEPT !.step = "read", !.at = clock,
                                  !.task = "compose", !.epoch = call[a].epoch,
                                  !.pair = IF pairs > gone THEN pairs ELSE 0]]
    <3>. DEFINE p == IF pairs > gone THEN pairs ELSE 0
    <3>1. p \in Nat /\ call[a].epoch \in Nat
      BY ActorFacts DEF IInv, FeedTypeOK, Call
    <3>2. call' = [call EXCEPT
                     ![a] = [Idle EXCEPT !.step = "read", !.at = clock,
                               !.task = "compose", !.epoch = call[a].epoch,
                               !.pair = p]]
      BY <2>2
    <3>. HIDE DEF p
    <3>3. /\ call' = [call EXCEPT ![a] = call'[a]]
          /\ CallOK(call'[a]) /\ Fenced(call'[a], row, resets)
      BY <3>1, <3>2, ActorFacts, ReadsAfresh DEF Tasks
    <3>. QED
      BY <1>6, <3>3, ActorFacts, CallerMoves DEF Guard
  <2>. QED
    BY <1>6, <2>1, <2>2 DEF Guard
<1>. QED
  BY <1>1, <1>2, <1>3, <1>4, <1>5, <1>6 DEF Slotting

\* A handler that goes on with the same row.
LEMMA HandlerGoesOn ==
    ASSUME IInv, NEW a \in Actors, NEW c \in Call,
           call[a].step # "write",
           c.view = call[a].view, c.life = call[a].life,
           c.step \in {"attach", "put", "commit"}, c.task = call[a].task,
           c.req = call[a].req, c.step = "put" => c.art \in ArtifactIds
    PROVE  CallOK(c) /\ Fenced(c, row, resets)
<1>1. CallOK(call[a]) /\ Fenced(call[a], row, resets)
  BY ActorFacts
<1>2. CallOK(c)
  BY <1>1 DEF CallOK
<1>3. Fenced(c, row, resets)
  BY <1>1 DEF Fenced, Agrees
<1>. QED
  BY <1>2, <1>3

LEMMA ComposeStep ==
    ASSUME IInv, NEW a \in Actors, Compose(a)
    PROVE  IInv'
<1>. DEFINE c == call[a]
<1>1. /\ UNCHANGED <<row, artifacts, pairs, gone, slot, clock, resets, shown>>
      /\ c.step = "compose"
  BY DEF Compose
<1>2. /\ c \in Call /\ minted \in 0..MaxArtifacts /\ slot' \in Slot
      /\ clock \in Nat /\ pairs \in Nat /\ call \in [Actors -> Call]
      /\ DOMAIN artifacts \subseteq ArtifactIds
  BY <1>1, ActorFacts DEF IInv, FeedTypeOK
<1>3. CASE /\ Ends(a, "finish") \/ Ends(a, "again")
           /\ UNCHANGED minted
  <2>1. /\ call' = [call EXCEPT ![a] = call'[a]]
        /\ CallOK(call'[a]) /\ Fenced(call'[a], row, resets)
    BY <1>3, ActorFacts, CallerLeaves
  <2>. QED
    BY <1>1, <1>2, <1>3, <2>1, CallerMoves
<1>4. ASSUME NEW x \in DOMAIN artifacts, UNCHANGED minted,
             call' = [call EXCEPT ![a].step = "attach", ![a].art = x,
                                  ![a].at = clock]
      PROVE  IInv'
  <2>. DEFINE d == [c EXCEPT !.step = "attach", !.art = x, !.at = clock]
  <2>1. call' = [call EXCEPT ![a] = call'[a]] /\ call'[a] = d
    BY <1>2, <1>4
  <2>2. /\ d \in Call /\ d.step = "attach" /\ d.view = c.view
        /\ d.life = c.life /\ d.task = c.task /\ d.req = c.req
    <3>1. "attach" \in Steps /\ x \in ArtifactIds
      BY <1>2 DEF Steps, Tasks
    <3>. HIDE DEF c
    <3>. QED
      BY <1>2, <3>1 DEF Call
  <2>3. CallOK(d) /\ Fenced(d, row, resets)
    <3>. HIDE DEF d
    <3>. QED
      BY <1>1, <2>2, HandlerGoesOn
  <2>. QED
    BY <1>1, <1>2, <1>4, <2>1, <2>3, CallerMoves
<1>5. CASE /\ minted < MaxArtifacts
           /\ minted' = minted + 1
           /\ call' = [call EXCEPT ![a].step = "put", ![a].pair = Supply(c),
                                   ![a].art = minted', ![a].at = clock]
  <2>. DEFINE p == Supply(c)
              d == [c EXCEPT !.step = "put", !.pair = p,
                             !.art = minted', !.at = clock]
  <2>0. p \in Nat
    BY <1>2 DEF Supply, Call
  <2>1. minted' \in 0..MaxArtifacts /\ minted' \in ArtifactIds
    BY <1>2, <1>5 DEF ArtifactIds
  <2>2. call' = [call EXCEPT ![a] = call'[a]] /\ call'[a] = d
    BY <1>2, <1>5
  <2>3. /\ d \in Call /\ d.step = "put" /\ d.view = c.view
        /\ d.life = c.life /\ d.task = c.task /\ d.req = c.req
        /\ d.art \in ArtifactIds
    <3>1. "put" \in Steps
      BY DEF Steps
    <3>. HIDE DEF c, p
    <3>. QED
      BY <1>2, <2>0, <2>1, <3>1 DEF Call
  <2>4. CallOK(d) /\ Fenced(d, row, resets)
    <3>. HIDE DEF d
    <3>. QED
      BY <1>1, <2>3, HandlerGoesOn
  <2>. QED
    BY <1>1, <1>2, <2>1, <2>2, <2>4, CallerMoves
<1>. QED
  BY <1>3, <1>4, <1>5 DEF Compose, Of

LEMMA PutStep ==
    ASSUME IInv, NEW a \in Actors, Put(a)
    PROVE  IInv'
<1>. DEFINE c == call[a]
<1>1. /\ UNCHANGED <<row, minted, pairs, gone, slot, clock, resets, shown>>
      /\ c.step = "put"
  BY DEF Put
<1>2. /\ c \in Call /\ c.art \in ArtifactIds /\ CallOK(c)
      /\ clock \in Nat /\ call \in [Actors -> Call] /\ resets \in Nat
      /\ DOMAIN artifacts \subseteq ArtifactIds
  BY <1>1, ActorFacts DEF IInv, FeedTypeOK, CallOK
<1>3. CASE Ends(a, "again") /\ UNCHANGED artifacts
  <2>1. /\ call' = [call EXCEPT ![a] = call'[a]]
        /\ CallOK(call'[a]) /\ Fenced(call'[a], row, resets)
    BY <1>3, ActorFacts, CallerLeaves
  <2>. QED
    BY <1>1, <1>3, <2>1, ActorFacts, CallerMoves
<1>4. ASSUME NEW x \in DOMAIN artifacts, UNCHANGED artifacts,
             call' = [call EXCEPT
                        ![a] = [Idle EXCEPT !.step = "read", !.at = clock,
                                  !.task = "attach", !.art = x]]
      PROVE  IInv'
  <2>. DEFINE d == [Idle EXCEPT !.step = "read", !.at = clock,
                                !.task = "attach", !.art = x]
  <2>1. call' = [call EXCEPT ![a] = call'[a]] /\ call'[a] = d
    BY <1>2, <1>4
  <2>2. /\ d \in Call /\ d.step = "read" /\ d.task = "attach"
        /\ d.view = AbsentRow /\ d.life = 0
    <3>1. "read" \in Steps /\ "attach" \in Tasks /\ x \in ArtifactIds
      BY <1>2 DEF Steps, Tasks
    <3>. QED
      BY <1>2, <3>1, IdleCall DEF Call
  <2>3. CallOK(d) /\ Fenced(d, row, resets)
    <3>. HIDE DEF d
    <3>. QED
      BY <1>2, <2>2, Forgotten
  <2>. QED
    BY <1>1, <1>4, <2>1, <2>3, ActorFacts, CallerMoves
<1>5. CASE /\ Of(c.pair, c.epoch) = {}
           /\ artifacts' = [x \in DOMAIN artifacts \cup {c.art} |->
                              IF x = c.art
                              THEN [pair |-> c.pair, epoch |-> c.epoch,
                                    created |-> c.at]
                              ELSE artifacts[x]]
           /\ call' = [call EXCEPT ![a].step = "commit", ![a].at = clock]
  <2>. DEFINE d == [c EXCEPT !.step = "commit", !.at = clock]
  <2>1. call' = [call EXCEPT ![a] = call'[a]] /\ call'[a] = d
    BY <1>2, <1>5
  <2>2. /\ d \in Call /\ d.step = "commit" /\ d.view = c.view
        /\ d.life = c.life /\ d.task = c.task /\ d.req = c.req
    <3>1. "commit" \in Steps
      BY DEF Steps
    <3>. HIDE DEF c
    <3>. QED
      BY <1>2, <3>1 DEF Call
  <2>3. CallOK(d) /\ Fenced(d, row, resets)
    <3>. HIDE DEF d
    <3>. QED
      BY <1>1, <2>2, HandlerGoesOn
  <2>4. /\ call' \in [Actors -> Call]
        /\ \A b \in Actors :
             CallOK(call'[b]) /\ Fenced(call'[b], row', resets')
    BY <1>1, <2>1, <2>3, ActorFacts, OthersFenced
  <2>5. DOMAIN artifacts' \subseteq ArtifactIds
    BY <1>2, <1>5
  <2>6. FeedTypeOK'
    BY <1>1, <2>4, <2>5 DEF IInv, FeedTypeOK
  <2>7. AllocatedOnce'
    <3>1. \A x \in DOMAIN artifacts :
            ~(artifacts[x].pair = c.pair /\ artifacts[x].epoch = c.epoch)
      BY <1>5 DEF Of
    <3>2. AllocatedOnce
      BY DEF IInv
    <3>3. \A x \in DOMAIN artifacts' :
            IF x = c.art
            THEN artifacts'[x].pair = c.pair /\ artifacts'[x].epoch = c.epoch
            ELSE x \in DOMAIN artifacts /\ artifacts'[x] = artifacts[x]
      BY <1>5
    <3>. QED
      BY <3>1, <3>2, <3>3 DEF AllocatedOnce
  <2>8. History' /\ RefreshOnce'
    BY <1>1 DEF IInv, History, RefreshOnce
  <2>. QED
    BY <1>1, <2>4, <2>6, <2>7, <2>8 DEF IInv
<1>. QED
  BY <1>3, <1>4, <1>5 DEF Put, Of

\* An artifact nowhere in the row may be appended while there is room.
LEMMA Enqueued ==
    ASSUME NEW s \in Seq(ArtifactIds), NEW x \in ArtifactIds,
           x \notin Members(s), Len(s) < Depth,
           \A i, j \in DOMAIN s : s[i] = s[j] => i = j
    PROVE  /\ Append(s, x) \in Seq(ArtifactIds)
           /\ Len(Append(s, x)) <= Depth
           /\ \A i, j \in DOMAIN Append(s, x) :
                Append(s, x)[i] = Append(s, x)[j] => i = j
           /\ Members(Append(s, x)) = Members(s) \cup {x}
<1>. DEFINE t == Append(s, x)
<1>1. /\ t \in Seq(ArtifactIds) /\ Len(t) = Len(s) + 1
      /\ \A i \in 1..Len(s) : t[i] = s[i]
      /\ t[Len(s) + 1] = x
  BY AppendProperties
<1>2. /\ DOMAIN s = 1..Len(s) /\ Len(s) \in Nat
      /\ DOMAIN t = 1..Len(t)
  BY <1>1, LenProperties
<1>. HIDE DEF t
<1>3. DOMAIN t = DOMAIN s \cup {Len(s) + 1}
  BY <1>1, <1>2
<1>4. \A i \in DOMAIN s : s[i] # x
  BY DEF Members
<1>5. \A i, j \in DOMAIN t : t[i] = t[j] => i = j
  BY <1>1, <1>2, <1>3, <1>4
<1>6. Members(t) = Members(s) \cup {x}
  BY <1>1, <1>2, <1>3 DEF Members
<1>. QED
  BY <1>1, <1>2, <1>5, <1>6 DEF t

\* A feed shown without a request leaves the history of refreshes alone.
LEMMA ShownByHandler ==
    ASSUME IInv, NEW x \in ArtifactIds, row'.exists, row'.version \in Nat,
           row'.version >= row.version, row.version \in Nat, clock \in Nat,
           NEW t \in Nat, Shows(x, t, NoRequest)
    PROVE  History' /\ RefreshOnce'
<1>1. /\ shown \in Seq(Shown) /\ RefreshOnce
      /\ \A i \in DOMAIN shown :
           Asynchronous(shown[i].by) => shown[i].by.baseline < row.version
  BY DEF IInv, History
<1>2. [art |-> x, at |-> t, now |-> clock, by |-> NoRequest] \in Shown
  BY IdleCall DEF Shown, NoRequest, Request
<1>3. /\ shown' \in Seq(Shown)
      /\ DOMAIN shown = 1..Len(shown) /\ Len(shown) \in Nat
      /\ DOMAIN shown' = 1..(Len(shown) + 1)
      /\ \A i \in 1..Len(shown) : shown'[i] = shown[i]
      /\ shown'[Len(shown) + 1].by = NoRequest
  BY <1>1, <1>2, AppendProperties, LenProperties DEF Shows
<1>4. ~Asynchronous(NoRequest)
  BY DEF Asynchronous, NoRequest
<1>5. \A i \in DOMAIN shown : shown[i].by.baseline \in Int
  <2>1. \A i \in DOMAIN shown : shown[i] \in Shown
    BY <1>1, <1>3, ElementOfSeq
  <2>. QED
    BY <2>1 DEF Shown, Request, NoBaseline
<1>6. \A i \in DOMAIN shown' : Asynchronous(shown'[i].by) =>
        i \in DOMAIN shown /\ shown'[i] = shown[i]
  BY <1>3, <1>4
<1>7. History'
  <2>1. \A i \in DOMAIN shown' :
          Asynchronous(shown'[i].by) => shown'[i].by.baseline < row'.version
    BY <1>1, <1>5, <1>6
  <2>. QED
    BY <1>3, <2>1 DEF History
<1>8. RefreshOnce'
  BY <1>1, <1>6 DEF RefreshOnce
<1>. QED
  BY <1>7, <1>8

LEMMA AttachStep ==
    ASSUME IInv, NEW a \in Actors, Attach(a)
    PROVE  IInv' /\ (MaxResets = 0 => Moves)
<1>. DEFINE c == call[a]
            x == call[a].art
<1>1. UNCHANGED <<artifacts, minted, pairs, gone, slot, clock, resets>>
  BY DEF Attach
<1>2. /\ row \in Row /\ QueueSoundRow(row) /\ clock \in Nat /\ c.view \in Row
      /\ CallOK(c) /\ Fenced(c, row, resets)
      /\ DOMAIN artifacts \subseteq ArtifactIds
  BY ActorFacts DEF IInv, FeedTypeOK
<1>3. /\ row.ready \in Seq(ArtifactIds) /\ row.version \in Nat
      /\ row.revision \in Nat /\ row.version + 1 \in Nat
      /\ row.revision + 1 \in Nat
  BY <1>2 DEF Row
<1>4. \A r : \A how \in {"finish", "again"} : Ends(a, how) =>
        /\ call' = [call EXCEPT ![a] = call'[a]]
        /\ CallOK(call'[a]) /\ Fenced(call'[a], r, resets)
  BY ActorFacts, CallerLeaves
<1>5. CASE /\ \E how \in {"finish", "again"} : Ends(a, how)
           /\ UNCHANGED <<row, shown>>
  <2>1. /\ call' = [call EXCEPT ![a] = call'[a]]
        /\ CallOK(call'[a]) /\ Fenced(call'[a], row, resets)
    BY <1>4, <1>5
  <2>2. IInv'
    BY <1>1, <1>5, <2>1, ActorFacts, CallerMoves
  <2>. QED
    BY <1>5, <2>2 DEF Moves
<1>6. ASSUME NEW t \in Stamps(a),
             Initializes(x, c.view, t), row' = Initialized(x, t),
             Shows(x, t, NoRequest), Ends(a, "finish")
      PROVE  IInv' /\ (MaxResets = 0 => Moves)
  <2>0. t \in Nat
    BY ActorFacts, StampFacts DEF Call
  <2>1. /\ x \in ArtifactIds /\ row.exists /\ row.active = None
        /\ x \notin Members(row.ready)
    BY <1>2, <1>6 DEF Initializes, Servable, Current, Queued
  <2>2. /\ row' \in Row /\ row'.exists
        /\ row'.active = x /\ row'.ready = row.ready
        /\ row'.version = row.version + 1 /\ row'.revision = row.revision + 1
    <3>. HIDE DEF x
    <3>. QED
      BY <1>2, <1>3, <1>6, <2>0, <2>1 DEF Initialized, Row
  <2>3. QueueSoundRow(row') /\ row'.revision > row.revision
    BY <1>2, <1>3, <2>1, <2>2 DEF QueueSoundRow
  <2>4. History' /\ RefreshOnce'
    BY <1>2, <1>3, <1>6, <2>0, <2>1, <2>2, ShownByHandler
  <2>5. IInv'
    BY <1>1, <1>4, <1>6, <2>2, <2>3, <2>4, RowMoves
  <2>6. Moves
    <3>1. Feed!Publish(x)
      BY <2>1, <2>2 DEF Feed!Publish, Feed!Waiting, Feed!Nothing, None, Members
    <3>. QED
      BY <2>1, <3>1 DEF Moves, Feed!QueueNext
  <2>. QED
    BY <2>5, <2>6
<1>7. ASSUME NEW t \in Stamps(a),
             Appends(x, c.view, t), row' = Appended(x), Ends(a, "finish"),
             UNCHANGED shown
      PROVE  IInv' /\ (MaxResets = 0 => Moves)
  <2>1. /\ x \in ArtifactIds /\ row.exists /\ c.view.active # None
        /\ row.revision = c.view.revision
        /\ x \notin Members(row.ready) /\ x # row.active
        /\ Len(row.ready) < Depth
    BY <1>2, <1>7 DEF Appends, Appendable, Promotable, Servable, Current,
                      Queued, ArtifactIds, None
  <2>2. /\ Append(row.ready, x) \in Seq(ArtifactIds)
        /\ Len(Append(row.ready, x)) <= Depth
        /\ \A i, j \in DOMAIN Append(row.ready, x) :
             Append(row.ready, x)[i] = Append(row.ready, x)[j] => i = j
        /\ Members(Append(row.ready, x)) = Members(row.ready) \cup {x}
    BY <1>2, <1>3, <2>1, Enqueued DEF QueueSoundRow
  <2>3. /\ row' \in Row /\ row'.exists
        /\ row'.active = row.active /\ row'.ready = Append(row.ready, x)
        /\ row'.version = row.version /\ row'.revision = row.revision + 1
    <3>. HIDE DEF x
    <3>. QED
      BY <1>2, <1>3, <1>7, <2>1, <2>2 DEF Appended, Row
  <2>4. QueueSoundRow(row') /\ row'.revision > row.revision
    BY <1>2, <1>3, <2>1, <2>2, <2>3 DEF QueueSoundRow
  <2>5. History' /\ RefreshOnce'
    BY <1>7, <2>3, HistoryKept
  <2>6. IInv'
    BY <1>1, <1>4, <1>7, <2>3, <2>4, <2>5, RowMoves
  <2>7. ASSUME MaxResets = 0
        PROVE  Moves
    <3>1. c.view.exists
      BY <1>2, <2>1 DEF CallOK, AbsentRow
    <3>2. c.step # "write"
      BY DEF Attach
    <3>3. row = c.view
      BY <1>2, <2>1, <2>7, <3>1, <3>2, ActorFacts DEF Fenced, Agrees
    <3>4. Feed!Prepare(x)
      BY <2>1, <2>3, <3>3 DEF Feed!Prepare, Feed!Waiting, Feed!Nothing, None,
                              Members
    <3>. QED
      BY <2>1, <3>4 DEF Moves, Feed!QueueNext
  <2>. QED
    BY <2>6, <2>7
<1>. QED
  BY <1>5, <1>6, <1>7 DEF Attach

-----------------------------------------------------------------------------
(* The rest of the system, and the induction. *)

LEMMA InitIInv == Init => IInv
<1>. SUFFICES ASSUME Init
              PROVE  IInv
  OBVIOUS
<1>1. /\ row = AbsentRow /\ artifacts = << >> /\ minted = 0 /\ pairs = 0
      /\ gone = 0 /\ slot = NoSlot /\ call = [a \in Actors |-> Idle]
      /\ clock = 1 /\ resets = 0 /\ shown = << >>
  BY DEF Init
<1>2. DOMAIN artifacts = {} /\ DOMAIN shown = {} /\ shown \in Seq(Shown)
  BY <1>1, EmptySeq
<1>3. NoSlot \in Slot
  BY DEF NoSlot, Slot
<1>4. FeedTypeOK
  BY <1>1, <1>2, <1>3, ConstantRows, IdleCall DEF FeedTypeOK
<1>5. CallOK(Idle) /\ Fenced(Idle, row, resets)
  BY <1>1, IdleCall, Forgotten DEF Idle
<1>6. AllocatedOnce /\ History /\ RefreshOnce
  BY <1>1, <1>2 DEF AllocatedOnce, History, RefreshOnce
<1>. QED
  BY <1>1, <1>4, <1>5, <1>6, ConstantRows DEF IInv

LEMMA CrashStep ==
    ASSUME IInv, NEW a \in Actors, Crash(a)
    PROVE  IInv'
<1>1. /\ call' = [call EXCEPT ![a] = call'[a]]
      /\ CallOK(call'[a]) /\ Fenced(call'[a], row, resets)
  BY ActorFacts, CallerLeaves DEF Crash
<1>. QED
  BY <1>1, ActorFacts, CallerMoves DEF Crash

\* A reset starts a new life, in which no caller holds the row.
LEMMA DeleteScopeStep ==
    ASSUME IInv, DeleteScope
    PROVE  IInv' /\ MaxResets # 0
<1>1. /\ resets' = resets + 1 /\ row' = AbsentRow /\ artifacts' = << >>
      /\ gone' = pairs /\ slot' = NoSlot /\ shown' = << >>
      /\ UNCHANGED <<minted, pairs, call, clock>> /\ resets < MaxResets
  BY DEF DeleteScope
<1>2. DOMAIN artifacts' = {} /\ DOMAIN shown' = {} /\ shown' \in Seq(Shown)
  BY <1>1, EmptySeq
<1>3. NoSlot \in Slot
  BY DEF NoSlot, Slot
<1>4. resets \in 0..MaxResets /\ resets' \in 0..MaxResets /\ resets' > resets
  BY <1>1 DEF IInv, FeedTypeOK
<1>5. FeedTypeOK'
  BY <1>1, <1>2, <1>3, <1>4, ConstantRows DEF IInv, FeedTypeOK
<1>6. ASSUME NEW b \in Actors
      PROVE  CallOK(call'[b]) /\ Fenced(call'[b], row', resets')
  <2>1. call[b] \in Call /\ CallOK(call[b]) /\ call[b].life <= resets
    BY <1>6, ActorFacts DEF Fenced
  <2>2. call[b].life \in Nat
    BY <2>1 DEF Call
  <2>3. call[b].life < resets' /\ call[b].life <= resets'
    BY <1>4, <2>1, <2>2
  <2>4. call[b].life # resets'
    BY <1>4, <2>2, <2>3
  <2>. QED
    BY <1>1, <2>1, <2>3, <2>4 DEF Fenced
<1>7. AllocatedOnce' /\ History' /\ RefreshOnce'
  BY <1>1, <1>2 DEF AllocatedOnce, History, RefreshOnce
<1>8. IInv'
  BY <1>1, <1>5, <1>6, <1>7, ConstantRows DEF IInv
<1>. QED
  BY <1>1, <1>4, <1>8

LEMMA NextIInv ==
    IInv /\ [Next]_vars => IInv' /\ (MaxResets = 0 => Moves)
<1>. SUFFICES ASSUME IInv, [Next]_vars
              PROVE  IInv' /\ (MaxResets = 0 => Moves)
  OBVIOUS
<1>1. ASSUME NEW a \in Actors, Reconciling(a)
      PROVE  IInv' /\ (MaxResets = 0 => Moves)
  <2>1. CASE Read(a) \/ Reread(a)
    <3>1. UNCHANGED row
      BY <2>1 DEF Read, Reread
    <3>. QED
      BY <2>1, <3>1, ReadStep, RereadStep DEF Moves
  <2>2. CASE Create(a) \/ Write(a)
    BY <2>2, CreateStep, WriteStep
  <2>3. CASE WriteLost(a)
    <3>1. UNCHANGED row
      BY <2>3 DEF WriteLost
    <3>. QED
      BY <2>3, <3>1, WriteLostStep DEF Moves
  <2>. QED
    BY <1>1, <2>1, <2>2, <2>3 DEF Reconciling
<1>2. ASSUME NEW a \in Actors, Serving(a)
      PROVE  IInv' /\ (MaxResets = 0 => Moves)
  <2>1. CASE Recommend(a)
    <3>1. UNCHANGED row
      BY <2>1 DEF Recommend
    <3>. QED
      BY <2>1, <3>1, RecommendStep DEF Moves
  <2>2. CASE Decide(a)
    BY <2>2, DecideStep
  <2>3. CASE Settle(a)
    <3>1. UNCHANGED row
      BY <2>3 DEF Settle
    <3>. QED
      BY <2>3, <3>1, SettleStep DEF Moves
  <2>4. CASE Poll(a)
    BY <2>4, PollStep
  <2>. QED
    BY <1>2, <2>1, <2>2, <2>3, <2>4 DEF Serving
<1>3. ASSUME NEW a \in Actors, Slotting(a)
      PROVE  IInv' /\ (MaxResets = 0 => Moves)
  <2>1. UNCHANGED row
    BY <1>3 DEF Slotting, PlanSlot, Plan, EnqueueSlot, ClaimSlot, Guard,
                Complete, Retry
  <2>. QED
    BY <1>3, <2>1, SlotSteps DEF Moves
<1>4. ASSUME NEW a \in Actors, Composing(a)
      PROVE  IInv' /\ (MaxResets = 0 => Moves)
  <2>1. CASE Compose(a)
    <3>1. UNCHANGED row
      BY <2>1 DEF Compose
    <3>. QED
      BY <2>1, <3>1, ComposeStep DEF Moves
  <2>2. CASE Put(a)
    <3>1. UNCHANGED row
      BY <2>2 DEF Put
    <3>. QED
      BY <2>2, <3>1, PutStep DEF Moves
  <2>3. CASE Attach(a)
    BY <2>3, AttachStep
  <2>. QED
    BY <1>4, <2>1, <2>2, <2>3 DEF Composing
<1>5. ASSUME NEW a \in Actors, Crash(a)
      PROVE  IInv' /\ Moves
  <2>1. UNCHANGED row
    BY <1>5 DEF Crash
  <2>. QED
    BY <1>5, <2>1, CrashStep DEF Moves
<1>6. CASE LeaseExpires
  <2>0. slot \in Slot
    BY DEF IInv, FeedTypeOK
  <2>1. UNCHANGED <<row, artifacts, minted, pairs, gone, call, clock, resets,
                    shown>>
    BY <1>6 DEF LeaseExpires
  <2>2. slot' \in Slot
    <3>1. CASE slot' = [slot EXCEPT !.status = "waiting", !.owner = "nobody"]
      BY <2>0, <3>1 DEF Slot
    <3>2. CASE slot' = NoSlot
      BY <3>2 DEF NoSlot, Slot
    <3>. QED
      BY <1>6, <3>1, <3>2 DEF LeaseExpires, GiveBack
  <2>3. pairs \in Nat /\ gone \in Nat /\ clock \in Nat
    BY DEF IInv, FeedTypeOK
  <2>. QED
    BY <2>1, <2>2, <2>3, RowAndCallersKept DEF Moves
<1>7. CASE NewSupply \/ Tick
  <2>1. /\ UNCHANGED <<row, artifacts, minted, gone, slot, call, resets, shown>>
        /\ pairs' \in Nat /\ clock' \in Nat
    BY <1>7 DEF NewSupply, Tick, IInv, FeedTypeOK
  <2>2. gone' \in Nat /\ slot' \in Slot
    BY <2>1 DEF IInv, FeedTypeOK
  <2>. QED
    BY <2>1, <2>2, RowAndCallersKept DEF Moves
<1>8. CASE DeleteScope
  BY <1>8, DeleteScopeStep
<1>9. CASE UNCHANGED vars
  <2>1. UNCHANGED <<row, artifacts, minted, pairs, gone, slot, call, clock,
                    resets, shown>>
    BY <1>9 DEF vars
  <2>2. pairs \in Nat /\ gone \in Nat /\ clock \in Nat /\ slot \in Slot
    BY DEF IInv, FeedTypeOK
  <2>. QED
    BY <2>1, <2>2, RowAndCallersKept DEF Moves
<1>. QED
  BY <1>1, <1>2, <1>3, <1>4, <1>5, <1>6, <1>7, <1>8, <1>9 DEF Next

\* The inductive invariant holds in every reachable state.
THEOREM FeedInvariance == Spec => []IInv
<1>1. Init => IInv
  BY InitIInv
<1>2. IInv /\ [Next]_vars => IInv'
  BY NextIInv
<1>. QED
  BY <1>1, <1>2, PTL DEF Spec

\* Every row, artifact, slot and caller keeps its type (home_feed_state,
\* home_feed_artifacts and the locals of the functions that use them).
THEOREM FeedTypeCorrect == Spec => []FeedTypeOK
<1>1. IInv => FeedTypeOK
  BY DEF IInv
<1>. QED
  BY <1>1, FeedInvariance, PTL

\* Whatever reconcile, initialize_active, append_ready and promote_ready
\* interleave, the queue names no artifact twice, never the one on screen,
\* and no more than QUEUE_TARGET_DEPTH.
THEOREM QueueAlwaysSound == Spec => []QueueSound
<1>1. IInv => QueueSound
  BY DEF IInv, QueueSound
<1>. QED
  BY <1>1, FeedInvariance, PTL

\* The optimistic revision guard is sound within a life of the account: a
\* writer whose revision still stands writes over the row it read.
THEOREM RevisionGuardSound == Spec => []RevisionNamesRow
<1>1. IInv => RevisionNamesRow
  <2>. SUFFICES ASSUME IInv, NEW a \in Actors,
                       call[a].view.exists, call[a].life = resets,
                       Current(call[a].view)
                PROVE  IF call[a].step = "write"
                       THEN Prunes(call[a].view, row) ELSE row = call[a].view
    BY DEF RevisionNamesRow
  <2>1. Fenced(call[a], row, resets)
    BY DEF IInv
  <2>. QED
    BY <2>1 DEF Fenced, Agrees, Current
<1>. QED
  BY <1>1, FeedInvariance, PTL

\* Handlers that compose the same supply and epoch at the same time store one
\* artifact for it (artifacts.put and its unique index).
THEOREM SupplyAllocatedOnce == Spec => []AllocatedOnce
<1>1. IInv => AllocatedOnce
  BY DEF IInv
<1>. QED
  BY <1>1, FeedInvariance, PTL

\* recommend and promote_ready answer a refresh from one version with one
\* promotion, whatever its token and however many clients send it.
THEOREM RefreshPromotesOnce == Spec => []RefreshOnce
<1>1. IInv => RefreshOnce
  BY DEF IInv
<1>. QED
  BY <1>1, FeedInvariance, PTL

\* While no account reset interferes, the row of home_feed_state implements
\* the bounded first-in first-out queue of FeedQueue.
THEOREM FeedImplementsQueue ==
    ASSUME MaxResets = 0
    PROVE  Spec => FeedIsQueue
<1>1. Init => Feed!QueueInit
  BY DEF Init, AbsentRow, Feed!QueueInit, Feed!Nothing, None
<1>2. IInv /\ [Next]_vars => [Feed!QueueNext]_<<row.active, row.ready>>
  BY NextIInv DEF Moves
<1>. QED
  BY <1>1, <1>2, FeedInvariance, PTL DEF Spec, FeedIsQueue, Feed!QueueSpec

=============================================================================
