--------------------------- MODULE JobQueueProofs ---------------------------
(***************************************************************************)
(* For any threads, slots and bitfields: the books of JobQueue balance and *)
(* JobQueue implements JobFifo.                                            *)
(***************************************************************************)
EXTENDS JobQueue, TLAPS, FiniteSetTheorems, WellFoundedInduction

\* What a thread holds at each step.
Local(t) ==
    /\ pc[t] \in NextSteps \union {"gone"} => t \in Workers
    /\ pc[t] \in PostSteps \union {"advance", "free", "uncount", "process"} => job[t] \in Jobs
    /\ pc[t] \in {"idle", "wait", "copy", "gone"} => job[t] = NoJob
    /\ pc[t] = "link" => next[slot[t]] = NoSlot /\ jobAt[slot[t]] = job[t]
    /\ pc[t] = "advance" => job[t] = jobAt[next[head]]

Locals ==
    /\ \A t \in Threads : Local(t)
    /\ ~closed => pc[Owner] = "idle"

\* The spinlock is held exactly between the two halves of a change of the list.
LockOwner == \A t \in Threads : lock = t <=> pc[t] \in {"swing", "advance"}

\* The slots p[0], ..., p[m] are the list: the dummy and m jobs.  The tail is
\* one behind while a job that has been linked is not the tail yet.
IsList(m, p) ==
    /\ p[0] = head /\ next[p[m]] = NoSlot
    /\ \A i \in 1 .. m : next[p[i - 1]] = p[i] /\ jobAt[p[i]] \in Jobs
    /\ \A i, j \in 0 .. m : p[i] = p[j] => i = j
    /\ IF \E t \in Threads : pc[t] = "swing" THEN m > 0 /\ tail = p[m - 1] ELSE tail = p[m]
    /\ \A t \in Threads : pc[t] = "swing" => slot[t] = p[m]

\* Every taken slot has one owner.
Owned(m, p) ==
    /\ taken = {p[i] : i \in 0 .. m} \union {slot[t] : t \in Outside}
    /\ \A t \in Outside : slot[t] \in Slots /\ \A i \in 0 .. m : p[i] # slot[t]
    /\ \A t, u \in Outside : slot[t] = slot[u] => t = u

At(steps) == {t \in Threads : pc[t] \in steps}

Counted == count + Cardinality(At({"count"})) = Cardinality(taken) + Cardinality(At({"uncount"}))

Posted(m) ==
    sem + Cardinality(At({"swing", "signal"})) + Cardinality(At({"copy", "advance"})) = m

Listed == \E m \in 0 .. Capacity - 1 : \E p \in [0 .. m -> Slots] :
              IsList(m, p) /\ Owned(m, p) /\ Posted(m)

\* The inductive invariant.
IInv == TypeOK /\ Locals /\ LockOwner /\ Counted /\ Listed

-----------------------------------------------------------------------------
(***************************************************************************)
(* Lemmas about the constants, numbers, counts and the walk of the list.   *)
(***************************************************************************)
LEMMA Constants ==
    /\ Capacity \in Nat \ {0} /\ 0 \in Slots /\ 0 \in Groups /\ NoSlot \notin Slots
    /\ NoJob \notin Jobs /\ Quit \in Jobs /\ Posters \subseteq Jobs
    /\ Nobody \notin Threads /\ Owner \in Threads /\ Owner \notin Workers
    /\ Posters \subseteq Threads /\ Workers \subseteq Threads /\ Posters \cap Workers = {}
  <1>1. Capacity \in Nat \ {0} /\ GroupSize \in Nat \ {0} /\ Capacity % GroupSize = 0
    BY WholeGroups
  <1>2. Capacity \div GroupSize \in Nat \ {0}
    <2>1. Capacity \div GroupSize \in Int /\ Capacity = GroupSize * (Capacity \div GroupSize) + (Capacity % GroupSize)
      BY <1>1
    <2> DEFINE q == Capacity \div GroupSize
    <2> HIDE DEF q
    <2>2. q \in Int /\ Capacity = GroupSize * q
      BY <1>1, <2>1 DEF q
    <2>3. q > 0
      BY <1>1, <2>2
    <2> QED
      BY <2>2, <2>3 DEF q
  <1> QED
    BY <1>1, <1>2, DistinctThreads, NoSlotIsNone, JobsDistinct DEF Slots, Groups, Jobs, Threads

\* A set of numbers that is not empty has a least element.
LEMMA LeastElement ==
    ASSUME NEW S \in SUBSET Nat, S # {}
    PROVE  \E x \in S : \A y \in S : x <= y
  <1>1. PICK x \in S : \A y \in S : ~(<<y, x>> \in OpToRel(<, Nat))
    BY WFMin, NatLessThanWellFounded
  <1>2. ASSUME NEW y \in S, y < x PROVE FALSE
    <2>1. <<y, x>> \in Nat \X Nat /\ <<y, x>>[1] < <<y, x>>[2]
      BY <1>2
    <2>2. <<y, x>> \in OpToRel(<, Nat)
      BY <2>1 DEF OpToRel
    <2> QED
      BY <1>1, <2>2
  <1> QED
    BY <1>2

\* How a count of threads changes when one of them goes on.
One(b) == IF b THEN 1 ELSE 0

\* The recursive walk of the list meets the slots of the path and then none.
LEMMA WalkIsList ==
    ASSUME NEW m \in 0 .. Capacity - 1, NEW p \in [0 .. m -> Slots],
           p[0] = head, next[p[m]] = NoSlot, \A i \in 1 .. m : next[p[i - 1]] = p[i]
    PROVE  \A n \in 0 .. Capacity : Nth[n] = IF n <= m THEN p[n] ELSE NoSlot
  <1> USE Constants
  <1> DEFINE W(w) == [n \in 0 .. Capacity |->
                         IF n = 0 THEN head ELSE IF w[n - 1] = NoSlot THEN NoSlot ELSE next[w[n - 1]]]
             g == [n \in 0 .. Capacity |-> IF n <= m THEN p[n] ELSE NoSlot]
  <1>1. g = W(g)
    <2> SUFFICES ASSUME NEW n \in 0 .. Capacity
                 PROVE  g[n] = IF n = 0 THEN head ELSE IF g[n - 1] = NoSlot THEN NoSlot ELSE next[g[n - 1]]
      OBVIOUS
    <2>1. CASE n = 0
      BY <2>1
    <2>2. CASE n > 0 /\ n <= m
      <3>1. g[n - 1] = p[n - 1] /\ p[n - 1] \in Slots /\ g[n] = p[n] /\ n - 1 \in 0 .. m
        BY <2>2
      <3> QED
        BY <2>2, <3>1
    <2>3. CASE n = m + 1
      <3>1. g[n - 1] = p[m] /\ p[m] \in Slots /\ g[n] = NoSlot
        BY <2>3
      <3> QED
        BY <2>3, <3>1
    <2>4. CASE n > m + 1
      <3>1. g[n - 1] = NoSlot /\ g[n] = NoSlot
        BY <2>4
      <3> QED
        BY <2>4, <3>1
    <2> QED
      BY <2>1, <2>2, <2>3, <2>4
  <1>2. Nth = W(Nth)
    <2> HIDE DEF g
    <2> QED
      BY <1>1 DEF Nth
  <1>3. \A n \in 0 .. Capacity : Nth[n] = g[n]
    <2> DEFINE Bad == {n \in 0 .. Capacity : Nth[n] # g[n]}
    <2> SUFFICES ASSUME Bad # {} PROVE FALSE
      OBVIOUS
    <2> HIDE DEF g
    <2>0. Bad \in SUBSET Nat
      OBVIOUS
    <2>1. PICK n \in Bad : \A k \in Bad : n <= k
      <3> HIDE DEF Bad
      <3> QED
        BY <2>0, LeastElement
    <2>2. n \in 0 .. Capacity /\ Nth[n] # g[n]
      OBVIOUS
    <2>3. Nth[n] = IF n = 0 THEN head ELSE IF Nth[n - 1] = NoSlot THEN NoSlot ELSE next[Nth[n - 1]]
      <3>1. \A k \in 0 .. Capacity : W(Nth)[k] = IF k = 0 THEN head ELSE IF Nth[k - 1] = NoSlot THEN NoSlot ELSE next[Nth[k - 1]]
        OBVIOUS
      <3> HIDE DEF W, Bad
      <3> QED
        BY <1>2, <2>2, <3>1
    <2>4. g[n] = IF n = 0 THEN head ELSE IF g[n - 1] = NoSlot THEN NoSlot ELSE next[g[n - 1]]
      <3>1. \A k \in 0 .. Capacity : W(g)[k] = IF k = 0 THEN head ELSE IF g[k - 1] = NoSlot THEN NoSlot ELSE next[g[k - 1]]
        OBVIOUS
      <3> HIDE DEF W, Bad
      <3> QED
        BY <1>1, <2>2, <3>1
    <2>5. n # 0 => Nth[n - 1] = g[n - 1]
      <3> SUFFICES ASSUME n # 0, Nth[n - 1] # g[n - 1] PROVE FALSE
        OBVIOUS
      <3>1. n - 1 \in 0 .. Capacity /\ n - 1 < n
        BY <2>2
      <3>2. n - 1 \in Bad
        BY <3>1
      <3> HIDE DEF Bad
      <3> QED
        BY <2>1, <2>2, <3>1, <3>2
    <2> QED
      BY <2>2, <2>3, <2>4, <2>5
  <1> QED
    BY <1>3


\* What the list's definitions say of the path.
LEMMA Walk ==
    ASSUME NEW m \in 0 .. Capacity - 1, NEW p \in [0 .. m -> Slots], IsList(m, p)
    PROVE  /\ \A n \in 0 .. m : Nth[n] = p[n]
           /\ Linked = 1 .. m
           /\ List = {p[i] : i \in 0 .. m}
           /\ Cardinality(Linked) = m
  <1> USE Constants
  <1>1. \A n \in 0 .. Capacity : Nth[n] = IF n <= m THEN p[n] ELSE NoSlot
    BY WalkIsList DEF IsList
  <1>2. \A n \in 0 .. m : Nth[n] = p[n] /\ p[n] \in Slots
    BY <1>1
  <1>3. Linked = 1 .. m
    BY <1>1, <1>2 DEF Linked
  <1>4. List = {p[i] : i \in 0 .. m}
    <2>1. head = p[0] /\ 0 \in 0 .. m /\ \A i \in 0 .. m : i = 0 \/ i \in 1 .. m
      BY DEF IsList
    <2>2. \A i \in 1 .. m : Nth[i] = p[i] /\ i \in 0 .. m
      BY <1>2
    <2> QED
      BY <1>3, <2>1, <2>2 DEF List
  <1>5. Cardinality(1 .. m) = m
    BY FS_Interval
  <1> QED
    BY <1>2, <1>3, <1>4, <1>5

\* So the promised queue is the jobs of the path.
ListJobs ==
    \A m \in 0 .. Capacity - 1 : \A p \in [0 .. m -> Slots] :
        IsList(m, p) => queue = [n \in 1 .. m |-> jobAt[p[n]]]

LEMMA JobsOfList == ListJobs
  <1> SUFFICES ASSUME NEW m \in 0 .. Capacity - 1, NEW p \in [0 .. m -> Slots], IsList(m, p)
               PROVE  queue = [n \in 1 .. m |-> jobAt[p[n]]]
    BY DEF ListJobs
  <1>1. Cardinality(Linked) = m /\ \A n \in 1 .. m : Nth[n] = p[n]
    BY Walk
  <1> QED
    BY <1>1 DEF queue

LEMMA JobsOfListNext == ListJobs'
  BY JobsOfList, PTL
-----------------------------------------------------------------------------
(***************************************************************************)
(* The steps.                                                              *)
(***************************************************************************)
LEMMA FiniteSets0 == IsFiniteSet(Threads) /\ IsFiniteSet(Slots)
  <1>1. IsFiniteSet(Posters \union Workers \union {Owner})
    BY FiniteThreads, FS_Union, FS_Singleton
  <1>2. IsFiniteSet(Slots)
    BY Constants, FS_Interval DEF Slots
  <1> QED
    BY <1>1, <1>2 DEF Threads

\* The count of the threads at some steps after thread t has made a step.
OnlyMoves(t) == \A u \in Threads \ {t} : pc'[u] = pc[u]

LEMMA Moves ==
    ASSUME NEW t \in Threads, OnlyMoves(t), NEW steps
    PROVE  /\ Cardinality(At(steps)) \in Nat
           /\ pc[t] \notin steps /\ pc'[t] \notin steps => Cardinality(At(steps))' = Cardinality(At(steps))
           /\ pc[t] \notin steps /\ pc'[t] \in steps => Cardinality(At(steps))' = Cardinality(At(steps)) + 1
           /\ pc[t] \in steps /\ pc'[t] \notin steps => Cardinality(At(steps))' = Cardinality(At(steps)) - 1
           /\ pc[t] \in steps /\ pc'[t] \in steps => Cardinality(At(steps))' = Cardinality(At(steps))
  <1> DEFINE R == {u \in Threads \ {t} : pc[u] \in steps}
  <1>1. At(steps) = IF pc[t] \in steps THEN R \union {t} ELSE R
    BY DEF At
  <1>2. At(steps)' = IF pc'[t] \in steps THEN R \union {t} ELSE R
    BY DEF At, OnlyMoves
  <1>3. IsFiniteSet(R) /\ t \notin R
    BY FiniteSets0, FS_Subset
  <1> HIDE DEF R
  <1>4. /\ Cardinality(R) \in Nat
        /\ Cardinality(R \union {t}) = Cardinality(R) + 1
    BY <1>3, FS_AddElement, FS_CardinalityType
  <1> QED
    BY <1>1, <1>2, <1>4

\* A step of another thread leaves a thread what it holds.
LEMMA OthersLocal ==
    ASSUME NEW t \in Threads, NEW u \in Threads \ {t}, Local(u), OnlyMoves(t),
           job'[u] = job[u], slot'[u] = slot[u],
           pc[u] = "link" => next'[slot[u]] = next[slot[u]] /\ jobAt'[slot[u]] = jobAt[slot[u]],
           pc[u] = "advance" => jobAt'[next'[head']] = jobAt[next[head]]
    PROVE  Local(u)'
  <1>1. pc'[u] = pc[u]
    BY DEF OnlyMoves
  <1> QED
    BY <1>1 DEF Local

\* A step of a thread that has nothing to do with the list keeps it.
LEMMA ListKept ==
    ASSUME NEW m, NEW p, IsList(m, p), Owned(m, p), NEW t \in Threads,
           UNCHANGED <<taken, next, jobAt, head, tail>>,
           \A u \in Threads \ {t} : pc'[u] = pc[u] /\ slot'[u] = slot[u],
           pc[t] # "swing", pc'[t] # "swing",
           pc[t] \in {"count", "link", "free"} <=> pc'[t] \in {"count", "link", "free"},
           pc[t] \in {"count", "link", "free"} => slot'[t] = slot[t]
    PROVE  IsList(m, p)' /\ Owned(m, p)'
  <1>1. IsList(m, p)'
    BY DEF IsList
  <1>2. Outside' = Outside /\ \A u \in Outside : slot'[u] = slot[u]
    BY DEF Outside
  <1>3. Owned(m, p)'
    BY <1>2 DEF Owned
  <1> QED
    BY <1>1, <1>3

LEMMA InitIInv == Init => IInv
  <1> SUFFICES ASSUME Init PROVE IInv
    OBVIOUS
  <1> USE Constants
  <1>1. TypeOK
    <2>1. /\ pc \in [Threads -> PostSteps \union NextSteps \union {"idle", "gone"}]
          /\ group \in [Threads -> Groups] /\ attempt \in [Threads -> 1 .. 2]
      BY DEF Init, PostSteps, NextSteps
    <2>2. /\ job \in [Threads -> Jobs \union {NoJob}] /\ slot \in [Threads -> Slots \union {NoSlot}]
          /\ next \in [Slots -> Slots \union {NoSlot}] /\ jobAt \in [Slots -> Jobs \union {NoJob}]
      BY DEF Init
    <2> QED
      BY <2>1, <2>2 DEF Init, TypeOK
  <1>2. Locals /\ LockOwner
    BY DEF Init, Locals, Local, LockOwner, PostSteps, NextSteps
  <1>3. \A steps : steps \cap {"idle", "wait"} = {} => At(steps) = {}
    BY DEF Init, At
  <1>4. /\ At({"count"}) = {} /\ At({"uncount"}) = {} /\ At({"swing", "signal"}) = {}
        /\ At({"copy", "advance"}) = {}
    BY <1>3
  <1>5. Counted
    BY <1>4, FS_EmptySet, FS_Singleton DEF Init, Counted
  <1>6. Listed
    <2> DEFINE p == [i \in 0 .. 0 |-> 0]
    <2>1. 0 \in 0 .. Capacity - 1 /\ p \in [0 .. 0 -> Slots]
      OBVIOUS
    <2>2. IsList(0, p)
      BY DEF Init, IsList
    <2>3. Outside = {}
      BY DEF Init, Outside
    <2>4. Owned(0, p)
      BY <2>3 DEF Init, Owned
    <2>5. Posted(0)
      <3>1. sem = 0 /\ Cardinality(At({"swing", "signal"})) = 0 /\ Cardinality(At({"copy", "advance"})) = 0
        BY <1>4, FS_EmptySet DEF Init
      <3> QED
        BY <3>1 DEF Posted
    <2> HIDE DEF p
    <2> QED
      BY <2>1, <2>2, <2>4, <2>5 DEF Listed
  <1> QED
    BY <1>1, <1>2, <1>5, <1>6 DEF IInv

\* A thread begins to post.
LEMMA StartKeeps ==
    ASSUME IInv, NEW t \in Threads, NEW j \in Jobs, StartPost(t, j), pc[t] \in {"idle", "process"},
           t = Owner => closed', closed => closed', closed' \in BOOLEAN
    PROVE  IInv'
  <1> USE Constants DEF IInv
  <1>1. /\ pc' = [pc EXCEPT ![t] = "scan"] /\ job' = [job EXCEPT ![t] = j]
        /\ UNCHANGED <<taken, count, next, jobAt, head, tail, lock, sem, slot, group, attempt>>
    BY DEF StartPost, Goto, allocVars, listVars, syncVars
  <1>2. TypeOK' /\ OnlyMoves(t) /\ pc'[t] = "scan"
    BY <1>1 DEF TypeOK, PostSteps, OnlyMoves
  <1>3. Locals' /\ LockOwner'
    <2>1. LockOwner'
      BY <1>1 DEF TypeOK, LockOwner
    <2>2. \A u \in Threads \ {t} : Local(u)'
      BY <1>1, <1>2, OthersLocal DEF OnlyMoves, TypeOK, Locals
    <2>3. Local(t)'
      BY <1>1 DEF TypeOK, Locals, Local, PostSteps, NextSteps
    <2>4. ~closed' => pc'[Owner] = "idle"
      BY <1>2 DEF Locals, OnlyMoves
    <2> QED
      BY <2>1, <2>2, <2>3, <2>4 DEF Locals
  <1>4. Counted'
    <2>1. /\ Cardinality(At({"count"}))' = Cardinality(At({"count"}))
          /\ Cardinality(At({"uncount"}))' = Cardinality(At({"uncount"}))
      BY <1>2, Moves
    <2> QED
      BY <1>1, <2>1 DEF Counted
  <1>5. Listed'
    <2>0. PICK m \in 0 .. Capacity - 1 : \E p \in [0 .. m -> Slots] : IsList(m, p) /\ Owned(m, p) /\ Posted(m)
      BY DEF Listed
    <2>1. PICK p \in [0 .. m -> Slots] : IsList(m, p) /\ Owned(m, p) /\ Posted(m)
      BY <2>0
    <2>2. IsList(m, p)' /\ Owned(m, p)'
      BY <1>1, <2>1, ListKept DEF TypeOK
    <2>3. Posted(m)'
      <3>1. /\ Cardinality(At({"swing", "signal"}))' = Cardinality(At({"swing", "signal"}))
            /\ Cardinality(At({"copy", "advance"}))' = Cardinality(At({"copy", "advance"}))
        BY <1>2, Moves
      <3> QED
        BY <1>1, <2>1, <3>1 DEF Posted
    <2> QED
      BY <2>2, <2>3 DEF Listed
  <1> QED
    BY <1>2, <1>3, <1>4, <1>5

\* There are more taken slots than threads that have not counted theirs yet.
LEMMA TakenEnough ==
    ASSUME TypeOK, NEW m \in 0 .. Capacity - 1, NEW p \in [0 .. m -> Slots], Owned(m, p)
    PROVE  /\ IsFiniteSet(taken) /\ Cardinality(taken) \in Nat /\ Cardinality(At({"count"})) \in Nat
           /\ Cardinality(At({"count"})) + 1 <= Cardinality(taken)
  <1> USE Constants
  <1>1. IsFiniteSet(taken) /\ Cardinality(taken) \in Nat
    BY FiniteSets0, FS_Subset, FS_CardinalityType DEF TypeOK
  <1>2. p[0] \in taken
    BY DEF Owned
  <1>3. IsFiniteSet(taken \ {p[0]}) /\ Cardinality(taken \ {p[0]}) = Cardinality(taken) - 1
    BY <1>1, <1>2, FS_RemoveElement
  <1> DEFINE C == At({"count"})
             f == [t \in C |-> slot[t]]
  <1>4. f \in Injection(C, taken \ {p[0]})
    <2>1. C \subseteq Outside
      BY DEF At, Outside
    <2>2. \A t \in C : slot[t] \in taken \ {p[0]}
      BY <2>1 DEF Owned
    <2>3. \A t, u \in C : slot[t] = slot[u] => t = u
      BY <2>1 DEF Owned
    <2> HIDE DEF C
    <2> QED
      BY <2>2, <2>3 DEF Injection, IsInjective
  <1> HIDE DEF f, C
  <1>5. IsFiniteSet(C) /\ Cardinality(C) <= Cardinality(taken \ {p[0]})
    BY <1>3, <1>4, FS_Injection
  <1>6. Cardinality(C) \in Nat
    BY <1>5, FS_CardinalityType
  <1> QED
    BY <1>1, <1>3, <1>5, <1>6 DEF C

\* So the count is positive, and stays so when a slot is uncounted.
LEMMA CountPositive ==
    ASSUME IInv
    PROVE  count \in Nat /\ count > 0
  <1>0. PICK m \in 0 .. Capacity - 1 : \E p \in [0 .. m -> Slots] : IsList(m, p) /\ Owned(m, p) /\ Posted(m)
    BY DEF IInv, Listed
  <1>1. PICK p \in [0 .. m -> Slots] : IsList(m, p) /\ Owned(m, p) /\ Posted(m)
    BY <1>0
  <1>2. /\ Cardinality(taken) \in Nat /\ Cardinality(At({"count"})) \in Nat
        /\ Cardinality(At({"count"})) + 1 <= Cardinality(taken)
    BY <1>1, TakenEnough DEF IInv
  <1>3. Cardinality(At({"uncount"})) \in Nat
    BY FiniteSets0, FS_Subset, FS_CardinalityType DEF At
  <1>4. count \in Nat /\ count + Cardinality(At({"count"})) = Cardinality(taken) + Cardinality(At({"uncount"}))
    BY DEF IInv, TypeOK, Counted
  <1> QED
    BY <1>2, <1>3, <1>4

\* There is a job for whoever has passed the semaphore.
LEMMA JobThere ==
    ASSUME IInv, NEW m \in 0 .. Capacity - 1, NEW p \in [0 .. m -> Slots], IsList(m, p), Posted(m),
           NEW w \in Threads, pc[w] \in {"copy", "advance"}
    PROVE  m > 0 /\ next[head] = p[1] /\ p[1] \in Slots /\ jobAt[p[1]] \in Jobs
  <1>1. IsFiniteSet(At({"copy", "advance"})) /\ IsFiniteSet(At({"swing", "signal"}))
    BY FiniteSets0, FS_Subset DEF At
  <1>2. At({"copy", "advance"}) # {}
    BY DEF At
  <1>3. Cardinality(At({"copy", "advance"})) \in Nat \ {0} /\ Cardinality(At({"swing", "signal"})) \in Nat
    BY <1>1, <1>2, FS_EmptySet, FS_CardinalityType
  <1>4. m > 0
    BY <1>3 DEF IInv, TypeOK, Posted
  <1> QED
    BY <1>4 DEF IsList

\* A step of a thread that leaves the allocator and the list alone.
LEMMA QuietKeeps ==
    ASSUME IInv, NEW t \in Threads, OnlyMoves(t), \A u \in Threads \ {t} : slot'[u] = slot[u],
           UNCHANGED <<taken, count, next, jobAt, head, tail>>,
           pc[t] \notin {"count", "link", "free", "swing", "uncount"},
           pc'[t] \notin {"count", "link", "free", "swing", "uncount"},
           \A m \in Nat : Posted(m) => Posted(m)'
    PROVE  Counted' /\ Listed'
  <1>1. Counted'
    <2>1. /\ Cardinality(At({"count"}))' = Cardinality(At({"count"}))
          /\ Cardinality(At({"uncount"}))' = Cardinality(At({"uncount"}))
      BY Moves
    <2> QED
      BY <2>1 DEF IInv, Counted
  <1>2. Listed'
    <2>0. PICK m \in 0 .. Capacity - 1 : \E p \in [0 .. m -> Slots] : IsList(m, p) /\ Owned(m, p) /\ Posted(m)
      BY DEF IInv, Listed
    <2>1. PICK p \in [0 .. m -> Slots] : IsList(m, p) /\ Owned(m, p) /\ Posted(m)
      BY <2>0
    <2>2. IsList(m, p)' /\ Owned(m, p)'
      BY <2>1, ListKept DEF OnlyMoves
    <2>3. Posted(m)'
      BY <2>1
    <2> QED
      BY <2>2, <2>3 DEF Listed
  <1> QED
    BY <1>1, <1>2

\* The search for a slot that does not find one.
LEMMA SearchKeeps ==
    ASSUME IInv, NEW t \in Threads, SkipGroup(t) \/ DecideFull(t)
    PROVE  IInv'
  <1> USE Constants DEF IInv
  <1>1. /\ UNCHANGED <<taken, count, next, jobAt, head, tail, lock, sem, closed>>
        /\ pc[t] \in {"scan", "full"}
        /\ OnlyMoves(t) /\ pc'[t] \in {"scan", "full", "idle", "gone", "wait"}
        /\ \A u \in Threads \ {t} : slot'[u] = slot[u] /\ job'[u] = job[u]
        /\ pc'[t] \in {"scan", "full"} => job'[t] = job[t]
        /\ pc'[t] \in {"idle", "gone", "wait"} => job'[t] = NoJob
        /\ pc'[t] \in {"gone", "wait"} => t \in Workers
    BY DEF SkipGroup, DecideFull, Return, Rewind, Goto, allocVars, listVars, syncVars, TypeOK, OnlyMoves
  <1>2. TypeOK'
    <2>1. CASE SkipGroup(t)
      BY <2>1 DEF SkipGroup, Goto, allocVars, listVars, syncVars, TypeOK, PostSteps
    <2>2. CASE DecideFull(t)
      <3>1. pc' \in [Threads -> PostSteps \union NextSteps \union {"idle", "gone"}]
        BY <2>2 DEF DecideFull, Return, Goto, TypeOK, PostSteps, NextSteps
      <3>2. job' \in [Threads -> Jobs \union {NoJob}] /\ slot' \in [Threads -> Slots \union {NoSlot}]
        BY <2>2 DEF DecideFull, Return, TypeOK
      <3>3. group' \in [Threads -> Groups] /\ attempt' \in [Threads -> 1 .. 2]
        BY <2>2 DEF DecideFull, Return, Rewind, TypeOK
      <3> QED
        BY <1>1, <3>1, <3>2, <3>3 DEF TypeOK
    <2> QED
      BY <2>1, <2>2
  <1>3. Locals' /\ LockOwner'
    <2>1. LockOwner'
      BY <1>1 DEF LockOwner, OnlyMoves
    <2>2. \A u \in Threads \ {t} : Local(u)'
      BY <1>1, OthersLocal DEF Locals
    <2>3. Local(t)'
      BY <1>1 DEF Locals, Local, PostSteps, NextSteps
    <2>4. ~closed' => pc'[Owner] = "idle"
      BY <1>1 DEF Locals, OnlyMoves
    <2> QED
      BY <2>1, <2>2, <2>3, <2>4 DEF Locals
  <1>4. \A m \in Nat : Posted(m) => Posted(m)'
    <2>1. /\ Cardinality(At({"swing", "signal"}))' = Cardinality(At({"swing", "signal"}))
          /\ Cardinality(At({"copy", "advance"}))' = Cardinality(At({"copy", "advance"}))
      BY <1>1, Moves
    <2> QED
      BY <1>1, <2>1 DEF Posted
  <1>5. Counted' /\ Listed'
    BY <1>1, <1>4, QuietKeeps
  <1> QED
    BY <1>2, <1>3, <1>5

LEMMA FreeSlotFound ==
    ASSUME NEW g, FreeIn(g) # {}
    PROVE  Min(FreeIn(g)) \in Slots \ taken
  <1>1. FreeIn(g) \in SUBSET Nat /\ FreeIn(g) \subseteq Slots \ taken
    BY Constants DEF FreeIn, Slots
  <1>2. PICK x \in FreeIn(g) : \A y \in FreeIn(g) : x <= y
    BY <1>1, LeastElement
  <1>3. Min(FreeIn(g)) \in FreeIn(g)
    BY <1>2 DEF Min
  <1> QED
    BY <1>1, <1>3

\* A free slot becomes the slot of the thread that claims it.
LEMMA ClaimKeeps ==
    ASSUME IInv, NEW t \in Threads, ClaimSlot(t)
    PROVE  IInv'
  <1> USE Constants DEF IInv
  <1> DEFINE s == slot'[t]
  <1>1. /\ UNCHANGED <<count, next, jobAt, head, tail, lock, sem, closed, job>>
        /\ pc[t] = "scan" /\ pc'[t] = "count" /\ OnlyMoves(t)
        /\ s \in Slots \ taken /\ taken' = taken \union {s}
        /\ \A u \in Threads \ {t} : slot'[u] = slot[u]
    BY FreeSlotFound DEF ClaimSlot, Goto, listVars, syncVars, TypeOK, OnlyMoves
  <1>2. TypeOK'
    <2>1. pc' \in [Threads -> PostSteps \union NextSteps \union {"idle", "gone"}]
      BY DEF ClaimSlot, Goto, TypeOK, PostSteps
    <2>2. slot' \in [Threads -> Slots \union {NoSlot}]
      BY FreeSlotFound DEF ClaimSlot, TypeOK
    <2>3. group' \in [Threads -> Groups] /\ attempt' \in [Threads -> 1 .. 2]
      BY DEF ClaimSlot, Rewind, TypeOK
    <2> QED
      BY <1>1, <2>1, <2>2, <2>3 DEF TypeOK
  <1> HIDE DEF s
  <1>3. Locals' /\ LockOwner'
    <2>1. LockOwner'
      BY <1>1 DEF LockOwner, OnlyMoves
    <2>2. \A u \in Threads \ {t} : Local(u)'
      BY <1>1, OthersLocal DEF Locals
    <2>3. Local(t)'
      BY <1>1 DEF Locals, Local, PostSteps, NextSteps
    <2>4. ~closed' => pc'[Owner] = "idle"
      BY <1>1 DEF Locals, OnlyMoves
    <2> QED
      BY <2>1, <2>2, <2>3, <2>4 DEF Locals
  <1>4. Counted'
    <2>1. IsFiniteSet(taken) /\ Cardinality(taken) \in Nat
      BY FiniteSets0, FS_Subset, FS_CardinalityType DEF TypeOK
    <2>2. Cardinality(taken') = Cardinality(taken) + 1
      BY <1>1, <2>1, FS_AddElement
    <2>3. /\ Cardinality(At({"count"}))' = Cardinality(At({"count"})) + 1
          /\ Cardinality(At({"uncount"}))' = Cardinality(At({"uncount"}))
          /\ Cardinality(At({"count"})) \in Nat /\ Cardinality(At({"uncount"})) \in Nat
      BY <1>1, Moves
    <2> QED
      BY <1>1, <2>1, <2>2, <2>3 DEF Counted, TypeOK
  <1>5. Listed'
    <2>0. PICK m \in 0 .. Capacity - 1 : \E p \in [0 .. m -> Slots] : IsList(m, p) /\ Owned(m, p) /\ Posted(m)
      BY DEF Listed
    <2>1. PICK p \in [0 .. m -> Slots] : IsList(m, p) /\ Owned(m, p) /\ Posted(m)
      BY <2>0
    <2>2. IsList(m, p)'
      BY <1>1, <2>1 DEF IsList, OnlyMoves
    <2>3. Outside' = Outside \union {t} /\ t \notin Outside
      BY <1>1 DEF Outside, OnlyMoves
    <2>4. Owned(m, p)'
      <3>1. taken' = {p[i] : i \in 0 .. m} \union {slot'[u] : u \in Outside'}
        BY <1>1, <2>1, <2>3 DEF Owned, s, Outside
      <3>2. \A u \in Outside' : slot'[u] \in Slots /\ \A i \in 0 .. m : p[i] # slot'[u]
        BY <1>1, <2>1, <2>3 DEF Owned, s, Outside
      <3>3. \A u, v \in Outside' : slot'[u] = slot'[v] => u = v
        BY <1>1, <2>1, <2>3 DEF Owned, s, Outside
      <3> QED
        BY <3>1, <3>2, <3>3 DEF Owned
    <2>5. Posted(m)'
      <3>1. /\ Cardinality(At({"swing", "signal"}))' = Cardinality(At({"swing", "signal"}))
            /\ Cardinality(At({"copy", "advance"}))' = Cardinality(At({"copy", "advance"}))
        BY <1>1, Moves
      <3> QED
        BY <1>1, <2>1, <3>1 DEF Posted
    <2> QED
      BY <2>2, <2>4, <2>5 DEF Listed
  <1> QED
    BY <1>2, <1>3, <1>4, <1>5

\* The slot that is counted and written is not in the list.
LEMMA WriteKeeps ==
    ASSUME IInv, NEW t \in Threads, CountAndWrite(t)
    PROVE  IInv' /\ queue' = queue
  <1> USE Constants DEF IInv
  <1> DEFINE s == slot[t]
  <1>0. PICK m \in 0 .. Capacity - 1 : \E p \in [0 .. m -> Slots] : IsList(m, p) /\ Owned(m, p) /\ Posted(m)
    BY DEF Listed
  <1>a. PICK p \in [0 .. m -> Slots] : IsList(m, p) /\ Owned(m, p) /\ Posted(m)
    BY <1>0
  <1>1. /\ UNCHANGED <<taken, head, tail, lock, sem, closed, job, slot, group, attempt>>
        /\ pc[t] = "count" /\ pc'[t] = "link" /\ OnlyMoves(t) /\ count' = count + 1
        /\ pc' \in [Threads -> PostSteps \union NextSteps \union {"idle", "gone"}]
    BY DEF CountAndWrite, Goto, syncVars, localVars, TypeOK, OnlyMoves, PostSteps
  <1>b. t \in Outside
    BY <1>1 DEF Outside
  <1>c. s \in Slots /\ job[t] \in Jobs /\ \A i \in 0 .. m : p[i] # s
    BY <1>a, <1>b, <1>1 DEF Owned, Locals, Local, PostSteps
  <1>d. /\ next' \in [Slots -> Slots \union {NoSlot}] /\ jobAt' \in [Slots -> Jobs \union {NoJob}]
        /\ next'[s] = NoSlot /\ jobAt'[s] = job[t]
        /\ \A r \in Slots \ {s} : next'[r] = next[r] /\ jobAt'[r] = jobAt[r]
    BY <1>c DEF CountAndWrite, TypeOK
  <1> HIDE DEF s
  <1>2. TypeOK'
    BY <1>1, <1>d DEF TypeOK
  <1>3. Locals' /\ LockOwner'
    <2>1. LockOwner'
      BY <1>1 DEF LockOwner, OnlyMoves
    <2>2. ASSUME NEW u \in Threads \ {t} PROVE Local(u)'
      <3>1. pc[u] = "link" => slot[u] # s /\ slot[u] \in Slots
        BY <1>a, <1>b DEF Owned, Outside, s
      <3>2. pc[u] = "advance" => jobAt'[next'[head']] = jobAt[next[head]]
        <4> SUFFICES ASSUME pc[u] = "advance" PROVE jobAt'[next'[head']] = jobAt[next[head]]
          OBVIOUS
        <4>1. m > 0 /\ next[head] = p[1] /\ p[1] \in Slots
          BY <1>a, JobThere
        <4>2. head = p[0] /\ p[0] \in Slots \ {s} /\ p[1] \in Slots \ {s}
          BY <1>a, <1>c, <4>1 DEF IsList
        <4> QED
          BY <1>1, <1>d, <4>1, <4>2
      <3> QED
        BY <1>1, <1>d, <3>1, <3>2, OthersLocal DEF Locals
    <2>3. Local(t)'
      BY <1>1, <1>c, <1>d DEF Local, PostSteps, NextSteps, s
    <2>4. ~closed' => pc'[Owner] = "idle"
      BY <1>1 DEF Locals, OnlyMoves
    <2> QED
      BY <2>1, <2>2, <2>3, <2>4 DEF Locals
  <1>4. Counted'
    <2>1. Cardinality(taken) \in Nat
      BY FiniteSets0, FS_Subset, FS_CardinalityType DEF TypeOK
    <2>3. /\ Cardinality(At({"count"}))' = Cardinality(At({"count"})) - 1
          /\ Cardinality(At({"uncount"}))' = Cardinality(At({"uncount"}))
          /\ Cardinality(At({"count"})) \in Nat /\ Cardinality(At({"uncount"})) \in Nat
      BY <1>1, Moves
    <2> QED
      BY <1>1, <2>1, <2>3 DEF Counted, TypeOK
  <1>5. Listed' /\ queue' = queue
    <2>1. \A i \in 0 .. m : next'[p[i]] = next[p[i]] /\ jobAt'[p[i]] = jobAt[p[i]]
      BY <1>c, <1>d
    <2>2. IsList(m, p)'
      <3>1. \A u \in Threads : pc'[u] = "swing" <=> pc[u] = "swing"
        BY <1>1 DEF OnlyMoves
      <3>2. \A i \in 1 .. m : i \in 0 .. m /\ i - 1 \in 0 .. m
        OBVIOUS
      <3>3. /\ next'[p[m]] = NoSlot
            /\ \A i \in 1 .. m : next'[p[i - 1]] = p[i] /\ jobAt'[p[i]] \in Jobs
        BY <1>a, <2>1, <3>2 DEF IsList
      <3> QED
        BY <1>a, <1>1, <3>1, <3>3 DEF IsList
    <2>3. Outside' = Outside
      BY <1>1 DEF Outside, OnlyMoves
    <2>4. Owned(m, p)'
      BY <1>a, <1>1, <2>3 DEF Owned
    <2>5. Posted(m)'
      <3>1. /\ Cardinality(At({"swing", "signal"}))' = Cardinality(At({"swing", "signal"}))
            /\ Cardinality(At({"copy", "advance"}))' = Cardinality(At({"copy", "advance"}))
        BY <1>1, Moves
      <3> QED
        BY <1>a, <1>1, <3>1 DEF Posted
    <2>6. queue' = queue
      <3>1. queue = [n \in 1 .. m |-> jobAt[p[n]]] /\ queue' = [n \in 1 .. m |-> jobAt'[p[n]]]
        BY <1>a, <2>2, JobsOfList, JobsOfListNext DEF ListJobs
      <3> QED
        BY <2>1, <3>1
    <2> QED
      BY <2>2, <2>4, <2>5, <2>6 DEF Listed
  <1> QED
    BY <1>2, <1>3, <1>4, <1>5

\* A list and a slot outside it are no more than the slots there are.
LEMMA RoomForOne ==
    ASSUME NEW m \in 0 .. Capacity - 1, NEW p \in [0 .. m -> Slots], NEW s \in Slots,
           \A i, j \in 0 .. m : p[i] = p[j] => i = j, \A i \in 0 .. m : p[i] # s
    PROVE  m + 1 \in 0 .. Capacity - 1
  <1> USE Constants
  <1> DEFINE f == [i \in 0 .. m + 1 |-> IF i = m + 1 THEN s ELSE p[i]]
  <1>1. f \in Injection(0 .. m + 1, Slots)
    BY DEF Injection, IsInjective
  <1> HIDE DEF f
  <1>2. Cardinality(0 .. m + 1) <= Cardinality(Slots)
    BY <1>1, FiniteSets0, FS_Injection
  <1>3. Cardinality(0 .. m + 1) = m + 2
    BY FS_Interval
  <1>4. Cardinality(Slots) = Capacity
    BY FS_Interval DEF Slots
  <1> QED
    BY <1>2, <1>3, <1>4

\* The job is appended, and the tail stays behind.
LEMMA LinkKeeps ==
    ASSUME IInv, NEW t \in Threads, LinkJob(t)
    PROVE  IInv' /\ queue' = Append(queue, job[t])
  <1> USE Constants DEF IInv
  <1> DEFINE s == slot[t]
  <1>0. PICK m \in 0 .. Capacity - 1 : \E p \in [0 .. m -> Slots] : IsList(m, p) /\ Owned(m, p) /\ Posted(m)
    BY DEF Listed
  <1>a. PICK p \in [0 .. m -> Slots] : IsList(m, p) /\ Owned(m, p) /\ Posted(m)
    BY <1>0
  <1>1. /\ UNCHANGED <<taken, count, jobAt, head, tail, sem, closed, job, slot, group, attempt>>
        /\ pc[t] = "link" /\ pc'[t] = "swing" /\ OnlyMoves(t) /\ lock = Nobody /\ lock' = t
        /\ pc' \in [Threads -> PostSteps \union NextSteps \union {"idle", "gone"}]
    BY DEF LinkJob, Goto, allocVars, localVars, TypeOK, OnlyMoves, PostSteps
  <1>b. t \in Outside
    BY <1>1 DEF Outside
  <1>c. s \in Slots /\ (\A i \in 0 .. m : p[i] # s) /\ next[s] = NoSlot /\ jobAt[s] \in Jobs /\ job[t] \in Jobs
    BY <1>a, <1>b, <1>1 DEF Owned, Locals, Local, PostSteps
  <1>d. \A u \in Threads : pc[u] \notin {"swing", "advance"}
    BY <1>1 DEF LockOwner
  <1>e. tail = p[m] /\ tail \in Slots
    BY <1>a, <1>d DEF IsList
  <1>f. /\ next' \in [Slots -> Slots \union {NoSlot}] /\ next'[p[m]] = s
        /\ \A r \in Slots \ {p[m]} : next'[r] = next[r]
    BY <1>c, <1>e DEF LinkJob, TypeOK
  <1> HIDE DEF s
  <1>2. TypeOK'
    BY <1>1, <1>f DEF TypeOK
  <1>3. Locals' /\ LockOwner'
    <2>1. LockOwner'
      BY <1>1, <1>d DEF OnlyMoves, LockOwner
    <2>2. ASSUME NEW u \in Threads \ {t} PROVE Local(u)'
      <3>1. pc[u] = "link" => slot[u] # p[m] /\ slot[u] \in Slots
        BY <1>a DEF Owned, Outside
      <3> QED
        BY <1>1, <1>d, <1>f, <3>1, OthersLocal DEF Locals
    <2>3. Local(t)'
      BY <1>1, <1>c DEF Local, PostSteps, NextSteps
    <2>4. ~closed' => pc'[Owner] = "idle"
      BY <1>1 DEF Locals, OnlyMoves
    <2> QED
      BY <2>1, <2>2, <2>3, <2>4 DEF Locals
  <1>4. Counted'
    <2>1. /\ Cardinality(At({"count"}))' = Cardinality(At({"count"}))
          /\ Cardinality(At({"uncount"}))' = Cardinality(At({"uncount"}))
      BY <1>1, Moves
    <2> QED
      BY <1>1, <2>1 DEF Counted
  <1>5. Listed' /\ queue' = Append(queue, job[t])
    <2>1. m + 1 \in 0 .. Capacity - 1
      <3>1. \A i, j \in 0 .. m : p[i] = p[j] => i = j
        BY <1>a DEF IsList
      <3> QED
        BY <1>c, <3>1, RoomForOne
    <2>2. PICK q \in [0 .. m + 1 -> Slots] : q[m + 1] = s /\ \A i \in 0 .. m : q[i] = p[i]
      <3> DEFINE r == [i \in 0 .. m + 1 |-> IF i = m + 1 THEN s ELSE p[i]]
      <3>1. r \in [0 .. m + 1 -> Slots] /\ r[m + 1] = s /\ \A i \in 0 .. m : r[i] = p[i]
        BY <1>c
      <3> QED
        BY <3>1
    <2>3. IsList(m + 1, q)'
      <3>1. q[0] = head' /\ next'[q[m + 1]] = NoSlot
        BY <1>a, <1>c, <1>1, <1>f, <2>2 DEF IsList
      <3>2. ASSUME NEW i \in 1 .. m + 1 PROVE next'[q[i - 1]] = q[i] /\ jobAt'[q[i]] \in Jobs
        <4>1. CASE i = m + 1
          BY <4>1, <1>c, <1>1, <1>f, <2>2
        <4>2. CASE i \in 1 .. m
          <5>1. i - 1 \in 0 .. m /\ i - 1 # m /\ i \in 0 .. m
            BY <4>2
          <5>2. p[i - 1] \in Slots \ {p[m]} /\ next[p[i - 1]] = p[i] /\ jobAt[p[i]] \in Jobs
            BY <1>a, <4>2, <5>1 DEF IsList
          <5> QED
            BY <1>1, <1>f, <2>2, <5>1, <5>2
        <4> QED
          BY <4>1, <4>2
      <3>3. \A i, j \in 0 .. m + 1 : q[i] = q[j] => i = j
        <4>1. \A i \in 0 .. m + 1 : i = m + 1 \/ i \in 0 .. m
          OBVIOUS
        <4> QED
          BY <1>a, <1>c, <2>2, <4>1 DEF IsList
      <3>4. (\E u \in Threads : pc'[u] = "swing") /\ m + 1 > 0 /\ tail' = q[m + 1 - 1]
        BY <1>1, <1>e, <2>2
      <3>5. \A u \in Threads : pc'[u] = "swing" => slot'[u] = q[m + 1]
        BY <1>1, <1>d, <2>2 DEF OnlyMoves, s
      <3> QED
        BY <3>1, <3>2, <3>3, <3>4, <3>5 DEF IsList
    <2>4. Owned(m + 1, q)'
      <3>1. Outside' = Outside \ {t}
        BY <1>1 DEF Outside, OnlyMoves
      <3>2. {q[i] : i \in 0 .. m + 1} = {p[i] : i \in 0 .. m} \union {s}
        BY <2>2
      <3>3. taken' = {q[i] : i \in 0 .. m + 1} \union {slot'[u] : u \in Outside'}
        BY <1>a, <1>b, <1>1, <3>1, <3>2 DEF Owned, s
      <3>4. \A u \in Outside' : slot'[u] \in Slots /\ \A i \in 0 .. m + 1 : q[i] # slot'[u]
        <4>1. \A i \in 0 .. m + 1 : i = m + 1 \/ i \in 0 .. m
          OBVIOUS
        <4> QED
          BY <1>a, <1>b, <1>1, <2>2, <3>1, <4>1 DEF Owned, s
      <3>5. \A u, v \in Outside' : slot'[u] = slot'[v] => u = v
        BY <1>a, <1>1, <3>1 DEF Owned
      <3> QED
        BY <3>3, <3>4, <3>5 DEF Owned
    <2>5. Posted(m + 1)'
      <3> DEFINE a == Cardinality(At({"swing", "signal"}))
                 b == Cardinality(At({"copy", "advance"}))
      <3>1. a' = a + 1 /\ b' = b /\ a \in Nat /\ b \in Nat
        BY <1>1, Moves
      <3>2. sem + a + b = m /\ sem' = sem /\ sem \in Nat
        BY <1>a, <1>1 DEF Posted, TypeOK
      <3>3. sem' + a' + b' = m + 1
        <4> HIDE DEF a, b
        <4> QED
          BY <3>1, <3>2
      <3> QED
        BY <3>3 DEF Posted
    <2>6. queue' = Append(queue, job[t])
      <3>1. queue = [n \in 1 .. m |-> jobAt[p[n]]] /\ queue' = [n \in 1 .. m + 1 |-> jobAt'[q[n]]]
        BY <1>a, <2>1, <2>3, JobsOfList, JobsOfListNext DEF ListJobs
      <3>2. jobAt'[q[m + 1]] = job[t] /\ \A n \in 1 .. m : jobAt'[q[n]] = jobAt[p[n]]
        <4>1. jobAt[s] = job[t]
          BY <1>1 DEF Locals, Local, s
        <4> QED
          BY <1>1, <2>2, <4>1
      <3>3. \A n \in 1 .. m : jobAt[p[n]] \in Jobs
        BY <1>a DEF IsList
      <3> QED
        BY <3>1, <3>2, <3>3
    <2> QED
      BY <2>1, <2>2, <2>3, <2>4, <2>5, <2>6 DEF Listed
  <1> QED
    BY <1>2, <1>3, <1>4, <1>5

\* The tail catches up.
LEMMA SwingKeeps ==
    ASSUME IInv, NEW t \in Threads, SwingTail(t)
    PROVE  IInv'
  <1> USE Constants DEF IInv
  <1>0. PICK m \in 0 .. Capacity - 1 : \E p \in [0 .. m -> Slots] : IsList(m, p) /\ Owned(m, p) /\ Posted(m)
    BY DEF Listed
  <1>a. PICK p \in [0 .. m -> Slots] : IsList(m, p) /\ Owned(m, p) /\ Posted(m)
    BY <1>0
  <1>1. /\ UNCHANGED <<taken, count, next, jobAt, head, sem, closed, job, slot, group, attempt>>
        /\ pc[t] = "swing" /\ pc'[t] = "signal" /\ OnlyMoves(t) /\ lock' = Nobody /\ tail' = slot[t]
        /\ pc' \in [Threads -> PostSteps \union NextSteps \union {"idle", "gone"}]
    BY DEF SwingTail, Goto, allocVars, localVars, TypeOK, OnlyMoves, PostSteps
  <1>b. lock = t /\ \A u \in Threads \ {t} : pc[u] \notin {"swing", "advance"}
    BY <1>1 DEF LockOwner
  <1>c. tail' = p[m] /\ tail' \in Slots
    BY <1>a, <1>1 DEF IsList
  <1>2. TypeOK'
    BY <1>1, <1>c DEF TypeOK
  <1>3. Locals' /\ LockOwner'
    <2>1. LockOwner'
      BY <1>1, <1>b DEF OnlyMoves, LockOwner
    <2>2. \A u \in Threads \ {t} : Local(u)'
      BY <1>1, <1>b, OthersLocal DEF Locals
    <2>3. Local(t)'
      BY <1>1 DEF Locals, Local, PostSteps, NextSteps
    <2>4. ~closed' => pc'[Owner] = "idle"
      BY <1>1 DEF Locals, OnlyMoves
    <2> QED
      BY <2>1, <2>2, <2>3, <2>4 DEF Locals
  <1>4. Counted'
    <2>1. /\ Cardinality(At({"count"}))' = Cardinality(At({"count"}))
          /\ Cardinality(At({"uncount"}))' = Cardinality(At({"uncount"}))
      BY <1>1, Moves
    <2> QED
      BY <1>1, <2>1 DEF Counted
  <1>5. Listed'
    <2>1. \A u \in Threads : pc'[u] # "swing"
      BY <1>1, <1>b DEF OnlyMoves
    <2>2. IsList(m, p)'
      BY <1>a, <1>1, <1>c, <2>1 DEF IsList
    <2>3. Outside' = Outside
      BY <1>1 DEF Outside, OnlyMoves
    <2>4. Owned(m, p)'
      BY <1>a, <1>1, <2>3 DEF Owned
    <2>5. Posted(m)'
      <3>1. /\ Cardinality(At({"swing", "signal"}))' = Cardinality(At({"swing", "signal"}))
            /\ Cardinality(At({"copy", "advance"}))' = Cardinality(At({"copy", "advance"}))
        BY <1>1, Moves
      <3> QED
        BY <1>a, <1>1, <3>1 DEF Posted
    <2> QED
      BY <2>2, <2>4, <2>5 DEF Listed
  <1> QED
    BY <1>2, <1>3, <1>4, <1>5

\* The semaphore, and the end of a post or a take.
LEMMA SemaphoreKeeps ==
    ASSUME IInv, NEW t \in Threads,
           Signal(t) \/ (t \in Workers /\ (PassSemaphore(t) \/ FinishJob(t)))
    PROVE  IInv'
  <1> USE Constants DEF IInv
  <1>1. /\ UNCHANGED <<taken, count, next, jobAt, head, tail, lock, closed>>
        /\ pc[t] \in {"signal", "wait", "process"}
        /\ OnlyMoves(t) /\ pc'[t] \in {"idle", "gone", "wait", "copy"}
        /\ \A u \in Threads \ {t} : slot'[u] = slot[u] /\ job'[u] = job[u]
        /\ pc'[t] \in {"gone", "wait", "copy"} => t \in Workers
    BY DEF Signal, PassSemaphore, FinishJob, Return, Rewind, Goto, allocVars, listVars, syncVars, localVars,
           TypeOK, OnlyMoves
  <1>a. job'[t] = NoJob
    BY DEF Signal, PassSemaphore, FinishJob, Return, localVars, TypeOK, Locals, Local
  <1>2. TypeOK'
    <2>1. pc' \in [Threads -> PostSteps \union NextSteps \union {"idle", "gone"}]
      BY DEF Signal, PassSemaphore, FinishJob, Return, Goto, TypeOK, PostSteps, NextSteps
    <2>2. job' \in [Threads -> Jobs \union {NoJob}] /\ slot' \in [Threads -> Slots \union {NoSlot}]
      BY DEF Signal, PassSemaphore, FinishJob, Return, localVars, TypeOK
    <2>3. group' \in [Threads -> Groups] /\ attempt' \in [Threads -> 1 .. 2]
      BY DEF Signal, PassSemaphore, FinishJob, Return, Rewind, localVars, TypeOK
    <2>4. sem' \in Nat
      BY DEF Signal, PassSemaphore, FinishJob, syncVars, TypeOK
    <2> QED
      BY <1>1, <2>1, <2>2, <2>3, <2>4 DEF TypeOK
  <1>3. Locals' /\ LockOwner'
    <2>1. LockOwner'
      BY <1>1 DEF LockOwner, OnlyMoves
    <2>2. \A u \in Threads \ {t} : Local(u)'
      BY <1>1, OthersLocal DEF Locals
    <2>3. Local(t)'
      BY <1>1, <1>a DEF Local, PostSteps, NextSteps
    <2>4. ~closed' => pc'[Owner] = "idle"
      BY <1>1 DEF Locals, OnlyMoves
    <2> QED
      BY <2>1, <2>2, <2>3, <2>4 DEF Locals
  <1>4. \A m \in Nat : Posted(m) => Posted(m)'
    <2> DEFINE a == Cardinality(At({"swing", "signal"}))
               b == Cardinality(At({"copy", "advance"}))
    <2>0. a \in Nat /\ b \in Nat
      BY <1>1, Moves
    <2>1. CASE Signal(t)
      <3>1. pc[t] = "signal" /\ pc'[t] \in {"idle", "gone", "wait"} /\ sem' = sem + 1
        BY <2>1 DEF Signal, Return, Goto, TypeOK
      <3>2. a' = a - 1 /\ b' = b
        BY <1>1, <3>1, Moves
      <3> QED
        BY <2>0, <3>1, <3>2 DEF Posted, TypeOK
    <2>2. CASE PassSemaphore(t)
      <3>1. pc[t] = "wait" /\ pc'[t] = "copy" /\ sem' = sem - 1
        BY <2>2 DEF PassSemaphore, Goto, TypeOK
      <3>2. a' = a /\ b' = b + 1
        BY <1>1, <3>1, Moves
      <3> QED
        BY <2>0, <3>1, <3>2 DEF Posted, TypeOK
    <2>3. CASE FinishJob(t)
      <3>1. pc[t] = "process" /\ pc'[t] \in {"idle", "gone", "wait"} /\ sem' = sem
        BY <2>3 DEF FinishJob, Return, Goto, syncVars, TypeOK
      <3>2. a' = a /\ b' = b
        BY <1>1, <3>1, Moves
      <3> QED
        BY <3>1, <3>2 DEF Posted
    <2> QED
      BY <2>1, <2>2, <2>3
  <1>5. Counted' /\ Listed'
    BY <1>1, <1>4, QuietKeeps
  <1> QED
    BY <1>2, <1>3, <1>5

\* The worker copies the first job, which is there.
LEMMA CopyKeeps ==
    ASSUME IInv, NEW t \in Workers, CopyJob(t)
    PROVE  IInv' /\ next[head] # NoSlot
  <1> USE Constants DEF IInv
  <1>0. PICK m \in 0 .. Capacity - 1 : \E p \in [0 .. m -> Slots] : IsList(m, p) /\ Owned(m, p) /\ Posted(m)
    BY DEF Listed
  <1>a. PICK p \in [0 .. m -> Slots] : IsList(m, p) /\ Owned(m, p) /\ Posted(m)
    BY <1>0
  <1>b. pc[t] = "copy" /\ t \in Threads
    BY DEF CopyJob
  <1>c. next[head] = p[1] /\ p[1] \in Slots /\ jobAt[p[1]] \in Jobs
    BY <1>a, <1>b, JobThere
  <1>1. /\ UNCHANGED <<taken, count, next, jobAt, head, tail, sem, closed, slot, group, attempt>>
        /\ pc'[t] = "advance" /\ OnlyMoves(t) /\ lock = Nobody /\ lock' = t
        /\ pc' \in [Threads -> PostSteps \union NextSteps \union {"idle", "gone"}]
        /\ job' \in [Threads -> Jobs \union {NoJob}] /\ job'[t] = jobAt[next[head]]
        /\ \A u \in Threads \ {t} : job'[u] = job[u]
    BY <1>b, <1>c DEF CopyJob, Goto, allocVars, listVars, TypeOK, OnlyMoves, NextSteps
  <1>2. TypeOK'
    BY <1>b, <1>1 DEF TypeOK
  <1>3. Locals' /\ LockOwner'
    <2>1. LockOwner'
      BY <1>b, <1>1 DEF LockOwner, OnlyMoves
    <2>2. \A u \in Threads \ {t} : Local(u)'
      BY <1>b, <1>1, OthersLocal DEF Locals
    <2>3. Local(t)'
      BY <1>1, <1>c DEF Local, PostSteps, NextSteps
    <2>4. ~closed' => pc'[Owner] = "idle"
      BY <1>1, <1>b DEF Locals, OnlyMoves
    <2> QED
      BY <2>1, <2>2, <2>3, <2>4 DEF Locals
  <1>4. \A n \in Nat : Posted(n) => Posted(n)'
    <2>1. /\ Cardinality(At({"swing", "signal"}))' = Cardinality(At({"swing", "signal"}))
          /\ Cardinality(At({"copy", "advance"}))' = Cardinality(At({"copy", "advance"}))
      BY <1>b, <1>1, Moves
    <2> QED
      BY <1>1, <2>1 DEF Posted
  <1>5. Counted' /\ Listed'
    BY <1>b, <1>1, <1>4, QuietKeeps
  <1> QED
    BY <1>2, <1>3, <1>5, <1>c

\* The head moves on, and the old dummy is the worker's to free.
LEMMA AdvanceKeeps ==
    ASSUME IInv, NEW t \in Workers, AdvanceHead(t)
    PROVE  IInv' /\ queue # <<>> /\ queue' = Tail(queue) /\ Head(queue) = job[t]
  <1> USE Constants DEF IInv
  <1>0. PICK m \in 0 .. Capacity - 1 : \E p \in [0 .. m -> Slots] : IsList(m, p) /\ Owned(m, p) /\ Posted(m)
    BY DEF Listed
  <1>a. PICK p \in [0 .. m -> Slots] : IsList(m, p) /\ Owned(m, p) /\ Posted(m)
    BY <1>0
  <1>b. pc[t] = "advance" /\ t \in Threads
    BY DEF AdvanceHead
  <1>c. m > 0 /\ next[head] = p[1] /\ p[1] \in Slots /\ head = p[0] /\ p[0] \in Slots
    BY <1>a, <1>b, JobThere DEF IsList
  <1>1. /\ UNCHANGED <<taken, count, next, jobAt, tail, sem, closed, job, group, attempt>>
        /\ pc'[t] = "free" /\ OnlyMoves(t) /\ lock' = Nobody /\ head' = p[1]
        /\ pc' \in [Threads -> PostSteps \union NextSteps \union {"idle", "gone"}]
        /\ slot' \in [Threads -> Slots \union {NoSlot}] /\ slot'[t] = p[0]
        /\ \A u \in Threads \ {t} : slot'[u] = slot[u]
    BY <1>b, <1>c DEF AdvanceHead, Goto, allocVars, TypeOK, OnlyMoves, NextSteps
  <1>d. lock = t /\ \A u \in Threads \ {t} : pc[u] \notin {"swing", "advance"}
    BY <1>b DEF LockOwner
  <1>2. TypeOK'
    BY <1>b, <1>c, <1>1 DEF TypeOK
  <1>3. Locals' /\ LockOwner'
    <2>1. LockOwner'
      BY <1>b, <1>1, <1>d DEF LockOwner, OnlyMoves
    <2>2. \A u \in Threads \ {t} : Local(u)'
      BY <1>b, <1>1, <1>d, OthersLocal DEF Locals
    <2>3. Local(t)'
      BY <1>b, <1>1 DEF Locals, Local, PostSteps, NextSteps
    <2>4. ~closed' => pc'[Owner] = "idle"
      BY <1>1, <1>b DEF Locals, OnlyMoves
    <2> QED
      BY <2>1, <2>2, <2>3, <2>4 DEF Locals
  <1>4. Counted'
    <2>1. /\ Cardinality(At({"count"}))' = Cardinality(At({"count"}))
          /\ Cardinality(At({"uncount"}))' = Cardinality(At({"uncount"}))
      BY <1>b, <1>1, Moves
    <2> QED
      BY <1>1, <2>1 DEF Counted
  <1>5. Listed' /\ queue # <<>> /\ queue' = Tail(queue) /\ Head(queue) = job[t]
    <2> DEFINE q == [i \in 0 .. m - 1 |-> p[i + 1]]
    <2>1. m - 1 \in 0 .. Capacity - 1
      BY <1>c
    <2>2. q \in [0 .. m - 1 -> Slots] /\ \A i \in 0 .. m - 1 : q[i] = p[i + 1] /\ i + 1 \in 1 .. m
      OBVIOUS
    <2> HIDE DEF q
    <2>3. IsList(m - 1, q)'
      <3>0. 0 \in 0 .. m - 1 /\ m - 1 \in 0 .. m - 1
        BY <1>c
      <3>1. q[0] = head' /\ next'[q[m - 1]] = NoSlot
        BY <1>a, <1>1, <2>2, <3>0 DEF IsList
      <3>2. ASSUME NEW i \in 1 .. m - 1 PROVE next'[q[i - 1]] = q[i] /\ jobAt'[q[i]] \in Jobs
        <4>1. i + 1 \in 1 .. m /\ i - 1 \in 0 .. m - 1 /\ i \in 0 .. m - 1 /\ i + 1 - 1 = i
          OBVIOUS
        <4>2. next[p[i]] = p[i + 1] /\ jobAt[p[i + 1]] \in Jobs
          BY <1>a, <4>1 DEF IsList
        <4>3. q[i - 1] = p[i] /\ q[i] = p[i + 1]
          BY <2>2, <4>1
        <4> QED
          BY <1>1, <4>2, <4>3
      <3>3. ASSUME NEW i \in 0 .. m - 1, NEW j \in 0 .. m - 1, q[i] = q[j] PROVE i = j
        <4>1. i + 1 \in 0 .. m /\ j + 1 \in 0 .. m /\ p[i + 1] = p[j + 1]
          BY <2>2, <3>3
        <4>2. i + 1 = j + 1
          BY <1>a, <4>1 DEF IsList
        <4> QED
          BY <4>2
      <3>4. \A u \in Threads : pc'[u] # "swing"
        BY <1>b, <1>1, <1>d DEF OnlyMoves
      <3>5. tail' = q[m - 1]
        <4>1. \A u \in Threads : pc[u] # "swing"
          BY <1>b, <1>d
        <4>2. tail = p[m]
          BY <1>a, <4>1 DEF IsList
        <4> QED
          BY <1>1, <2>2, <3>0, <4>2
      <3> QED
        BY <3>1, <3>2, <3>3, <3>4, <3>5 DEF IsList
    <2>4. Owned(m - 1, q)'
      <3>1. Outside' = Outside \union {t} /\ t \notin Outside
        BY <1>b, <1>1 DEF Outside, OnlyMoves
      <3>2. {p[i] : i \in 0 .. m} = {q[i] : i \in 0 .. m - 1} \union {p[0]}
        <4>1. \A i \in 0 .. m : i = 0 \/ (i - 1 \in 0 .. m - 1 /\ i - 1 + 1 = i)
          BY <1>c
        <4>2. \A i \in 0 .. m : i = 0 \/ (p[i] = q[i - 1] /\ i - 1 \in 0 .. m - 1)
          BY <2>2, <4>1
        <4>3. \A i \in 0 .. m - 1 : q[i] = p[i + 1] /\ i + 1 \in 0 .. m
          BY <2>2
        <4>4. 0 \in 0 .. m
          BY <1>c
        <4>5. {p[i] : i \in 0 .. m} \subseteq {q[i] : i \in 0 .. m - 1} \union {p[0]}
          BY <4>2
        <4>6. {q[i] : i \in 0 .. m - 1} \union {p[0]} \subseteq {p[i] : i \in 0 .. m}
          BY <4>3, <4>4
        <4> QED
          BY <4>5, <4>6
      <3>3. \A u \in Outside : slot'[u] = slot[u] /\ slot[u] \in Slots /\ \A i \in 0 .. m : p[i] # slot[u]
        BY <1>a, <1>1, <3>1 DEF Owned, Outside
      <3>4. taken' = {q[i] : i \in 0 .. m - 1} \union {slot'[u] : u \in Outside'}
        <4>1. {slot'[u] : u \in Outside'} = {slot[u] : u \in Outside} \union {p[0]}
          BY <1>1, <3>1, <3>3
        <4> QED
          BY <1>a, <1>1, <3>2, <4>1 DEF Owned
      <3>5. \A i \in 0 .. m - 1 : q[i] # p[0]
        <4>1. \A i \in 0 .. m - 1 : q[i] = p[i + 1] /\ i + 1 \in 0 .. m /\ i + 1 # 0
          BY <2>2
        <4>2. 0 \in 0 .. m
          BY <1>c
        <4> QED
          BY <1>a, <4>1, <4>2 DEF IsList
      <3>6. \A i \in 0 .. m - 1 : q[i] = p[i + 1] /\ i + 1 \in 0 .. m
        BY <2>2
      <3>7. \A u \in Outside' : slot'[u] \in Slots /\ \A i \in 0 .. m - 1 : q[i] # slot'[u]
        BY <1>c, <1>1, <3>1, <3>3, <3>5, <3>6
      <3>8. \A u, v \in Outside' : slot'[u] = slot'[v] => u = v
        <4>1. \A u \in Outside : slot'[u] # slot'[t]
          <5>1. 0 \in 0 .. m
            BY <1>c
          <5> QED
            BY <1>1, <3>3, <5>1
        <4>2. \A u, v \in Outside : slot'[u] = slot'[v] => u = v
          BY <1>a, <3>3 DEF Owned
        <4> QED
          BY <3>1, <4>1, <4>2
      <3> QED
        BY <3>4, <3>7, <3>8 DEF Owned
    <2>5. Posted(m - 1)'
      <3> DEFINE a == Cardinality(At({"swing", "signal"}))
                 b == Cardinality(At({"copy", "advance"}))
      <3>1. a' = a /\ b' = b - 1 /\ a \in Nat /\ b \in Nat
        BY <1>b, <1>1, Moves
      <3>2. sem + a + b = m /\ sem' = sem /\ sem \in Nat
        BY <1>a, <1>1 DEF Posted, TypeOK
      <3>3. sem' + a' + b' = m - 1
        <4> HIDE DEF a, b
        <4> QED
          BY <3>1, <3>2
      <3> QED
        BY <3>3 DEF Posted
    <2>6. queue # <<>> /\ queue' = Tail(queue) /\ Head(queue) = job[t]
      <3>1. queue = [n \in 1 .. m |-> jobAt[p[n]]] /\ queue' = [n \in 1 .. m - 1 |-> jobAt'[q[n]]]
        BY <1>a, <2>1, <2>2, <2>3, JobsOfList, JobsOfListNext DEF ListJobs
      <3>2. \A n \in 1 .. m - 1 : jobAt'[q[n]] = jobAt[p[n + 1]]
        BY <1>1, <2>2
      <3>3. \A n \in 1 .. m : jobAt[p[n]] \in Jobs
        BY <1>a DEF IsList
      <3>4. job[t] = jobAt[p[1]]
        BY <1>b, <1>c DEF Locals, Local
      <3>5. queue \in Seq(Jobs) /\ Len(queue) = m /\ queue[1] = job[t]
        BY <1>c, <3>1, <3>3, <3>4
      <3>6. queue # <<>> /\ Head(queue) = job[t]
        BY <1>c, <3>5
      <3>7. queue' = Tail(queue)
        BY <1>c, <3>1, <3>2, <3>5
      <3> QED
        BY <3>6, <3>7
    <2> QED
      BY <2>1, <2>2, <2>3, <2>4, <2>5, <2>6 DEF Listed
  <1> QED
    BY <1>2, <1>3, <1>4, <1>5

\* The old dummy is free: it is taken, and outside the list.
LEMMA FreeKeeps ==
    ASSUME IInv, NEW t \in Workers, FreeSlot(t)
    PROVE  IInv'
  <1> USE Constants DEF IInv
  <1>0. PICK m \in 0 .. Capacity - 1 : \E p \in [0 .. m -> Slots] : IsList(m, p) /\ Owned(m, p) /\ Posted(m)
    BY DEF Listed
  <1>a. PICK p \in [0 .. m -> Slots] : IsList(m, p) /\ Owned(m, p) /\ Posted(m)
    BY <1>0
  <1>b. pc[t] = "free" /\ t \in Threads /\ count > 0
    BY CountPositive DEF FreeSlot
  <1>1. /\ UNCHANGED <<count, next, jobAt, head, tail, lock, sem, closed, job, slot, group, attempt>>
        /\ pc'[t] = "uncount" /\ OnlyMoves(t) /\ taken' = taken \ {slot[t]}
        /\ pc' \in [Threads -> PostSteps \union NextSteps \union {"idle", "gone"}]
    BY <1>b DEF FreeSlot, Goto, listVars, syncVars, localVars, TypeOK, OnlyMoves, NextSteps
  <1>c. t \in Outside /\ Outside' = Outside \ {t}
    BY <1>b, <1>1 DEF Outside, OnlyMoves
  <1>2. TypeOK'
    BY <1>1 DEF TypeOK
  <1>3. Locals' /\ LockOwner'
    <2>1. LockOwner'
      BY <1>b, <1>1 DEF LockOwner, OnlyMoves
    <2>2. \A u \in Threads \ {t} : Local(u)'
      BY <1>b, <1>1, OthersLocal DEF Locals
    <2>3. Local(t)'
      BY <1>b, <1>1 DEF Locals, Local, PostSteps, NextSteps
    <2>4. ~closed' => pc'[Owner] = "idle"
      BY <1>1, <1>b DEF Locals, OnlyMoves
    <2> QED
      BY <2>1, <2>2, <2>3, <2>4 DEF Locals
  <1>4. Counted'
    <2> DEFINE a == Cardinality(At({"count"}))
               b == Cardinality(At({"uncount"}))
    <2>1. a' = a /\ b' = b + 1 /\ a \in Nat /\ b \in Nat
      BY <1>b, <1>1, Moves
    <2>2. IsFiniteSet(taken) /\ Cardinality(taken) \in Nat
      BY FiniteSets0, FS_Subset, FS_CardinalityType DEF TypeOK
    <2>3. slot[t] \in taken
      BY <1>a, <1>c DEF Owned
    <2>4. Cardinality(taken') = Cardinality(taken) - 1
      BY <1>1, <2>2, <2>3, FS_RemoveElement
    <2>5. count + a = Cardinality(taken) + b /\ count' = count /\ count \in Nat
      BY <1>1 DEF Counted, TypeOK
    <2>6. count' + a' = Cardinality(taken') + b'
      <3> HIDE DEF a, b
      <3> QED
        BY <2>1, <2>2, <2>4, <2>5
    <2> QED
      BY <2>6 DEF Counted
  <1>5. Listed'
    <2>1. IsList(m, p)'
      BY <1>a, <1>b, <1>1 DEF IsList, OnlyMoves
    <2>2. Owned(m, p)'
      <3>1. taken' = {p[i] : i \in 0 .. m} \union {slot'[u] : u \in Outside'}
        BY <1>a, <1>c, <1>1 DEF Owned
      <3> QED
        BY <1>a, <1>c, <1>1, <3>1 DEF Owned
    <2>3. Posted(m)'
      <3>1. /\ Cardinality(At({"swing", "signal"}))' = Cardinality(At({"swing", "signal"}))
            /\ Cardinality(At({"copy", "advance"}))' = Cardinality(At({"copy", "advance"}))
        BY <1>b, <1>1, Moves
      <3> QED
        BY <1>a, <1>1, <3>1 DEF Posted
    <2> QED
      BY <2>1, <2>2, <2>3 DEF Listed
  <1> QED
    BY <1>2, <1>3, <1>4, <1>5

\* The count follows, and does not fall below zero.
LEMMA UncountKeeps ==
    ASSUME IInv, NEW t \in Workers, UncountSlot(t)
    PROVE  IInv'
  <1> USE Constants DEF IInv
  <1>b. pc[t] = "uncount" /\ t \in Threads /\ count > 0
    BY CountPositive DEF UncountSlot
  <1>1. /\ UNCHANGED <<taken, next, jobAt, head, tail, lock, sem, closed, job, slot, group, attempt>>
        /\ pc'[t] = "process" /\ OnlyMoves(t) /\ count' = count - 1
        /\ pc' \in [Threads -> PostSteps \union NextSteps \union {"idle", "gone"}]
    BY <1>b DEF UncountSlot, Goto, listVars, syncVars, localVars, TypeOK, OnlyMoves, NextSteps
  <1>2. TypeOK'
    BY <1>b, <1>1 DEF TypeOK
  <1>3. Locals' /\ LockOwner'
    <2>1. LockOwner'
      BY <1>b, <1>1 DEF LockOwner, OnlyMoves
    <2>2. \A u \in Threads \ {t} : Local(u)'
      BY <1>b, <1>1, OthersLocal DEF Locals
    <2>3. Local(t)'
      BY <1>b, <1>1 DEF Locals, Local, PostSteps, NextSteps
    <2>4. ~closed' => pc'[Owner] = "idle"
      BY <1>1, <1>b DEF Locals, OnlyMoves
    <2> QED
      BY <2>1, <2>2, <2>3, <2>4 DEF Locals
  <1>4. Counted'
    <2> DEFINE a == Cardinality(At({"count"}))
               b == Cardinality(At({"uncount"}))
    <2>1. a' = a /\ b' = b - 1 /\ a \in Nat /\ b \in Nat
      BY <1>b, <1>1, Moves
    <2>2. Cardinality(taken) \in Nat
      BY FiniteSets0, FS_Subset, FS_CardinalityType DEF TypeOK
    <2>5. count + a = Cardinality(taken) + b /\ count' = count - 1 /\ count \in Nat /\ taken' = taken
      BY <1>1 DEF Counted, TypeOK
    <2>6. count' + a' = Cardinality(taken) + b'
      <3> HIDE DEF a, b
      <3> QED
        BY <2>1, <2>2, <2>5
    <2> QED
      BY <2>5, <2>6 DEF Counted
  <1>5. Listed'
    <2>0. PICK m \in 0 .. Capacity - 1 : \E p \in [0 .. m -> Slots] : IsList(m, p) /\ Owned(m, p) /\ Posted(m)
      BY DEF Listed
    <2>1. PICK p \in [0 .. m -> Slots] : IsList(m, p) /\ Owned(m, p) /\ Posted(m)
      BY <2>0
    <2>2. IsList(m, p)' /\ Owned(m, p)'
      BY <1>b, <1>1, <2>1, ListKept DEF OnlyMoves
    <2>3. Posted(m)'
      <3>1. /\ Cardinality(At({"swing", "signal"}))' = Cardinality(At({"swing", "signal"}))
            /\ Cardinality(At({"copy", "advance"}))' = Cardinality(At({"copy", "advance"}))
        BY <1>b, <1>1, Moves
      <3> QED
        BY <2>1, <1>1, <3>1 DEF Posted
    <2> QED
      BY <2>2, <2>3 DEF Listed
  <1> QED
    BY <1>2, <1>3, <1>4, <1>5

-----------------------------------------------------------------------------
(***************************************************************************)
(* The theorems.                                                           *)
(***************************************************************************)
LEMMA StepIInv == IInv /\ [Next]_vars => IInv'
  <1> SUFFICES ASSUME IInv, [Next]_vars PROVE IInv'
    OBVIOUS
  <1> USE Constants
  <1>1. ASSUME NEW p \in Posters, PostOwnJob(p) PROVE IInv'
    <2>1. p \in Threads /\ p \in Jobs /\ p # Owner /\ pc[p] = "idle" /\ closed' = closed /\ StartPost(p, p)
      BY <1>1, DistinctThreads DEF PostOwnJob
    <2>2. closed' \in BOOLEAN
      BY <2>1 DEF IInv, TypeOK
    <2> QED
      BY <2>1, <2>2, StartKeeps
  <1>2. ASSUME PostQuit PROVE IInv'
    <2>1. closed' /\ closed' \in BOOLEAN /\ StartPost(Owner, Quit) /\ pc[Owner] = "idle"
      BY <1>2 DEF PostQuit, IInv, Locals
    <2> QED
      BY <2>1, StartKeeps
  <1>3. ASSUME NEW t \in Threads, Posting(t) PROVE IInv'
    BY <1>3, SearchKeeps, ClaimKeeps, WriteKeeps, LinkKeeps, SwingKeeps, SemaphoreKeeps DEF Posting
  <1>4. ASSUME NEW w \in Workers, Taking(w) PROVE IInv'
    <2>1. w \in Threads
      OBVIOUS
    <2>2. CASE PostAgain(w)
      <3>1. pc[w] = "process" /\ closed' = closed /\ StartPost(w, job[w]) /\ w # Owner
        BY <2>2 DEF PostAgain
      <3>2. job[w] \in Jobs /\ closed' \in BOOLEAN
        BY <2>1, <3>1 DEF IInv, TypeOK, Locals, Local
      <3> QED
        BY <2>1, <3>1, <3>2, StartKeeps
    <2>3. CASE PassSemaphore(w) \/ FinishJob(w)
      BY <2>1, <2>3, SemaphoreKeeps
    <2>4. CASE CopyJob(w) \/ AdvanceHead(w) \/ FreeSlot(w) \/ UncountSlot(w)
      BY <2>4, CopyKeeps, AdvanceKeeps, FreeKeeps, UncountKeeps
    <2> QED
      BY <1>4, <2>2, <2>3, <2>4 DEF Taking
  <1>5. CASE UNCHANGED vars
    <2>1. UNCHANGED <<taken, count, next, jobAt, head, tail, lock, sem, closed, pc, job, slot, group, attempt>>
      BY <1>5 DEF vars, allocVars, listVars, syncVars, localVars
    <2>2. TypeOK' /\ Locals' /\ LockOwner'
      BY <2>1 DEF IInv, TypeOK, Locals, Local, LockOwner
    <2>3. \A steps : At(steps)' = At(steps)
      BY <2>1 DEF At
    <2>4. Counted'
      BY <2>1, <2>3 DEF IInv, Counted
    <2>5. Listed'
      <3>0. PICK m \in 0 .. Capacity - 1 : \E p \in [0 .. m -> Slots] : IsList(m, p) /\ Owned(m, p) /\ Posted(m)
        BY DEF IInv, Listed
      <3>1. PICK p \in [0 .. m -> Slots] : IsList(m, p) /\ Owned(m, p) /\ Posted(m)
        BY <3>0
      <3>2. IsList(m, p)' /\ Owned(m, p)'
        BY <2>1, <3>1 DEF IsList, Owned, Outside
      <3>3. Posted(m)'
        BY <2>1, <2>3, <3>1 DEF Posted
      <3> QED
        BY <3>2, <3>3 DEF Listed
    <2> QED
      BY <2>2, <2>4, <2>5 DEF IInv
  <1> QED
    BY <1>1, <1>2, <1>3, <1>4, <1>5 DEF Next

\* The inductive invariant holds: the list is a path from the dummy, and each
\* taken slot is in the list or in the hands of one thread.
THEOREM Invariant == Spec => []IInv
  BY InitIInv, StepIInv, PTL DEF Spec

LEMMA Books == IInv => QueueConsistent
  <1> SUFFICES ASSUME IInv PROVE QueueConsistent
    OBVIOUS
  <1>0. PICK m \in 0 .. Capacity - 1 : \E p \in [0 .. m -> Slots] : IsList(m, p) /\ Owned(m, p) /\ Posted(m)
    BY DEF IInv, Listed
  <1>a. PICK p \in [0 .. m -> Slots] : IsList(m, p) /\ Owned(m, p) /\ Posted(m)
    BY <1>0
  <1>1. List = {p[i] : i \in 0 .. m} /\ Cardinality(Linked) = m
    BY <1>a, Walk
  <1>2. SlotsOwned
    BY <1>a, <1>1 DEF SlotsOwned, Owned
  <1>3. CountExact
    <2>1. /\ At({"count"}) = {t \in Threads : pc[t] = "count"}
          /\ At({"uncount"}) = {t \in Threads : pc[t] = "uncount"}
      BY DEF At
    <2> QED
      BY <2>1, CountPositive DEF CountExact, IInv, Counted
  <1>4. SemaphoreExact
    <2>1. At({"copy", "advance"}) = {w \in Workers : pc[w] \in {"copy", "advance"}}
      BY Constants DEF At, IInv, Locals, Local, NextSteps
    <2>2. At({"swing", "signal"}) = {t \in Threads : pc[t] \in {"swing", "signal"}}
      BY DEF At
    <2>3. \A w \in Workers : pc[w] = "copy" => next[head] # NoSlot
      BY <1>a, JobThere, Constants
    <2> QED
      BY <1>a, <1>1, <2>1, <2>2, <2>3 DEF SemaphoreExact, Posted
  <1> QED
    BY <1>2, <1>3, <1>4 DEF QueueConsistent, IInv

\* The books balance: every taken slot has one owner, the count and the
\* semaphore agree with the list, a free succeeds and a worker that has passed
\* the semaphore finds a job.
THEOREM Balanced == Spec => []QueueConsistent
  BY Invariant, Books, PTL

-----------------------------------------------------------------------------
(***************************************************************************)
(* The refinement.                                                         *)
(***************************************************************************)
LEMMA InitRefines == Init => Fifo!Init
  <1> SUFFICES ASSUME Init PROVE Fifo!Init
    OBVIOUS
  <1> USE Constants
  <1> DEFINE p == [i \in 0 .. 0 |-> 0]
  <1>1. 0 \in 0 .. Capacity - 1 /\ p \in [0 .. 0 -> Slots]
    OBVIOUS
  <1>2. IsList(0, p)
    BY DEF Init, IsList
  <1> HIDE DEF p
  <1>3. queue = [n \in 1 .. 0 |-> jobAt[p[n]]]
    BY <1>1, <1>2, JobsOfList DEF ListJobs
  <1>4. hand = [w \in Workers |-> NoJob]
    BY DEF hand, Init
  <1> QED
    BY <1>3, <1>4 DEF Fifo!Init

\* Nothing but the list makes the queue, and nothing but the steps and the
\* jobs of the workers what they have in their hands.
LEMMA QueueSame ==
    ASSUME UNCHANGED <<head, next, jobAt>>
    PROVE  UNCHANGED queue
  <1>1. Nth' = Nth
    BY DEF Nth
  <1>2. Linked' = Linked
    BY <1>1 DEF Linked
  <1> QED
    BY <1>1, <1>2 DEF queue

fifo == <<queue, hand>>

InHand(w) == IF pc[w] = "advance" THEN NoJob ELSE job[w]

LEMMA HandMoves ==
    ASSUME NEW t \in Threads, OnlyMoves(t), \A u \in Threads \ {t} : job'[u] = job[u]
    PROVE  /\ (t \in Workers => InHand(t)' = InHand(t)) => UNCHANGED hand
           /\ t \in Workers => hand' = [hand EXCEPT ![t] = InHand(t)']
  <1>1. \A u \in Workers \ {t} : InHand(u)' = InHand(u)
    BY Constants DEF InHand, OnlyMoves
  <1>2. hand = [w \in Workers |-> InHand(w)]
    BY DEF hand, InHand
  <1>3. hand' = [w \in Workers |-> InHand(w)']
    BY DEF hand, InHand
  <1> QED
    BY <1>1, <1>2, <1>3

\* A thread that returns from a post or a take has nothing in its hand.
LEMMA ReturnRefines ==
    ASSUME IInv, NEW t \in Threads, Return(t), pc[t] \in PostSteps \union {"process"},
           UNCHANGED <<head, next, jobAt>>
    PROVE  UNCHANGED fifo \/ (t \in Workers /\ Fifo!Finish(t))
  <1> USE Constants
  <1>1. UNCHANGED queue
    BY QueueSame
  <1>2. /\ OnlyMoves(t) /\ pc'[t] \in {"idle", "gone", "wait"} /\ job'[t] = NoJob
        /\ \A u \in Threads \ {t} : job'[u] = job[u]
    BY DEF Return, Goto, IInv, TypeOK, OnlyMoves
  <1>3. CASE t \notin Workers
    BY <1>1, <1>2, <1>3, HandMoves DEF fifo
  <1>4. CASE t \in Workers
    <2>1. InHand(t)' = NoJob
      BY <1>2 DEF InHand
    <2>2. hand[t] = job[t] /\ job[t] \in Jobs
      BY <1>4 DEF hand, IInv, Locals, Local, PostSteps
    <2>3. hand' = [hand EXCEPT ![t] = NoJob]
      BY <1>2, <1>4, <2>1, HandMoves
    <2> QED
      BY <1>1, <1>4, <2>2, <2>3 DEF Fifo!Finish
  <1> QED
    BY <1>3, <1>4

\* A step that is neither of the two ends of the queue nor a return.
LEMMA QuietRefines ==
    ASSUME IInv, NEW t \in Threads, OnlyMoves(t), UNCHANGED queue,
           \A u \in Threads \ {t} : job'[u] = job[u],
           t \in Workers => InHand(t)' = InHand(t)
    PROVE  UNCHANGED fifo
  BY HandMoves DEF fifo

LEMMA StartRefines ==
    ASSUME IInv, NEW t \in Threads, NEW j \in Jobs, StartPost(t, j), pc[t] \in {"idle", "process"},
           t \in Workers => j = job[t]
    PROVE  UNCHANGED fifo
  <1>1. UNCHANGED queue
    BY QueueSame DEF StartPost, listVars
  <1>2. OnlyMoves(t) /\ pc'[t] = "scan" /\ job'[t] = j /\ \A u \in Threads \ {t} : job'[u] = job[u]
    BY DEF StartPost, Goto, IInv, TypeOK, OnlyMoves
  <1>3. t \in Workers => InHand(t)' = InHand(t)
    BY <1>2 DEF InHand
  <1> QED
    BY <1>1, <1>2, <1>3, QuietRefines

LEMMA PostingRefines ==
    ASSUME IInv, NEW t \in Threads, Posting(t)
    PROVE  UNCHANGED fifo \/ Fifo!Next
  <1> USE Constants
  <1>1. CASE ClaimSlot(t) \/ SkipGroup(t) \/ SwingTail(t)
    <2>1. UNCHANGED queue /\ UNCHANGED job
      BY <1>1, QueueSame DEF ClaimSlot, SkipGroup, SwingTail, listVars, localVars
    <2>2. OnlyMoves(t) /\ pc[t] # "advance" /\ pc'[t] # "advance"
      BY <1>1 DEF ClaimSlot, SkipGroup, SwingTail, Goto, OnlyMoves, IInv, TypeOK
    <2>3. InHand(t)' = InHand(t)
      BY <2>1, <2>2 DEF InHand
    <2> QED
      BY <2>1, <2>2, <2>3, QuietRefines
  <1>2. CASE CountAndWrite(t)
    <2>1. UNCHANGED queue /\ UNCHANGED job
      BY <1>2, WriteKeeps DEF CountAndWrite, localVars
    <2>2. OnlyMoves(t) /\ pc[t] # "advance" /\ pc'[t] # "advance"
      BY <1>2 DEF CountAndWrite, Goto, OnlyMoves, IInv, TypeOK
    <2>3. InHand(t)' = InHand(t)
      BY <2>1, <2>2 DEF InHand
    <2> QED
      BY <2>1, <2>2, <2>3, QuietRefines
  <1>3. CASE LinkJob(t)
    <2>1. queue' = Append(queue, job[t]) /\ UNCHANGED job
      BY <1>3, LinkKeeps DEF LinkJob, localVars
    <2>2. OnlyMoves(t) /\ pc[t] = "link" /\ pc'[t] # "advance"
      BY <1>3 DEF LinkJob, Goto, OnlyMoves, IInv, TypeOK
    <2>3. InHand(t)' = InHand(t)
      BY <2>1, <2>2 DEF InHand
    <2>4. UNCHANGED hand
      BY <2>1, <2>2, <2>3, HandMoves
    <2>5. job[t] \in Jobs
      BY <2>2 DEF IInv, Locals, Local, PostSteps
    <2> QED
      BY <2>1, <2>4, <2>5 DEF Fifo!Next, Fifo!Put
  <1>4. CASE DecideFull(t)
    <2>1. UNCHANGED <<head, next, jobAt>> /\ pc[t] = "full"
      BY <1>4 DEF DecideFull, listVars
    <2>2. CASE Return(t)
      BY <2>1, <2>2, ReturnRefines DEF PostSteps, Fifo!Next
    <2>3. CASE ~Return(t)
      <3>1. pc'[t] = "scan" /\ OnlyMoves(t) /\ UNCHANGED job
        BY <1>4, <2>3 DEF DecideFull, Goto, OnlyMoves, IInv, TypeOK
      <3>2. InHand(t)' = InHand(t)
        BY <2>1, <3>1 DEF InHand
      <3>3. UNCHANGED queue
        BY <2>1, QueueSame
      <3> QED
        BY <3>1, <3>2, <3>3, QuietRefines
    <2> QED
      BY <2>2, <2>3
  <1>5. CASE Signal(t)
    <2>1. UNCHANGED <<head, next, jobAt>> /\ pc[t] = "signal" /\ Return(t)
      BY <1>5 DEF Signal, listVars
    <2> QED
      BY <2>1, ReturnRefines DEF PostSteps, Fifo!Next
  <1> QED
    BY <1>1, <1>2, <1>3, <1>4, <1>5 DEF Posting

LEMMA TakingRefines ==
    ASSUME IInv, NEW w \in Workers, Taking(w)
    PROVE  UNCHANGED fifo \/ Fifo!Next
  <1> USE Constants
  <1>1. CASE PassSemaphore(w) \/ FreeSlot(w) \/ UncountSlot(w)
    <2>1. UNCHANGED queue /\ UNCHANGED job
      BY <1>1, QueueSame DEF PassSemaphore, FreeSlot, UncountSlot, listVars, localVars
    <2>2. OnlyMoves(w) /\ pc[w] # "advance" /\ pc'[w] # "advance"
      BY <1>1 DEF PassSemaphore, FreeSlot, UncountSlot, Goto, OnlyMoves, IInv, TypeOK
    <2>3. InHand(w)' = InHand(w)
      BY <2>1, <2>2 DEF InHand
    <2> QED
      BY <2>1, <2>2, <2>3, QuietRefines
  <1>2. CASE CopyJob(w)
    <2>1. pc[w] = "copy" /\ job[w] = NoJob
      BY <1>2 DEF CopyJob, IInv, Locals, Local
    <2>2. pc'[w] = "advance" /\ OnlyMoves(w) /\ \A u \in Threads \ {w} : job'[u] = job[u]
      BY <1>2, CopyKeeps DEF CopyJob, Goto, OnlyMoves, IInv, TypeOK
    <2>3. InHand(w)' = InHand(w)
      BY <2>1, <2>2 DEF InHand
    <2>4. UNCHANGED queue
      BY <1>2, QueueSame DEF CopyJob, listVars
    <2> QED
      BY <2>2, <2>3, <2>4, QuietRefines
  <1>3. CASE AdvanceHead(w)
    <2>1. queue # <<>> /\ queue' = Tail(queue) /\ Head(queue) = job[w] /\ UNCHANGED job
      BY <1>3, AdvanceKeeps DEF AdvanceHead
    <2>2. OnlyMoves(w) /\ pc[w] = "advance" /\ pc'[w] = "free"
      BY <1>3 DEF AdvanceHead, Goto, OnlyMoves, IInv, TypeOK
    <2>3. InHand(w)' = job[w] /\ hand[w] = NoJob
      BY <2>1, <2>2 DEF InHand, hand
    <2>4. hand' = [hand EXCEPT ![w] = Head(queue)]
      BY <2>1, <2>2, <2>3, HandMoves
    <2> QED
      BY <2>1, <2>3, <2>4 DEF Fifo!Next, Fifo!Get
  <1>4. CASE FinishJob(w)
    <2>1. UNCHANGED <<head, next, jobAt>> /\ pc[w] = "process" /\ Return(w)
      BY <1>4 DEF FinishJob, listVars
    <2> QED
      BY <2>1, ReturnRefines DEF Fifo!Next
  <1>5. CASE PostAgain(w)
    <2>1. pc[w] = "process" /\ StartPost(w, job[w])
      BY <1>5 DEF PostAgain
    <2>2. job[w] \in Jobs
      BY <2>1 DEF IInv, Locals, Local
    <2> QED
      BY <2>1, <2>2, StartRefines
  <1> QED
    BY <1>1, <1>2, <1>3, <1>4, <1>5 DEF Taking

LEMMA StepRefines == IInv /\ [Next]_vars => [Fifo!Next]_fifo
  <1> SUFFICES ASSUME IInv, [Next]_vars PROVE UNCHANGED fifo \/ Fifo!Next
    BY DEF fifo
  <1> USE Constants
  <1>1. ASSUME NEW p \in Posters, PostOwnJob(p) PROVE UNCHANGED fifo
    <2>1. p \in Threads /\ p \in Jobs /\ p \notin Workers /\ pc[p] = "idle" /\ StartPost(p, p)
      BY <1>1 DEF PostOwnJob
    <2> QED
      BY <2>1, StartRefines
  <1>2. ASSUME PostQuit PROVE UNCHANGED fifo
    <2>1. StartPost(Owner, Quit) /\ pc[Owner] = "idle"
      BY <1>2 DEF PostQuit, IInv, Locals
    <2> QED
      BY <2>1, StartRefines
  <1>3. CASE UNCHANGED vars
    <2>1. UNCHANGED <<head, next, jobAt, pc, job>>
      BY <1>3 DEF vars, listVars, localVars
    <2>2. UNCHANGED hand
      BY <2>1 DEF hand
    <2> QED
      BY <2>1, <2>2, QueueSame DEF fifo
  <1> QED
    BY <1>1, <1>2, <1>3, PostingRefines, TakingRefines DEF Next

\* Jobs are handed out in the order they were linked, each to one worker:
\* linking is Put, moving the head is Get, and a worker's return is Finish.
THEOREM Refinement == Spec => ImplementsFifo
  <1>1. IInv /\ [Next]_vars => [Fifo!Next]_(Fifo!fifoVars)
    BY StepRefines DEF Fifo!fifoVars, fifo
  <1> QED
    BY <1>1, InitRefines, Invariant, PTL DEF Spec, ImplementsFifo, Fifo!Spec
=============================================================================
