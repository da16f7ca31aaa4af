--------------------------- MODULE NodeBusProofs ---------------------------
(***************************************************************************)
(* For any buses, callers and detaching callers: NodeBus keeps its types,  *)
(* no released bus is used by the audio thread, the reference counts are   *)
(* exact, NodeBus implements BusGate, and its list is sound whenever it is *)
(* unlocked.  With one detaching caller no released bus is even looked at. *)
(***************************************************************************)
EXTENDS NodeBus, Integers, TLAPS

\* Who is in a call on a bus holds its lock, and the other way round.
LockOwner ==
    /\ \A c \in Callers : callerPc[c] # "idle" => outLock[bus[c]] = c
    /\ \A b \in Buses : outLock[b] # Nobody =>
          bus[outLock[b]] = b /\ callerPc[outLock[b]] # "idle"

\* What the flag and the input node of the bus are along a call, and that they
\* agree outside one.
Phases ==
    /\ \A b \in Buses : outLock[b] = Nobody => (attached[b] <=> hasInput[b])
    /\ \A c \in Callers :
          /\ callerPc[c] \notin {"idle", "mark"} => ~attached[bus[c]]
          /\ callerPc[c] = "mark" => attached[bus[c]]
          /\ callerPc[c] \in {"wait_next", "wait_reads", "link"} => ~hasInput[bus[c]]
          /\ callerPc[c] \in {"publish", "back", "enable"} => hasInput[bus[c]]

\* Which pointers of the audio thread are there to be followed.
Pointers ==
    /\ audioPc \in Selecting => cur \in Buses \union {Head}
    /\ audioPc = "read" => cur \in Buses
    /\ audioPc = "load" => cand \in Buses \union {Head}
    /\ audioPc \in {"check", "hold"} => cand \in Buses
    /\ audioPc \in {"drop", "end"} => cand \in Buses \union {Null}

\* A bus is under detachment by a caller that has not gone past the given steps.
LeftBy(b, steps) == \E c \in Callers : bus[c] = b /\ callerPc[c] \in steps

\* A bus chosen by the audio thread and not counted yet is attached, or its
\* detacher cannot have passed its first wait: a selection is in progress.
ChosenKept == audioPc = "hold" => attached[cand] \/ LeftBy(cand, Unlinking)

\* A counted bus is attached, or its detacher has not passed its second wait.
CountedKept == \A b \in Buses : refCount[b] > 0 => attached[b] \/ LeftBy(b, Leaving)

\* The inductive invariant.
IInv == TypeOK /\ LockOwner /\ Phases /\ Pointers /\ RefCountExact /\ ChosenKept /\ CountedKept

\* Facts about the constants every step needs.
LEMMA Constants ==
    /\ Head \notin Buses /\ Null \notin Buses /\ Null # Head
    /\ Nobody \notin Callers /\ Detachers \subseteq Callers
  BY DetachersAreCallers, HeadIsNoBus, NullIsNoBus, NobodyIsNoCaller

LEMMA InitIInv == Init => IInv
  BY Constants DEF Init, IInv, TypeOK, LockOwner, Phases, Pointers, RefCountExact, One,
     ChosenKept, CountedKept, CallerSteps, AudioSteps, Selecting, Leaving, Unlinking, LeftBy

\* Calls of a caller move no pointer the audio thread sees.
LEMMA CallKeeps == IInv /\ (\E c \in Callers, b \in Buses : CallDetach(c, b) \/ CallAttach(c, b)) => IInv'
  <1> SUFFICES ASSUME IInv, NEW c \in Callers, NEW b \in Buses, CallDetach(c, b) \/ CallAttach(c, b)
               PROVE IInv'
    OBVIOUS
  <1> USE Constants DEF IInv, CallDetach, CallAttach, Goto, listVars, countVars, audioVars
  <1>1. TypeOK'
    <2>1. callerPc' \in [Callers -> CallerSteps]
      BY DEF TypeOK, CallerSteps
    <2>2. outLock' \in [Buses -> Callers \union {Nobody}] /\ bus' \in [Callers -> Buses]
      BY DEF TypeOK
    <2>3. linking' \in [Callers -> BOOLEAN]
      BY DEF TypeOK
    <2> QED
      BY <2>1, <2>2, <2>3 DEF TypeOK
  <1>2. LockOwner' /\ Phases'
    BY DEF TypeOK, LockOwner, Phases
  <1>3. Pointers' /\ RefCountExact'
    BY DEF Pointers, RefCountExact
  <1>4. ChosenKept' /\ CountedKept'
    BY DEF TypeOK, LockOwner, ChosenKept, CountedKept, LeftBy, Unlinking, Leaving
  <1> QED
    BY <1>1, <1>2, <1>3, <1>4

\* The steps of a call that neither begin nor end the waits of a detach.
LEMMA WorkKeeps ==
    ASSUME IInv, NEW c \in Callers,
           \/ MarkDetached(c) \/ LockForDetach(c) \/ Unlink(c) \/ Relink(c) \/ Clear(c)
           \/ LinkOwn(c) \/ Publish(c) \/ LinkBack(c) \/ MarkAttached(c)
    PROVE  IInv'
  <1> USE Constants DEF IInv, MarkDetached, LockForDetach, Unlink, Relink, Clear, LinkOwn,
          Publish, LinkBack, MarkAttached, Goto, listVars, lockVars, countVars, audioVars
  <1>1. TypeOK'
    <2>1. CASE MarkDetached(c) \/ LockForDetach(c) \/ Clear(c) \/ Publish(c) \/ MarkAttached(c)
      BY <2>1 DEF TypeOK, CallerSteps, Leaving, Unlinking
    <2>2. CASE Unlink(c)
      BY <2>2 DEF TypeOK, CallerSteps, Leaving, Unlinking
    <2>3. CASE Relink(c)
      BY <2>3 DEF TypeOK, CallerSteps, Leaving, Unlinking
    <2>4. CASE LinkOwn(c)
      BY <2>4 DEF TypeOK, CallerSteps
    <2>5. CASE LinkBack(c)
      BY <2>5 DEF TypeOK, CallerSteps
    <2> QED
      BY <2>1, <2>2, <2>3, <2>4, <2>5
  <1>2. LockOwner' /\ Phases'
    BY DEF TypeOK, LockOwner, Phases
  <1>3. Pointers' /\ RefCountExact'
    BY DEF Pointers, RefCountExact
  <1>4. ChosenKept' /\ CountedKept'
    BY DEF TypeOK, LockOwner, Pointers, ChosenKept, CountedKept, LeftBy, Unlinking, Leaving
  <1> QED
    BY <1>1, <1>2, <1>3, <1>4

\* The first wait ends outside a selection, the second without a reference.
LEMMA WaitsKeep == ASSUME IInv, NEW c \in Callers, AwaitSelection(c) \/ AwaitReads(c) PROVE IInv'
  <1> USE Constants DEF IInv, AwaitSelection, AwaitReads, Goto, listVars, lockVars, countVars, audioVars
  <1>1. TypeOK'
    BY DEF TypeOK, CallerSteps, Leaving, Unlinking
  <1>2. LockOwner' /\ Phases'
    BY DEF TypeOK, LockOwner, Phases
  <1>3. Pointers' /\ RefCountExact'
    BY DEF Pointers, RefCountExact
  <1>4. ChosenKept'
    BY DEF TypeOK, LockOwner, RefCountExact, One, Selecting, ChosenKept, LeftBy, Unlinking
  <1>5. CountedKept'
    BY DEF TypeOK, LockOwner, CountedKept, LeftBy, Unlinking, Leaving
  <1> QED
    BY <1>1, <1>2, <1>3, <1>4, <1>5

\* Every step of the audio thread keeps the invariant.
LEMMA AudioKeeps == IInv /\ Audio => IInv'
  <1> SUFFICES ASSUME IInv, Audio PROVE IInv'
    OBVIOUS
  <1> USE Constants DEF IInv, BeginPass, FinishRead, BeginSelection, LoadNext, CheckAttached, HoldNext,
          DropCurrent, EndSelection, listVars, lockVars, countVars, callerVars
  <1>1. TypeOK'
    <2>1. CASE BeginPass \/ FinishRead \/ LoadNext \/ CheckAttached
      BY <2>1 DEF TypeOK, Pointers, AudioSteps, Selecting
    <2>2. CASE HoldNext
      BY <2>2 DEF TypeOK, Pointers, AudioSteps, Selecting
    <2>3. CASE DropCurrent
      BY <2>3 DEF TypeOK, Pointers, RefCountExact, One, AudioSteps, Selecting
    <2>4. CASE EndSelection
      BY <2>4 DEF TypeOK, Pointers, RefCountExact, One, AudioSteps, Selecting
    <2> QED
      BY <2>1, <2>2, <2>3, <2>4 DEF Audio
  <1>2. LockOwner' /\ Phases'
    BY DEF Audio, LockOwner, Phases
  <1>3. Pointers'
    BY DEF Audio, TypeOK, Pointers, Selecting
  <1>4. RefCountExact'
    <2>1. CASE BeginPass \/ FinishRead \/ LoadNext \/ CheckAttached
      BY <2>1 DEF TypeOK, Pointers, RefCountExact, One, Selecting
    <2>2. CASE HoldNext
      BY <2>2 DEF TypeOK, Pointers, RefCountExact, One, Selecting
    <2>3. CASE DropCurrent
      BY <2>3 DEF TypeOK, Pointers, RefCountExact, One, Selecting
    <2>4. CASE EndSelection
      BY <2>4 DEF TypeOK, Pointers, RefCountExact, One, Selecting
    <2> QED
      BY <2>1, <2>2, <2>3, <2>4 DEF Audio
  <1>5. ChosenKept'
    BY DEF Audio, ChosenKept, LeftBy
  <1>6. CountedKept'
    <2>1. CASE HoldNext
      BY <2>1 DEF TypeOK, ChosenKept, CountedKept, LeftBy, Leaving
    <2>2. CASE DropCurrent
      BY <2>2 DEF TypeOK, CountedKept, LeftBy
    <2> QED
      BY <2>1, <2>2 DEF Audio, CountedKept, LeftBy
  <1> QED
    BY <1>1, <1>2, <1>3, <1>4, <1>5, <1>6

LEMMA StepIInv == IInv /\ [Next]_vars => IInv'
  <1> SUFFICES ASSUME IInv, [Next]_vars PROVE IInv'
    OBVIOUS
  <1>1. CASE Audio
    BY <1>1, AudioKeeps
  <1>2. CASE \E c \in Callers : Caller(c)
    <2>1. PICK c \in Callers : Caller(c)
      BY <1>2
    <2> QED
      BY <2>1, CallKeeps, WorkKeeps, WaitsKeep DEF Caller, Working
  <1>3. CASE UNCHANGED vars
    BY <1>3 DEF vars, listVars, lockVars, countVars, callerVars, audioVars, IInv, TypeOK, LockOwner,
       Phases, Pointers, RefCountExact, ChosenKept, CountedKept, LeftBy
  <1> QED
    BY <1>1, <1>2, <1>3 DEF Next

THEOREM Invariant == Spec => []IInv
  BY InitIInv, StepIInv, PTL DEF Spec

\* The state of NodeBus has its type.
THEOREM TypeCorrect == Spec => []TypeOK
  <1>1. IInv => TypeOK
    BY DEF IInv
  <1> QED
    BY <1>1, Invariant, PTL

\* The reference counts and the selection counter are exact.
THEOREM CountsExact == Spec => []RefCountExact
  <1>1. IInv => RefCountExact
    BY DEF IInv
  <1> QED
    BY <1>1, Invariant, PTL

\* A bus whose detach has returned is not used by the audio thread, for any
\* number of buses and of threads that attach and detach.
THEOREM ReleasedSafe == Spec => []ReleasedNotHeld
  <1>1. IInv => ReleasedNotHeld
    <2> SUFFICES ASSUME IInv, NEW b \in Buses, Released(b), Uses(b) PROVE FALSE
      BY DEF ReleasedNotHeld
    <2>1. ~attached[b] /\ ~LeftBy(b, Leaving) /\ ~LeftBy(b, Unlinking)
      BY Constants DEF IInv, Released, TypeOK, LockOwner, Phases, LeftBy, Leaving, Unlinking
    <2>2. refCount[b] = 0
      BY <2>1 DEF IInv, TypeOK, CountedKept
    <2>3. ~(audioPc = "hold" /\ cand = b)
      BY <2>1 DEF IInv, ChosenKept
    <2> QED
      BY <2>2, <2>3 DEF IInv, TypeOK, RefCountExact, One, Uses
  <1> QED
    BY <1>1, Invariant, PTL

-----------------------------------------------------------------------------
\* Calls of callers are steps of the gate: marking the bus begins to close it,
\* the end of the second wait closes it, marking it as attached opens it.
LEMMA CallerGate ==
    ASSUME IInv, NEW c \in Callers, Caller(c)
    PROVE  [Gate!Next]_(Gate!gateVars)
  <1> USE Constants DEF IInv, TypeOK, Goto, listVars, lockVars, countVars, audioVars
  <1>1. held' = held
    BY DEF Caller, Working, CallDetach, CallAttach, MarkDetached, LockForDetach, Unlink, Relink, Clear,
       AwaitSelection, AwaitReads, LinkOwn, Publish, LinkBack, MarkAttached, held
  <1>2. CASE MarkDetached(c)
    <2>1. attached[bus[c]] /\ gate[bus[c]] = "in"
      BY <1>2 DEF MarkDetached, Phases, gate
    <2>2. gate' = [gate EXCEPT ![bus[c]] = "leaving"]
      BY <1>2, <2>1 DEF MarkDetached, LockOwner, gate, Leaving, Unlinking
    <2>3. Gate!BeginDetach(bus[c])
      BY <1>1, <2>1, <2>2 DEF Gate!BeginDetach
    <2> QED
      BY <2>3 DEF Gate!Next
  <1>3. CASE AwaitReads(c)
    <2>1. gate[bus[c]] = "leaving"
      BY <1>3 DEF AwaitReads, Phases, gate, Leaving
    <2>2. bus[c] \notin held
      BY <1>3 DEF AwaitReads, held
    <2>3. gate' = [gate EXCEPT ![bus[c]] = "out"]
      <3>1. callerPc' = [callerPc EXCEPT ![c] = IF linking[c] THEN "link" ELSE "idle"]
        BY <1>3 DEF AwaitReads
      <3>2. attached' = attached /\ bus' = bus /\ ~attached[bus[c]]
        BY <1>3 DEF AwaitReads, Phases
      <3>3. \A d \in Callers : bus[d] = bus[c] /\ callerPc[d] # "idle" => d = c
        BY <1>3 DEF AwaitReads, LockOwner
      <3>4. \A d \in Callers \ {c} : callerPc'[d] = callerPc[d]
        BY <3>1
      <3>5. callerPc'[c] \notin Leaving
        BY <3>1 DEF Leaving, Unlinking
      <3>6. ~\E d \in Callers : bus[d] = bus[c] /\ callerPc'[d] \in Leaving
        BY <3>3, <3>4, <3>5 DEF Leaving, Unlinking
      <3>7. \A b \in Buses \ {bus[c]} :
               (\E d \in Callers : bus[d] = b /\ callerPc'[d] \in Leaving)
               <=> (\E d \in Callers : bus[d] = b /\ callerPc[d] \in Leaving)
        BY <3>4
      <3>8. gate' = [b \in Buses |-> IF b = bus[c] THEN "out" ELSE gate[b]]
        <4>1. ASSUME NEW b \in Buses
              PROVE  (IF attached'[b] THEN "in"
                      ELSE IF \E d \in Callers : bus'[d] = b /\ callerPc'[d] \in Leaving THEN "leaving"
                      ELSE "out")
                     = IF b = bus[c] THEN "out"
                       ELSE IF attached[b] THEN "in"
                       ELSE IF \E d \in Callers : bus[d] = b /\ callerPc[d] \in Leaving THEN "leaving"
                       ELSE "out"
          <5>1. CASE b = bus[c]
            BY <3>2, <3>6, <5>1
          <5>2. CASE b # bus[c]
            BY <3>2, <3>7, <5>2
          <5> QED
            BY <5>1, <5>2
        <4> QED
          BY <4>1 DEF gate
      <3> QED
        BY <3>8 DEF gate
    <2>4. Gate!EndDetach(bus[c])
      BY <1>1, <2>1, <2>2, <2>3 DEF Gate!EndDetach
    <2> QED
      BY <2>4 DEF Gate!Next
  <1>4. CASE MarkAttached(c)
    <2>1. gate[bus[c]] = "out"
      BY <1>4 DEF MarkAttached, Phases, LockOwner, gate, Leaving, Unlinking
    <2>2. gate' = [gate EXCEPT ![bus[c]] = "in"]
      BY <1>4 DEF MarkAttached, gate, Leaving, Unlinking
    <2>3. Gate!Attach(bus[c])
      BY <1>1, <2>1, <2>2 DEF Gate!Attach
    <2> QED
      BY <2>3 DEF Gate!Next
  <1>5. CASE \E b \in Buses : CallDetach(c, b) \/ CallAttach(c, b)
    BY <1>1, <1>5 DEF CallDetach, CallAttach, LockOwner, gate, Leaving, Unlinking, Gate!gateVars
  <1>6. CASE \/ LockForDetach(c) \/ Unlink(c) \/ Relink(c) \/ Clear(c) \/ AwaitSelection(c)
             \/ LinkOwn(c) \/ Publish(c) \/ LinkBack(c)
    BY <1>1, <1>6 DEF LockForDetach, Unlink, Relink, Clear, AwaitSelection, LinkOwn, Publish, LinkBack,
       gate, Leaving, Unlinking, Gate!gateVars
  <1> QED
    BY <1>2, <1>3, <1>4, <1>5, <1>6 DEF Caller, Working

\* Counting a chosen bus takes it, and the end of its use drops it.
LEMMA AudioGate ==
    ASSUME IInv, Audio
    PROVE  [Gate!Next]_(Gate!gateVars)
  <1> USE Constants DEF IInv, listVars, lockVars, countVars, callerVars
  <1>1. gate' = gate
    BY DEF Audio, BeginPass, FinishRead, BeginSelection, LoadNext, CheckAttached, HoldNext, DropCurrent,
       EndSelection, gate
  <1>2. CASE HoldNext
    <2>1. cand \in Buses /\ gate[cand] # "out"
      BY <1>2 DEF HoldNext, Pointers, ChosenKept, LeftBy, gate, Leaving
    <2>2. held' = held \union {cand}
      BY <1>2, <2>1 DEF HoldNext, TypeOK, held
    <2>3. Gate!Take(cand)
      BY <1>1, <2>1, <2>2 DEF Gate!Take
    <2> QED
      BY <2>1, <2>3 DEF Gate!Next
  <1>3. CASE DropCurrent
    <2>1. CASE cur = Head
      BY <1>1, <1>3, <2>1 DEF DropCurrent, held, Gate!gateVars
    <2>2. CASE cur \in Buses
      <3>1. refCount[cur] > 0
        BY <1>3, <2>2 DEF DropCurrent, TypeOK, RefCountExact, One
      <3>2. held' = held \/ held' = held \ {cur}
        BY <1>3, <2>2 DEF DropCurrent, TypeOK, held
      <3>3. held' = held \/ Gate!Drop(cur)
        BY <1>1, <2>2, <3>1, <3>2 DEF Gate!Drop, held
      <3> QED
        BY <1>1, <2>2, <3>3 DEF Gate!Next, Gate!gateVars
    <2> QED
      BY <1>3, <2>1, <2>2 DEF DropCurrent, Pointers, Selecting
  <1>4. CASE BeginPass \/ FinishRead \/ LoadNext \/ CheckAttached \/ EndSelection
    BY <1>1, <1>4 DEF BeginPass, FinishRead, BeginSelection, LoadNext, CheckAttached, EndSelection, held,
       Gate!gateVars
  <1> QED
    BY <1>2, <1>3, <1>4 DEF Audio

\* The list under its locks and the walk without locks implement BusGate.
THEOREM BusImplementsGate == Spec => ImplementsGate
  <1>1. Init => Gate!Init
    BY DEF Init, Gate!Init, gate, held, Leaving, Unlinking
  <1>2. IInv /\ [Next]_vars => [Gate!Next]_(Gate!gateVars)
    <2> SUFFICES ASSUME IInv, [Next]_vars PROVE [Gate!Next]_(Gate!gateVars)
      OBVIOUS
    <2>1. CASE UNCHANGED vars
      BY <2>1 DEF vars, listVars, lockVars, countVars, callerVars, gate, held, Gate!gateVars
    <2> QED
      BY <2>1, CallerGate, AudioGate DEF Next
  <1> QED
    BY <1>1, <1>2, Invariant, PTL DEF ImplementsGate, Spec, Gate!Spec


-----------------------------------------------------------------------------
(***************************************************************************)
(* The list.                                                               *)
(***************************************************************************)
\* A caller holds the spinlock of the input bus exactly while it changes the
\* list.
InLockOwner ==
    \A c \in Callers : inLock = c <=> callerPc[c] \in {"unlink", "relink", "publish", "back"}

\* Before it is cleared a detached bus has its input node, and only detaching
\* threads detach.
DetachPhases ==
    \A c \in Callers :
        /\ callerPc[c] \in {"mark", "lock", "unlink", "relink", "clear"} => hasInput[bus[c]]
        /\ callerPc[c] \in Leaving \union {"mark"} => c \in Detachers
        /\ callerPc[c] \in {"wait_next", "wait_reads"} => next[bus[c]] = Null

\* The buses that the next pointers lead to.
InList(b) == hasInput[b] /\ ~LeftBy(b, {"relink", "clear", "publish"})
Chain == {b \in Buses : InList(b)}

\* The next pointers form chains over the buses of the list, and no two of
\* them meet.
Forward ==
    /\ \A b \in Chain \union {Head} : next[b] \in Chain \union {Null}
    /\ \A a, b \in Chain \union {Head} : next[a] = next[b] /\ next[a] # Null => a = b

\* No chain comes back to a bus: the buses can be ranked along it.
Acyclic ==
    \E rank \in [Buses \union {Head} -> Int] :
        \A b \in Chain \union {Head} : next[b] # Null => rank[b] < rank[next[b]]

\* The bus before b is before it by both pointers, but while the pointer of the
\* next pointer's new end is still the old one.
Stale(b) == \E c \in Callers : callerPc[c] \in {"relink", "back"} /\ next[bus[c]] = b
Backward ==
    \A b \in Chain : ~Stale(b) => prev[b] \in Chain \union {Head} /\ next[prev[b]] = b

\* What the bus that is being unlinked or linked points to.
Splice ==
    \A c \in Callers :
        /\ callerPc[c] = "relink" =>
              /\ prev[bus[c]] \in Chain \union {Head}
              /\ next[bus[c]] \in Chain \union {Null}
              /\ next[prev[bus[c]]] = next[bus[c]]
        /\ callerPc[c] = "publish" => prev[bus[c]] = Head /\ next[bus[c]] = next[Head]
        /\ callerPc[c] = "back" => prev[bus[c]] = Head /\ next[Head] = bus[c]

ListInv == InLockOwner /\ DetachPhases /\ Forward /\ Acyclic /\ Backward /\ Splice

\* With one detaching thread: what the audio thread looks at is in the list, or
\* is the bus being detached, which leads back into the list.
OneDetacher == \A c, d \in Detachers : c = d
Reachable(b) ==
    \/ InList(b)
    \/ LeftBy(b, {"relink", "clear", "wait_next"})
    \/ LeftBy(b, {"wait_reads"}) /\ cur = b /\ audioPc = "load"
VisitInv ==
    /\ audioPc \in {"load", "check"} /\ cand \in Buses => Reachable(cand)
    /\ \A c \in Callers : callerPc[c] = "clear" => next[bus[c]] \in Chain \union {Null}

\* Facts about the caller that makes a step: its lock, its bus is worked on by
\* nobody else, and nobody else is changing the list.
LEMMA Alone ==
    ASSUME IInv, ListInv, NEW c \in Callers, callerPc[c] # "idle"
    PROVE  /\ bus[c] \in Buses /\ outLock[bus[c]] = c
           /\ \A d \in Callers \ {c} : callerPc[d] # "idle" => bus[d] # bus[c]
           /\ inLock \in {c, Nobody} =>
                 \A d \in Callers \ {c} : callerPc[d] \notin {"unlink", "relink", "publish", "back"}
  BY Constants DEF IInv, TypeOK, LockOwner, ListInv, InLockOwner

LEMMA InitListInv == Init => ListInv
  <1> SUFFICES ASSUME Init PROVE ListInv
    OBVIOUS
  <1>1. Acyclic
    <2>1. [b \in Buses \union {Head} |-> 0] \in [Buses \union {Head} -> Int]
      OBVIOUS
    <2>2. \A b \in Chain \union {Head} : next[b] = Null
      BY DEF Init, Chain, InList
    <2> QED
      BY <2>1, <2>2 DEF Acyclic
  <1> QED
  BY <1>1, Constants DEF Init, ListInv, InLockOwner, DetachPhases, Forward, Chain, InList, Backward, Stale, Splice,
     Leaving, Unlinking

\* Steps that change no pointer and no input node, and do not enter or leave
\* the phases in which the list is changed.
LEMMA QuietKeepsList ==
    ASSUME IInv, ListInv, UNCHANGED <<next, prev, hasInput>>,
           \A d \in Callers, s \in {"relink", "clear", "publish", "back"} :
               /\ callerPc'[d] = s <=> callerPc[d] = s
               /\ callerPc[d] = s => bus'[d] = bus[d]
    PROVE  Chain' = Chain /\ Forward' /\ Acyclic' /\ Backward' /\ Splice'
  <1>1. \A b : LeftBy(b, {"relink", "clear", "publish"})' <=> LeftBy(b, {"relink", "clear", "publish"})
    BY DEF LeftBy
  <1>2. Chain' = Chain
    BY <1>1 DEF Chain, InList
  <1>3. \A b : Stale(b)' <=> Stale(b)
    BY DEF Stale
  <1>4. Forward' /\ Acyclic' /\ Backward'
    BY <1>2, <1>3 DEF ListInv, Forward, Acyclic, Backward
  <1>5. Splice'
    BY <1>2 DEF ListInv, Splice
  <1> QED
    BY <1>2, <1>4, <1>5

LEMMA CallKeepsList ==
    ASSUME IInv, ListInv, NEW c \in Callers, NEW b \in Buses, CallDetach(c, b) \/ CallAttach(c, b)
    PROVE  ListInv'
  <1> USE DEF CallDetach, CallAttach, Goto, listVars, countVars, audioVars
  <1>1. InLockOwner'
    BY DEF ListInv, InLockOwner, IInv, TypeOK
  <1>2. DetachPhases'
    BY Constants DEF ListInv, DetachPhases, IInv, TypeOK, Leaving, Unlinking
  <1>3. Forward' /\ Acyclic' /\ Backward' /\ Splice'
    <2>1. \A d \in Callers, s \in {"relink", "clear", "publish", "back"} :
               /\ callerPc'[d] = s <=> callerPc[d] = s
               /\ callerPc[d] = s => bus'[d] = bus[d]
      BY DEF IInv, TypeOK
    <2> QED
      BY <2>1, QuietKeepsList
  <1> QED
    BY <1>1, <1>2, <1>3 DEF ListInv

LEMMA QuietWorkKeepsList ==
    ASSUME IInv, ListInv, NEW c \in Callers,
           MarkDetached(c) \/ LockForDetach(c) \/ AwaitSelection(c) \/ AwaitReads(c) \/ MarkAttached(c)
    PROVE  ListInv'
  <1> USE DEF MarkDetached, LockForDetach, AwaitSelection, AwaitReads, MarkAttached,
          Goto, listVars, lockVars, countVars, audioVars
  <1>1. InLockOwner'
    BY Constants DEF ListInv, InLockOwner, IInv, TypeOK
  <1>2. DetachPhases'
    BY DEF ListInv, DetachPhases, IInv, TypeOK, Leaving, Unlinking
  <1>3. Forward' /\ Acyclic' /\ Backward' /\ Splice'
    <2>1. \A d \in Callers, s \in {"relink", "clear", "publish", "back"} :
               /\ callerPc'[d] = s <=> callerPc[d] = s
               /\ callerPc[d] = s => bus'[d] = bus[d]
      BY DEF IInv, TypeOK
    <2> QED
      BY <2>1, QuietKeepsList
  <1> QED
    BY <1>1, <1>2, <1>3 DEF ListInv

\* Unlinking: the bus before leads past the bus that goes.
LEMMA UnlinkKeepsList ==
    ASSUME IInv, ListInv, NEW c \in Callers, Unlink(c)
    PROVE  ListInv' /\ Chain' = Chain \ {bus[c]}
  <1> DEFINE x == bus[c]
             p == prev[x]
  <1> USE Constants
  <1>1. /\ callerPc[c] = "unlink" /\ inLock = c /\ x \in Buses /\ hasInput[x]
        /\ callerPc' = [callerPc EXCEPT ![c] = "relink"]
        /\ UNCHANGED <<prev, hasInput, inLock, bus>>
    BY DEF Unlink, Goto, lockVars, ListInv, InLockOwner, DetachPhases, IInv, TypeOK
  <1>2. /\ \A d \in Callers \ {c} : callerPc'[d] = callerPc[d]
        /\ callerPc'[c] = "relink"
    BY <1>1 DEF IInv, TypeOK
  <1>3. /\ \A d \in Callers \ {c} : callerPc[d] # "idle" => bus[d] # x
        /\ \A d \in Callers \ {c} : callerPc[d] \notin {"unlink", "relink", "publish", "back"}
    BY <1>1, Alone
  <1>4. x \in Chain /\ \A b : ~Stale(b)
    BY <1>1, <1>3 DEF Chain, InList, LeftBy, Stale
  <1>5. p \in Chain \union {Head} /\ next[p] = x /\ p # Null /\ next[x] \in Chain \union {Null}
    BY <1>4 DEF ListInv, Backward, Forward, Chain
  <1>6. next' = [next EXCEPT ![p] = next[x]] /\ p \in Buses \union {Head}
    BY <1>5 DEF Unlink, Chain
  <1>7. /\ next'[p] = next[x]
        /\ \A b \in (Buses \union {Head}) \ {p} : next'[b] = next[b]
    BY <1>6 DEF IInv, TypeOK
  <1>8. Chain' = Chain \ {x}
    BY <1>1, <1>2, <1>3 DEF Chain, InList, LeftBy
  <1>9. InLockOwner'
    BY <1>1, <1>2 DEF ListInv, InLockOwner
  <1>10. DetachPhases'
    <2>1. \A d \in Callers : callerPc'[d] \in {"wait_next", "wait_reads"} => next'[bus'[d]] = Null
      <3> SUFFICES ASSUME NEW d \in Callers, callerPc'[d] \in {"wait_next", "wait_reads"}
                   PROVE  next'[bus[d]] = Null
        BY <1>1
      <3>1. d # c /\ callerPc[d] \in {"wait_next", "wait_reads"} /\ next[bus[d]] = Null /\ bus[d] \in Buses
        BY <1>2 DEF ListInv, DetachPhases, IInv, TypeOK
      <3>2. bus[d] # p
        BY <1>1, <1>5, <3>1
      <3> QED
        BY <3>1, <3>2, <1>7
    <2> QED
      BY <2>1, <1>1, <1>2 DEF ListInv, DetachPhases, Leaving, Unlinking
  <1>11. PICK rank \in [Buses \union {Head} -> Int] :
           \A b \in Chain \union {Head} : next[b] # Null => rank[b] < rank[next[b]]
    BY DEF ListInv, Acyclic
  <1>12. /\ rank[p] \in Int /\ rank[x] \in Int /\ rank[p] < rank[x]
         /\ next[x] # Null => rank[next[x]] \in Int /\ rank[x] < rank[next[x]]
    BY <1>1, <1>4, <1>5, <1>11 DEF Chain
  <1>13. p # x /\ next[x] # x
    BY <1>12, <1>1
  <1>14. Forward'
    <2>1. \A b \in Chain' \union {Head} : next'[b] \in Chain' \union {Null}
      <3> SUFFICES ASSUME NEW b \in Chain' \union {Head} PROVE next'[b] \in Chain' \union {Null}
        OBVIOUS
      <3>1. b \in Chain \union {Head} /\ b \in Buses \union {Head} /\ b # x
        BY <1>1, <1>8 DEF Chain
      <3>2. CASE b = p
        BY <3>2, <1>5, <1>7, <1>8, <1>13
      <3>3. CASE b # p
        BY <3>1, <3>3, <1>4, <1>5, <1>7, <1>8 DEF ListInv, Forward
      <3> QED
        BY <3>2, <3>3
    <2>2. ASSUME NEW a \in Chain' \union {Head}, NEW b \in Chain' \union {Head},
                 next'[a] = next'[b], next'[a] # Null
          PROVE  a = b
      <3>1. a \in Chain \union {Head} /\ b \in Chain \union {Head} /\ a # x /\ b # x
            /\ a \in Buses \union {Head} /\ b \in Buses \union {Head}
        BY <1>1, <1>8 DEF Chain
      <3> QED
        BY <3>1, <2>2, <1>4, <1>5, <1>7 DEF ListInv, Forward
    <2> QED
      BY <2>1, <2>2 DEF Forward
  <1>15. Acyclic'
    <2>1. ASSUME NEW b \in Chain' \union {Head}, next'[b] # Null
          PROVE  rank[b] < rank[next'[b]]
      <3>1. b \in Chain \union {Head} /\ b \in Buses \union {Head}
        BY <1>8 DEF Chain
      <3>2. CASE b = p
        BY <3>2, <2>1, <1>7, <1>12
      <3>3. CASE b # p
        BY <3>1, <3>3, <2>1, <1>7, <1>11
      <3> QED
        BY <3>2, <3>3
    <2> QED
      BY <2>1 DEF Acyclic
  <1>16. Backward'
    <2> SUFFICES ASSUME NEW b \in Chain', ~Stale(b)'
                 PROVE  prev'[b] \in Chain' \union {Head} /\ next'[prev'[b]] = b
      BY DEF Backward
    <2>1. next'[x] = next[x]
      BY <1>1, <1>7, <1>13
    <2>2. b # next[x]
      BY <2>1, <1>1, <1>2 DEF Stale
    <2>3. b \in Chain /\ b # x /\ prev[b] \in Chain \union {Head} /\ next[prev[b]] = b
      BY <1>4, <1>8 DEF ListInv, Backward
    <2>4. prev[b] # p /\ prev[b] # x /\ prev[b] \in Buses \union {Head}
      BY <2>2, <2>3, <1>5 DEF Chain
    <2> QED
      BY <2>3, <2>4, <1>1, <1>7, <1>8
  <1>17. Splice'
    <2>1. next'[x] = next[x]
      BY <1>1, <1>7, <1>13
    <2>2. next[x] \in Chain' \union {Null} /\ p \in Chain' \union {Head}
      BY <1>5, <1>8, <1>13
    <2> QED
      BY <2>1, <2>2, <1>1, <1>2, <1>3, <1>7 DEF Splice
  <1> QED
    BY <1>8, <1>9, <1>10, <1>14, <1>15, <1>16, <1>17 DEF ListInv

\* Relinking: the bus after the one that goes gets its new predecessor.
LEMMA RelinkKeepsList ==
    ASSUME IInv, ListInv, NEW c \in Callers, Relink(c)
    PROVE  ListInv' /\ Chain' = Chain
  <1> DEFINE x == bus[c]
             y == next[x]
  <1> USE Constants
  <1>1. /\ callerPc[c] = "relink" /\ inLock = c /\ x \in Buses
        /\ callerPc' = [callerPc EXCEPT ![c] = "clear"]
        /\ UNCHANGED <<next, hasInput, bus>> /\ inLock' = Nobody
    BY DEF Relink, Goto, ListInv, InLockOwner, IInv, TypeOK
  <1>2. /\ \A d \in Callers \ {c} : callerPc'[d] = callerPc[d]
        /\ callerPc'[c] = "clear"
    BY <1>1 DEF IInv, TypeOK
  <1>3. /\ \A d \in Callers \ {c} : callerPc[d] # "idle" => bus[d] # x
        /\ \A d \in Callers \ {c} : callerPc[d] \notin {"unlink", "relink", "publish", "back"}
    BY <1>1, Alone
  <1>4. /\ prev[x] \in Chain \union {Head} /\ y \in Chain \union {Null} /\ next[prev[x]] = y
    BY <1>1 DEF ListInv, Splice
  <1>5. /\ y # Null => prev'[y] = prev[x]
        /\ \A b \in Buses : b # y => prev'[b] = prev[b]
    BY <1>4 DEF Relink, IInv, TypeOK, Chain
  <1>6. Chain' = Chain
    BY <1>1, <1>2, <1>3 DEF Chain, InList, LeftBy
  <1>7. InLockOwner'
    BY <1>1, <1>2, <1>3 DEF InLockOwner
  <1>8. DetachPhases'
    BY <1>1, <1>2 DEF ListInv, DetachPhases, Leaving, Unlinking
  <1>9. Forward' /\ Acyclic'
    BY <1>1, <1>6 DEF ListInv, Forward, Acyclic
  <1>10. Backward'
    <2> SUFFICES ASSUME NEW b \in Chain
                 PROVE  prev'[b] \in Chain \union {Head} /\ next[prev'[b]] = b
      BY <1>1, <1>6 DEF Backward
    <2>1. CASE b = y
      BY <2>1, <1>4, <1>5 DEF Chain
    <2>2. CASE b # y
      <3>1. ~Stale(b)
        BY <2>2, <1>3 DEF Stale
      <3> QED
        BY <2>2, <3>1, <1>5 DEF ListInv, Backward, Chain
    <2> QED
      BY <2>1, <2>2
  <1>11. Splice'
    BY <1>2, <1>3 DEF Splice
  <1> QED
    BY <1>6, <1>7, <1>8, <1>9, <1>10, <1>11 DEF ListInv

\* The pointers of the bus that has gone are reset.
LEMMA ClearKeepsList ==
    ASSUME IInv, ListInv, NEW c \in Callers, Clear(c)
    PROVE  ListInv' /\ Chain' = Chain
  <1> DEFINE x == bus[c]
  <1> USE Constants
  <1>1. /\ callerPc[c] = "clear" /\ x \in Buses
        /\ callerPc' = [callerPc EXCEPT ![c] = "wait_next"]
        /\ UNCHANGED <<inLock, bus>>
    BY DEF Clear, Goto, lockVars, IInv, TypeOK
  <1>2. /\ \A d \in Callers \ {c} : callerPc'[d] = callerPc[d]
        /\ callerPc'[c] = "wait_next"
    BY <1>1 DEF IInv, TypeOK
  <1>3. \A d \in Callers \ {c} : callerPc[d] # "idle" => bus[d] # x
    BY <1>1, Alone
  <1>4. /\ next'[x] = Null /\ ~hasInput'[x]
        /\ \A b \in (Buses \union {Head}) \ {x} : next'[b] = next[b]
        /\ \A b \in Buses \ {x} : prev'[b] = prev[b] /\ hasInput'[b] = hasInput[b]
    BY <1>1 DEF Clear, IInv, TypeOK
  <1>5. x \notin Chain
    BY <1>1 DEF Chain, InList, LeftBy
  <1>6. Chain' = Chain
    <2>1. \A b \in Buses \ {x} : LeftBy(b, {"relink", "clear", "publish"})' <=> LeftBy(b, {"relink", "clear", "publish"})
      BY <1>1, <1>2 DEF LeftBy
    <2> QED
      BY <2>1, <1>4, <1>5 DEF Chain, InList
  <1>7. InLockOwner'
    BY <1>1, <1>2 DEF ListInv, InLockOwner
  <1>8. DetachPhases'
    <2> SUFFICES ASSUME NEW d \in Callers
                 PROVE  /\ callerPc'[d] \in {"mark", "lock", "unlink", "relink", "clear"} => hasInput'[bus[d]]
                        /\ callerPc'[d] \in Leaving \union {"mark"} => d \in Detachers
                        /\ callerPc'[d] \in {"wait_next", "wait_reads"} => next'[bus[d]] = Null
      BY <1>1 DEF DetachPhases
    <2>1. CASE d = c
      BY <2>1, <1>1, <1>2, <1>4 DEF ListInv, DetachPhases, Leaving, Unlinking
    <2>2. CASE d # c /\ callerPc[d] = "idle"
      BY <2>2, <1>2 DEF Leaving, Unlinking
    <2>3. CASE d # c /\ callerPc[d] # "idle"
      BY <2>3, <1>2, <1>3, <1>4 DEF ListInv, DetachPhases, IInv, TypeOK
    <2> QED
      BY <2>1, <2>2, <2>3
  <1>9. \A b \in Chain \union {Head} : b # x /\ next'[b] = next[b]
    BY <1>1, <1>4, <1>5 DEF Chain
  <1>10. Forward' /\ Acyclic'
    BY <1>6, <1>9 DEF ListInv, Forward, Acyclic
  <1>11. \A b \in Chain : Stale(b)' <=> Stale(b)
    <2>1. \A d \in Callers : callerPc'[d] \in {"relink", "back"} <=> callerPc[d] \in {"relink", "back"}
      BY <1>1, <1>2
    <2>2. \A d \in Callers : callerPc[d] \in {"relink", "back"} => next'[bus[d]] = next[bus[d]]
      BY <1>1, <1>3, <1>4 DEF IInv, TypeOK
    <2> QED
      BY <2>1, <2>2, <1>1 DEF Stale
  <1>12. Backward'
    <2> SUFFICES ASSUME NEW b \in Chain, ~Stale(b)
                 PROVE  prev'[b] \in Chain \union {Head} /\ next'[prev'[b]] = b
      BY <1>6, <1>11 DEF Backward
    <2>1. prev'[b] = prev[b] /\ prev[b] \in Chain \union {Head} /\ next[prev[b]] = b
      BY <1>4, <1>5 DEF ListInv, Backward, Chain
    <2> QED
      BY <2>1, <1>9
  <1>13. Splice'
    <2> SUFFICES ASSUME NEW d \in Callers, callerPc'[d] \in {"relink", "publish", "back"}
                 PROVE  /\ callerPc[d] = callerPc'[d]
                        /\ prev'[bus[d]] = prev[bus[d]] /\ next'[bus[d]] = next[bus[d]]
                        /\ callerPc[d] = "relink" => next'[prev[bus[d]]] = next[prev[bus[d]]]
                        /\ next'[Head] = next[Head]
      BY <1>1, <1>6 DEF ListInv, Splice
    <2>1. d # c /\ callerPc[d] = callerPc'[d] /\ bus[d] # x /\ bus[d] \in Buses
      BY <1>2, <1>3 DEF IInv, TypeOK
    <2>2. callerPc[d] = "relink" => prev[bus[d]] \in Chain \union {Head}
      BY DEF ListInv, Splice
    <2> QED
      BY <2>1, <2>2, <1>4, <1>9
  <1> QED
    BY <1>6, <1>7, <1>8, <1>10, <1>12, <1>13 DEF ListInv

\* A bus that is linked gets its own pointers first.
LEMMA LinkOwnKeepsList ==
    ASSUME IInv, ListInv, NEW c \in Callers, LinkOwn(c)
    PROVE  ListInv' /\ Chain' = Chain
  <1> DEFINE x == bus[c]
  <1> USE Constants
  <1>1. /\ callerPc[c] = "link" /\ inLock = Nobody /\ x \in Buses /\ ~hasInput[x]
        /\ callerPc' = [callerPc EXCEPT ![c] = "publish"]
        /\ bus' = bus /\ inLock' = c
    BY DEF LinkOwn, Goto, IInv, TypeOK, Phases
  <1>2. /\ \A d \in Callers \ {c} : callerPc'[d] = callerPc[d]
        /\ callerPc'[c] = "publish"
    BY <1>1 DEF IInv, TypeOK
  <1>3. /\ \A d \in Callers \ {c} : callerPc[d] # "idle" => bus[d] # x
        /\ \A d \in Callers \ {c} : callerPc[d] \notin {"unlink", "relink", "publish", "back"}
    BY <1>1, Alone
  <1>4. /\ next'[x] = next[Head] /\ prev'[x] = Head /\ hasInput'[x]
        /\ \A b \in (Buses \union {Head}) \ {x} : next'[b] = next[b]
        /\ \A b \in Buses \ {x} : prev'[b] = prev[b] /\ hasInput'[b] = hasInput[b]
    BY <1>1 DEF LinkOwn, IInv, TypeOK
  <1>5. x \notin Chain
    BY <1>1 DEF Chain, InList
  <1>6. Chain' = Chain
    <2>1. LeftBy(x, {"relink", "clear", "publish"})'
      BY <1>1, <1>2 DEF LeftBy
    <2>2. \A b \in Buses \ {x} : LeftBy(b, {"relink", "clear", "publish"})' <=> LeftBy(b, {"relink", "clear", "publish"})
      BY <1>1, <1>2 DEF LeftBy
    <2>3. ~InList(x)' /\ ~InList(x)
      BY <2>1, <1>1 DEF InList
    <2>4. \A b \in Buses \ {x} : InList(b)' <=> InList(b)
      BY <2>2, <1>4 DEF InList
    <2> QED
      BY <1>1, <2>3, <2>4 DEF Chain
  <1>7. InLockOwner'
    BY <1>1, <1>2, <1>3 DEF InLockOwner
  <1>8. DetachPhases'
    <2> SUFFICES ASSUME NEW d \in Callers
                 PROVE  /\ callerPc'[d] \in {"mark", "lock", "unlink", "relink", "clear"} => hasInput'[bus[d]]
                        /\ callerPc'[d] \in Leaving \union {"mark"} => d \in Detachers
                        /\ callerPc'[d] \in {"wait_next", "wait_reads"} => next'[bus[d]] = Null
      BY <1>1 DEF DetachPhases
    <2>1. CASE d = c
      BY <2>1, <1>2 DEF Leaving, Unlinking
    <2>2. CASE d # c /\ callerPc[d] = "idle"
      BY <2>2, <1>2 DEF Leaving, Unlinking
    <2>3. CASE d # c /\ callerPc[d] # "idle"
      BY <2>3, <1>2, <1>3, <1>4 DEF ListInv, DetachPhases, IInv, TypeOK
    <2> QED
      BY <2>1, <2>2, <2>3
  <1>9. \A b \in Chain \union {Head} : b # x /\ next'[b] = next[b]
    BY <1>1, <1>4, <1>5 DEF Chain
  <1>10. Forward' /\ Acyclic'
    BY <1>6, <1>9 DEF ListInv, Forward, Acyclic
  <1>11. \A b : ~Stale(b)
    BY <1>1, <1>3 DEF Stale
  <1>12. Backward'
    <2> SUFFICES ASSUME NEW b \in Chain
                 PROVE  prev'[b] \in Chain \union {Head} /\ next'[prev'[b]] = b
      BY <1>6 DEF Backward
    <2>1. prev'[b] = prev[b] /\ prev[b] \in Chain \union {Head} /\ next[prev[b]] = b
      BY <1>4, <1>5, <1>11 DEF ListInv, Backward, Chain
    <2> QED
      BY <2>1, <1>9
  <1>13. Splice'
    BY <1>1, <1>2, <1>3, <1>4, <1>9 DEF Splice
  <1> QED
    BY <1>6, <1>7, <1>8, <1>10, <1>12, <1>13 DEF ListInv

\* Publishing: the head leads to the bus, and the bus on to the old list.
LEMMA PublishKeepsList ==
    ASSUME IInv, ListInv, NEW c \in Callers, Publish(c)
    PROVE  ListInv' /\ Chain' = Chain \union {bus[c]}
  <1> DEFINE x == bus[c]
  <1> USE Constants
  <1>1. /\ callerPc[c] = "publish" /\ inLock = c /\ x \in Buses /\ hasInput[x]
        /\ callerPc' = [callerPc EXCEPT ![c] = "back"]
        /\ UNCHANGED <<prev, hasInput, inLock, bus>>
    BY DEF Publish, Goto, lockVars, ListInv, InLockOwner, IInv, TypeOK, Phases
  <1>2. /\ \A d \in Callers \ {c} : callerPc'[d] = callerPc[d]
        /\ callerPc'[c] = "back"
    BY <1>1 DEF IInv, TypeOK
  <1>3. /\ \A d \in Callers \ {c} : callerPc[d] # "idle" => bus[d] # x
        /\ \A d \in Callers \ {c} : callerPc[d] \notin {"unlink", "relink", "publish", "back"}
    BY <1>1, Alone
  <1>4. /\ next'[Head] = x
        /\ \A b \in Buses : next'[b] = next[b]
    BY <1>1 DEF Publish, IInv, TypeOK
  <1>5. x \notin Chain /\ prev[x] = Head /\ next[x] = next[Head] /\ next[Head] \in Chain \union {Null}
    BY <1>1 DEF Chain, InList, LeftBy, ListInv, Splice, Forward
  <1>6. Chain' = Chain \union {x}
    <2>1. ~LeftBy(x, {"relink", "clear", "publish"})'
      BY <1>1, <1>2, <1>3 DEF LeftBy
    <2>2. \A b \in Buses \ {x} : LeftBy(b, {"relink", "clear", "publish"})' <=> LeftBy(b, {"relink", "clear", "publish"})
      BY <1>1, <1>2 DEF LeftBy
    <2> QED
      BY <2>1, <2>2, <1>1, <1>5 DEF Chain, InList
  <1>7. InLockOwner'
    BY <1>1, <1>2, <1>3 DEF ListInv, InLockOwner
  <1>8. DetachPhases'
    BY <1>1, <1>2, <1>4 DEF ListInv, DetachPhases, Leaving, Unlinking, IInv, TypeOK
  <1>9. \A b \in Chain : b \in Buses /\ b # x /\ next'[b] = next[b] /\ next[b] \in Chain \union {Null}
    BY <1>4, <1>5 DEF Chain, ListInv, Forward
  <1>10. \A b \in Chain : next[b] # Null => next[b] # next[Head]
    BY <1>9 DEF ListInv, Forward
  <1>11. Forward'
    <2>1. \A b \in Chain' \union {Head} : next'[b] \in Chain' \union {Null}
      BY <1>1, <1>4, <1>5, <1>6, <1>9
    <2>2. ASSUME NEW a \in Chain' \union {Head}, NEW b \in Chain' \union {Head},
                 next'[a] = next'[b], next'[a] # Null
          PROVE  a = b
      <3>1. CASE a \in Chain /\ b \in Chain
        BY <3>1, <2>2, <1>9 DEF ListInv, Forward
      <3>2. CASE a = Head \/ b = Head
        <4>1. next'[x] # x
          BY <1>1, <1>4, <1>5
        <4>2. \A e \in Chain : next'[e] # x
          BY <1>1, <1>5, <1>9
        <4> QED
          BY <2>2, <3>2, <4>1, <4>2, <1>4, <1>6
      <3>3. CASE a = x \/ b = x
        <4>1. next'[x] = next[Head]
          BY <1>1, <1>4, <1>5
        <4>2. \A e \in Chain : next[Head] # Null => next'[e] # next[Head]
          BY <1>9, <1>10
        <4>3. next[Head] # next'[Head]
          BY <1>1, <1>4, <1>5
        <4> QED
          BY <2>2, <3>3, <4>1, <4>2, <4>3, <1>6
      <3> QED
        BY <3>1, <3>2, <3>3, <1>6
    <2> QED
      BY <2>1, <2>2 DEF Forward
  <1>12. Acyclic'
    <2>1. PICK rank \in [Buses \union {Head} -> Int] :
             \A b \in Chain \union {Head} : next[b] # Null => rank[b] < rank[next[b]]
      BY DEF ListInv, Acyclic
    <2> DEFINE new == [b \in Buses \union {Head} |->
                          IF b = Head THEN rank[Head] - 1 ELSE IF b = x THEN rank[Head] ELSE rank[b]]
    <2>2. new \in [Buses \union {Head} -> Int]
      BY <2>1
    <2>3. /\ new[Head] = rank[Head] - 1 /\ new[x] = rank[Head]
          /\ \A b \in Chain : new[b] = rank[b]
      BY <1>1, <1>9
    <2>4. ASSUME NEW b \in Chain' \union {Head}, next'[b] # Null
          PROVE  new[b] < new[next'[b]]
      <3> HIDE DEF new
      <3>1. CASE b = Head
        BY <3>1, <2>1, <2>3, <1>4
      <3>2. CASE b = x
        <4>1. next'[b] = next[Head] /\ next[Head] \in Chain
          BY <3>2, <2>4, <1>1, <1>4, <1>5
        <4> QED
          BY <3>2, <4>1, <2>1, <2>3, <2>4
      <3>3. CASE b \in Chain
        <4>1. next'[b] = next[b] /\ next[b] \in Chain
          BY <3>3, <2>4, <1>9
        <4> QED
          BY <3>3, <4>1, <2>1, <2>3, <2>4
      <3> QED
        BY <3>1, <3>2, <3>3, <1>6
    <2> QED
      BY <2>2, <2>4 DEF Acyclic
  <1>13. Backward'
    <2> SUFFICES ASSUME NEW b \in Chain', ~Stale(b)'
                 PROVE  prev[b] \in Chain' \union {Head} /\ next'[prev[b]] = b
      BY <1>1 DEF Backward
    <2>1. CASE b = x
      BY <2>1, <1>4, <1>5
    <2>2. CASE b \in Chain
      <3>1. b # next[Head]
        BY <1>1, <1>2, <1>4, <1>5 DEF Stale
      <3>2. ~Stale(b)
        BY <1>1, <1>3 DEF Stale
      <3>3. prev[b] \in Chain \union {Head} /\ next[prev[b]] = b
        BY <2>2, <3>2 DEF ListInv, Backward
      <3> QED
        BY <3>1, <3>3, <1>6, <1>9
    <2> QED
      BY <2>1, <2>2, <1>6
  <1>14. Splice'
    BY <1>1, <1>2, <1>3, <1>4, <1>5 DEF Splice
  <1> QED
    BY <1>6, <1>7, <1>8, <1>11, <1>12, <1>13, <1>14 DEF ListInv

\* The old first bus gets the new one as its predecessor.
LEMMA LinkBackKeepsList ==
    ASSUME IInv, ListInv, NEW c \in Callers, LinkBack(c)
    PROVE  ListInv' /\ Chain' = Chain
  <1> DEFINE x == bus[c]
             y == next[x]
  <1> USE Constants
  <1>1. /\ callerPc[c] = "back" /\ inLock = c /\ x \in Buses /\ hasInput[x]
        /\ callerPc' = [callerPc EXCEPT ![c] = "enable"]
        /\ UNCHANGED <<next, hasInput, bus>> /\ inLock' = Nobody
    BY DEF LinkBack, Goto, ListInv, InLockOwner, IInv, TypeOK, Phases
  <1>2. /\ \A d \in Callers \ {c} : callerPc'[d] = callerPc[d]
        /\ callerPc'[c] = "enable"
    BY <1>1 DEF IInv, TypeOK
  <1>3. /\ \A d \in Callers \ {c} : callerPc[d] # "idle" => bus[d] # x
        /\ \A d \in Callers \ {c} : callerPc[d] \notin {"unlink", "relink", "publish", "back"}
    BY <1>1, Alone
  <1>4. x \in Chain /\ y \in Chain \union {Null}
    BY <1>1, <1>3 DEF Chain, InList, LeftBy, ListInv, Forward
  <1>5. /\ y # Null => prev'[y] = x
        /\ \A b \in Buses : b # y => prev'[b] = prev[b]
    BY <1>4 DEF LinkBack, IInv, TypeOK, Chain
  <1>6. Chain' = Chain
    BY <1>1, <1>2, <1>3 DEF Chain, InList, LeftBy
  <1>7. InLockOwner'
    BY <1>1, <1>2, <1>3 DEF InLockOwner
  <1>8. DetachPhases'
    BY <1>1, <1>2 DEF ListInv, DetachPhases, Leaving, Unlinking
  <1>9. Forward' /\ Acyclic'
    BY <1>1, <1>6 DEF ListInv, Forward, Acyclic
  <1>10. Backward'
    <2> SUFFICES ASSUME NEW b \in Chain
                 PROVE  prev'[b] \in Chain \union {Head} /\ next[prev'[b]] = b
      BY <1>1, <1>6 DEF Backward
    <2>1. CASE b = y
      BY <2>1, <1>4, <1>5 DEF Chain
    <2>2. CASE b # y
      <3>1. ~Stale(b)
        BY <2>2, <1>3 DEF Stale
      <3> QED
        BY <2>2, <3>1, <1>5 DEF ListInv, Backward, Chain
    <2> QED
      BY <2>1, <2>2
  <1>11. Splice'
    BY <1>2, <1>3 DEF Splice
  <1> QED
    BY <1>6, <1>7, <1>8, <1>9, <1>10, <1>11 DEF ListInv

LEMMA StepListInv == IInv /\ ListInv /\ [Next]_vars => ListInv'
  <1> SUFFICES ASSUME IInv, ListInv, [Next]_vars PROVE ListInv'
    OBVIOUS
  <1>1. CASE Audio \/ UNCHANGED vars
    <2>1. UNCHANGED <<listVars, lockVars, callerVars>>
      BY <1>1 DEF Audio, BeginPass, FinishRead, BeginSelection, LoadNext, CheckAttached, HoldNext,
         DropCurrent, EndSelection, vars
    <2>2. InLockOwner' /\ DetachPhases'
      BY <2>1 DEF listVars, lockVars, callerVars, ListInv, InLockOwner, DetachPhases
    <2>3. Forward' /\ Acyclic' /\ Backward' /\ Splice'
      BY <2>1, QuietKeepsList DEF listVars, callerVars
    <2> QED
      BY <2>2, <2>3 DEF ListInv
  <1>2. CASE \E c \in Callers : Caller(c)
    BY <1>2, CallKeepsList, QuietWorkKeepsList, UnlinkKeepsList, RelinkKeepsList, ClearKeepsList,
       LinkOwnKeepsList, PublishKeepsList, LinkBackKeepsList DEF Caller, Working
  <1> QED
    BY <1>1, <1>2 DEF Next

LEMMA ListInvariant == Spec => [](IInv /\ ListInv)
  <1>1. Init => IInv /\ ListInv
    BY InitIInv, InitListInv
  <1>2. (IInv /\ ListInv) /\ [Next]_vars => (IInv /\ ListInv)'
    BY StepIInv, StepListInv
  <1> QED
    BY <1>1, <1>2, PTL DEF Spec

\* Whenever the input bus is unlocked, its list holds exactly the linked buses
\* and its previous pointers are the inverse of its next pointers: the two
\* spinlocks of ma_node_output_bus_attach and _detach keep the list sound,
\* whatever number of threads attach and detach.
THEOREM ListSound == Spec => []ListIntact
  <1>1. IInv /\ ListInv => ListIntact
    <2> SUFFICES ASSUME IInv, ListInv, inLock = Nobody PROVE ListIntact
      BY DEF ListIntact
    <2> USE Constants
    <2>1. \A c \in Callers : callerPc[c] \notin {"unlink", "relink", "publish", "back"}
      BY DEF ListInv, InLockOwner
    <2>2. Listed = Chain /\ \A b : ~Stale(b)
      BY <2>1 DEF Listed, Chain, InList, LeftBy, Stale
    <2>3. ASSUME NEW b \in Chain, next[b] # Null
          PROVE  prev[next[b]] = b
      <3>1. next[b] \in Chain
        BY <2>3 DEF ListInv, Forward
      <3>2. prev[next[b]] \in Chain \union {Head} /\ next[prev[next[b]]] = next[b]
        BY <2>2, <3>1 DEF ListInv, Backward
      <3> QED
        BY <3>2, <2>3 DEF ListInv, Forward
    <2> QED
      BY <2>2, <2>3 DEF ListIntact, ListInv, Forward, Backward
  <1> QED
    BY <1>1, ListInvariant, PTL

-----------------------------------------------------------------------------
(***************************************************************************)
(* The walk, with one detaching thread.                                    *)
(***************************************************************************)
\* While a thread is detaching a bus, no other thread is.
LEMMA OneAtATime ==
    ASSUME OneDetacher, ListInv, NEW c \in Callers, NEW d \in Callers,
           callerPc[c] \in Leaving \union {"mark"}, callerPc[d] \in Leaving \union {"mark"}
    PROVE  c = d
  BY DEF OneDetacher, ListInv, DetachPhases

\* The audio thread goes on from what it looks at to what is in the list.
LEMMA AudioKeepsVisit ==
    ASSUME IInv, ListInv, VisitInv, Audio
    PROVE  VisitInv'
  <1> USE Constants
  <1>1. UNCHANGED <<listVars, lockVars, callerVars>>
    BY DEF Audio, BeginPass, FinishRead, BeginSelection, LoadNext, CheckAttached, HoldNext, DropCurrent,
       EndSelection
  <1>2. \A b : (InList(b)' <=> InList(b)) /\ \A s : LeftBy(b, s)' <=> LeftBy(b, s)
    BY <1>1 DEF listVars, callerVars, InList, LeftBy
  <1>3. \A c \in Callers : callerPc'[c] = "clear" => next'[bus'[c]] \in Chain' \union {Null}
    BY <1>1, <1>2 DEF listVars, callerVars, VisitInv, Chain
  <1>4. ASSUME audioPc' \in {"load", "check"}, cand' \in Buses
        PROVE  Reachable(cand)'
    <2>1. CASE BeginPass
      BY <1>4, <2>1 DEF BeginPass, BeginSelection
    <2>2. CASE FinishRead
      <3>1. cur' = cur /\ cand' = cur /\ audioPc' = "load" /\ cur \in Buses /\ refCount[cur] > 0
        BY <2>2 DEF FinishRead, BeginSelection, IInv, Pointers, RefCountExact, One
      <3>2. attached[cur] \/ LeftBy(cur, Leaving)
        BY <3>1 DEF IInv, CountedKept
      <3>3. \/ InList(cur)
            \/ LeftBy(cur, {"relink", "clear", "wait_next"})
            \/ LeftBy(cur, {"wait_reads"})
        <4>1. CASE attached[cur]
          <5>1. hasInput[cur] /\ \A c \in Callers : bus[c] = cur => callerPc[c] \in {"idle", "mark"}
            BY <3>1, <4>1 DEF IInv, TypeOK, LockOwner, Phases, ListInv, DetachPhases
          <5> QED
            BY <5>1 DEF InList, LeftBy
        <4>2. CASE LeftBy(cur, Leaving)
          <5>1. PICK c \in Callers : bus[c] = cur /\ callerPc[c] \in Leaving
            BY <4>2 DEF LeftBy
          <5>2. CASE callerPc[c] \in {"lock", "unlink"}
            <6>1. \A d \in Callers \ {c} : callerPc[d] # "idle" => bus[d] # cur
              BY <5>1, <5>2, Alone
            <6>2. hasInput[cur]
              BY <5>1, <5>2 DEF ListInv, DetachPhases
            <6> QED
              BY <5>2, <6>1, <6>2 DEF InList, LeftBy
          <5>3. CASE callerPc[c] \in {"relink", "clear", "wait_next", "wait_reads"}
            BY <5>1, <5>3 DEF LeftBy
          <5> QED
            BY <5>1, <5>2, <5>3 DEF Leaving, Unlinking
        <4> QED
          BY <3>2, <4>1, <4>2
      <3> QED
        BY <3>1, <3>3, <1>2 DEF Reachable
    <2>3. CASE LoadNext
      <3>1. audioPc = "load" /\ cand' = next[cand] /\ cand \in Buses \union {Head} /\ cand' # Null
        BY <1>4, <2>3 DEF LoadNext, IInv, Pointers
      <3>2. CASE cand \in Chain \union {Head}
        <4>1. next[cand] \in Chain
          BY <3>1, <3>2 DEF ListInv, Forward
        <4> QED
          BY <3>1, <4>1, <1>2 DEF Reachable, Chain
      <3>3. CASE cand \notin Chain \union {Head}
        <4>1. cand \in Buses /\ Reachable(cand) /\ ~InList(cand)
          BY <3>1, <3>3 DEF VisitInv, Chain
        <4>2. PICK c \in Callers : bus[c] = cand /\ callerPc[c] \in {"relink", "clear", "wait_next", "wait_reads"}
          BY <4>1 DEF Reachable, LeftBy
        <4>3. next[cand] \in Chain
          BY <3>1, <4>2 DEF ListInv, Splice, DetachPhases, VisitInv
        <4> QED
          BY <3>1, <4>3, <1>2 DEF Reachable, Chain
      <3> QED
        BY <3>2, <3>3
    <2>4. CASE CheckAttached
      <3>1. audioPc = "check" /\ cand' = cand
        BY <2>4 DEF CheckAttached
      <3>2. InList(cand) \/ LeftBy(cand, {"relink", "clear", "wait_next"})
        BY <1>4, <3>1 DEF VisitInv, Reachable
      <3> QED
        BY <3>1, <3>2, <1>2 DEF Reachable
    <2>5. CASE HoldNext \/ DropCurrent \/ EndSelection
      BY <1>4, <2>5 DEF HoldNext, DropCurrent, EndSelection
    <2> QED
      BY <2>1, <2>2, <2>3, <2>4, <2>5 DEF Audio
  <1> QED
    BY <1>3, <1>4 DEF VisitInv

\* No step of a caller takes away what the audio thread looks at, but the first
\* wait of a detach, which ends outside a selection.
LEMMA CallerKeepsVisit ==
    ASSUME OneDetacher, IInv, ListInv, VisitInv, NEW c \in Callers, Caller(c)
    PROVE  VisitInv'
  <1> USE Constants
  <1>1. /\ UNCHANGED audioVars
        /\ \A d \in Callers \ {c} : callerPc'[d] = callerPc[d] /\ bus'[d] = bus[d]
    BY DEF Caller, Working, CallDetach, CallAttach, MarkDetached, LockForDetach, Unlink, Relink, Clear,
       AwaitSelection, AwaitReads, LinkOwn, Publish, LinkBack, MarkAttached, Goto, IInv, TypeOK
  <1>2. /\ callerPc[c] = "idle" => callerPc'[c] \in {"mark", "link"}
        /\ callerPc[c] # "idle" => bus'[c] = bus[c]
    BY DEF Caller, Working, CallDetach, CallAttach, MarkDetached, LockForDetach, Unlink, Relink, Clear,
       AwaitSelection, AwaitReads, LinkOwn, Publish, LinkBack, MarkAttached, Goto, IInv, TypeOK
  <1>3. ASSUME audioPc \in {"load", "check"}, cand \in Buses
        PROVE  Reachable(cand)'
    <2>1. UNCHANGED <<audioPc, cur, cand>> /\ Reachable(cand)
      BY <1>1, <1>3 DEF audioVars, VisitInv
    <2>2. CASE InList(cand)
      <3>1. CASE Unlink(c)
        <4>1. Chain' = Chain \ {bus[c]} /\ callerPc'[c] = "relink" /\ bus'[c] = bus[c]
          BY <3>1, UnlinkKeepsList DEF Unlink, Goto, IInv, TypeOK
        <4> QED
          BY <1>3, <2>1, <2>2, <4>1 DEF Reachable, Chain, LeftBy
      <3>2. CASE \/ Relink(c) \/ Clear(c) \/ LinkOwn(c) \/ Publish(c) \/ LinkBack(c)
        <4>1. Chain \subseteq Chain'
          BY <3>2, RelinkKeepsList, ClearKeepsList, LinkOwnKeepsList, PublishKeepsList, LinkBackKeepsList
        <4> QED
          BY <1>3, <2>1, <2>2, <4>1 DEF Reachable, Chain
      <3>3. CASE \/ MarkDetached(c) \/ LockForDetach(c) \/ AwaitSelection(c) \/ AwaitReads(c) \/ MarkAttached(c)
                 \/ \E b \in Buses : CallDetach(c, b) \/ CallAttach(c, b)
        <4>1. UNCHANGED hasInput /\ callerPc'[c] \notin {"relink", "clear", "publish"}
          BY <3>3 DEF CallDetach, CallAttach, MarkDetached, LockForDetach, AwaitSelection, AwaitReads,
             MarkAttached, Goto, listVars, IInv, TypeOK
        <4> QED
          BY <1>1, <2>1, <2>2, <4>1 DEF Reachable, InList, LeftBy
      <3> QED
        BY <3>1, <3>2, <3>3 DEF Caller, Working
    <2>3. CASE ~InList(cand)
      <3>1. PICK d \in Callers :
               /\ bus[d] = cand
               /\ \/ callerPc[d] \in {"relink", "clear", "wait_next"}
                  \/ callerPc[d] = "wait_reads" /\ cur = cand /\ audioPc = "load"
        BY <2>1, <2>3 DEF Reachable, LeftBy
      <3>2. CASE d # c
        BY <1>1, <2>1, <3>1, <3>2 DEF Reachable, LeftBy
      <3>3. CASE d = c
        <4>1. nextCounter = 1 /\ (cur = cand /\ audioPc = "load" => refCount[cand] > 0)
          BY <1>3 DEF IInv, RefCountExact, One, Selecting
        <4>2. callerPc'[c] \in {"clear", "wait_next"} /\ bus'[c] = bus[c]
          BY <3>1, <3>3, <4>1 DEF Caller, Working, CallDetach, CallAttach, MarkDetached, LockForDetach,
             Unlink, Relink, Clear, AwaitSelection, AwaitReads, LinkOwn, Publish, LinkBack, MarkAttached,
             Goto, IInv, TypeOK
        <4> QED
          BY <2>1, <3>1, <3>3, <4>2 DEF Reachable, LeftBy
      <3> QED
        BY <3>2, <3>3
    <2> QED
      BY <2>2, <2>3
  <1>4. ASSUME NEW d \in Callers, callerPc'[d] = "clear"
        PROVE  next'[bus'[d]] \in Chain' \union {Null}
    <2>1. CASE d = c
      <3>1. Relink(c)
        BY <1>4, <2>1 DEF Caller, Working, CallDetach, CallAttach, MarkDetached, LockForDetach, Unlink, Relink,
           Clear, AwaitSelection, AwaitReads, LinkOwn, Publish, LinkBack, MarkAttached, Goto, IInv, TypeOK
      <3>2. Chain' = Chain /\ callerPc[c] = "relink" /\ UNCHANGED <<next, bus>>
        BY <3>1, RelinkKeepsList DEF Relink
      <3> QED
        BY <2>1, <3>2 DEF ListInv, Splice
    <2>2. CASE d # c
      <3>1. callerPc[d] = "clear" /\ bus'[d] = bus[d] /\ bus[d] \in Buses
        BY <1>1, <1>4, <2>2 DEF IInv, TypeOK
      <3>2. next[bus[d]] \in Chain \union {Null}
        BY <3>1 DEF VisitInv
      <3>3. callerPc[c] \notin Leaving \union {"mark"}
        BY <2>2, <3>1, OneAtATime DEF Leaving, Unlinking
      <3>4. callerPc[c] # "idle" => bus[c] # bus[d]
        BY <2>2, <3>1, Alone
      <3>5. CASE LinkOwn(c)
        <4>1. next'[bus[d]] = next[bus[d]]
          BY <3>1, <3>4, <3>5 DEF LinkOwn, IInv, TypeOK
        <4> QED
          BY <3>1, <3>2, <3>5, <4>1, LinkOwnKeepsList
      <3>6. CASE Publish(c)
        <4>1. next'[bus[d]] = next[bus[d]]
          BY <3>1, <3>6 DEF Publish, IInv, TypeOK
        <4> QED
          BY <3>1, <3>2, <3>6, <4>1, PublishKeepsList
      <3>7. CASE LinkBack(c)
        BY <3>1, <3>2, <3>7, LinkBackKeepsList DEF LinkBack
      <3>8. CASE MarkAttached(c) \/ \E b \in Buses : CallDetach(c, b) \/ CallAttach(c, b)
        <4>1. UNCHANGED <<next, hasInput>> /\ callerPc[c] \in {"enable", "idle"}
              /\ callerPc'[c] \in {"idle", "mark", "link"}
          BY <3>8 DEF MarkAttached, CallDetach, CallAttach, Goto, listVars, IInv, TypeOK
        <4>2. \A b : InList(b)' <=> InList(b)
          BY <1>1, <4>1 DEF InList, LeftBy
        <4> QED
          BY <3>1, <3>2, <4>1, <4>2 DEF Chain
      <3> QED
        BY <3>3, <3>5, <3>6, <3>7, <3>8 DEF Caller, Working, MarkDetached, LockForDetach, Unlink, Relink,
           Clear, AwaitSelection, AwaitReads, Leaving, Unlinking
    <2> QED
      BY <2>1, <2>2
  <1> QED
    BY <1>1, <1>3, <1>4 DEF VisitInv, audioVars

\* With a single thread that detaches, the audio thread does not even look at
\* a bus whose detach has returned, as the comment of
\* ma_node_input_bus_detach__no_output_bus_lock promises, whatever number of
\* other threads attach buses meanwhile.
THEOREM ReleasedUnseen == ASSUME OneDetacher PROVE Spec => []ReleasedNotVisited
  <1>1. Init => VisitInv
    BY DEF Init, VisitInv
  <1>2. (IInv /\ ListInv) /\ VisitInv /\ [Next]_vars => VisitInv'
    <2> SUFFICES ASSUME IInv, ListInv, VisitInv, [Next]_vars PROVE VisitInv'
      OBVIOUS
    <2>1. CASE UNCHANGED vars
      BY <2>1 DEF vars, listVars, callerVars, audioVars, VisitInv, Reachable, Chain, InList, LeftBy
    <2> QED
      BY <2>1, AudioKeepsVisit, CallerKeepsVisit DEF Next
  <1>3. IInv /\ VisitInv => ReleasedNotVisited
    <2> SUFFICES ASSUME IInv, VisitInv, NEW b \in Buses, Released(b), Visits(b) PROVE FALSE
      BY DEF ReleasedNotVisited
    <2>1. Reachable(b) /\ ~hasInput[b] /\ outLock[b] = Nobody
      BY DEF VisitInv, Visits, Released
    <2>2. \A c \in Callers : bus[c] = b => callerPc[c] = "idle"
      BY <2>1, Constants DEF IInv, TypeOK, LockOwner
    <2> QED
      BY <2>1, <2>2 DEF Reachable, InList, LeftBy
  <1> QED
    BY <1>1, <1>2, <1>3, ListInvariant, PTL DEF Spec

=============================================================================
