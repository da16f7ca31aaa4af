------------------------------ MODULE NodeBus ------------------------------
(***************************************************************************)
(* The attachments of one input bus of miniaudio's node graph: a doubly    *)
(* linked list of output buses that callers change under spinlocks while   *)
(* the audio thread walks it without any lock.  Every atomic access of the *)
(* code the other side can see is a step; "next" pointers, the attached    *)
(* flag, the reference counts and the counter of selections in progress    *)
(* are all that the two sides share.                                       *)
(***************************************************************************)
EXTENDS Naturals, FiniteSets

CONSTANTS
    Buses,       \* output buses, one per sound
    Callers,     \* threads that attach buses
    Detachers,   \* those of them that also detach buses
    Head,        \* the dummy bus at the start of the list
    Null,        \* no bus
    Nobody       \* no caller

ASSUME DetachersAreCallers == Detachers \subseteq Callers
ASSUME HeadIsNoBus == Head \notin Buses
ASSUME NullIsNoBus == Null \notin Buses \union {Head}
ASSUME NobodyIsNoCaller == Nobody \notin Callers

VARIABLES
    next,         \* pNext of the head and of each bus
    prev,         \* pPrev of each bus
    attached,     \* isAttached
    hasInput,     \* pInputNode is set
    refCount,     \* refCount
    outLock,      \* who holds the spinlock of each output bus
    inLock,       \* who holds the spinlock of the input bus
    nextCounter,  \* nextCounter of the input bus
    callerPc,     \* where each caller is
    bus,          \* the bus each caller works on
    linking,      \* the caller attaches its bus again after detaching it
    audioPc,      \* where the audio thread is
    cur,          \* pOutputBus of the audio thread
    cand          \* pNext of the audio thread

listVars == <<next, prev, attached, hasInput>>
lockVars == <<outLock, inLock>>
countVars == <<refCount, nextCounter>>
callerVars == <<callerPc, bus, linking>>
audioVars == <<audioPc, cur, cand>>
vars == <<listVars, lockVars, countVars, callerVars, audioVars>>

\* Where a caller is while the bus it detaches may still be taken or held.
Unlinking == {"lock", "unlink", "relink", "clear", "wait_next"}
Leaving == Unlinking \union {"wait_reads"}
CallerSteps == {"idle", "mark", "link", "publish", "back", "enable"} \union Leaving

\* Where the audio thread is inside ma_node_input_bus_next.
Selecting == {"load", "check", "hold", "drop", "end"}
AudioSteps == {"idle", "read"} \union Selecting

TypeOK ==
    /\ next \in [Buses \union {Head} -> Buses \union {Null}]
    /\ prev \in [Buses -> Buses \union {Head, Null}]
    /\ attached \in [Buses -> BOOLEAN] /\ hasInput \in [Buses -> BOOLEAN]
    /\ refCount \in [Buses -> Nat] /\ nextCounter \in Nat
    /\ outLock \in [Buses -> Callers \union {Nobody}] /\ inLock \in Callers \union {Nobody}
    /\ callerPc \in [Callers -> CallerSteps] /\ bus \in [Callers -> Buses]
    /\ linking \in [Callers -> BOOLEAN]
    /\ audioPc \in AudioSteps
    /\ cur \in Buses \union {Head, Null} /\ cand \in Buses \union {Head, Null}

Init ==
    /\ next = [b \in Buses \union {Head} |-> Null]
    /\ prev = [b \in Buses |-> Null]
    /\ attached = [b \in Buses |-> FALSE] /\ hasInput = [b \in Buses |-> FALSE]
    /\ refCount = [b \in Buses |-> 0] /\ nextCounter = 0
    /\ outLock = [b \in Buses |-> Nobody] /\ inLock = Nobody
    /\ callerPc = [c \in Callers |-> "idle"]
    /\ bus \in [Callers -> Buses]
    /\ linking = [c \in Callers |-> FALSE]
    /\ audioPc = "idle" /\ cur = Null /\ cand = Null

Goto(c, pc) == callerPc' = [callerPc EXCEPT ![c] = pc]

-----------------------------------------------------------------------------
(***************************************************************************)
(* Callers.  A detach of a bus that has no input node returns at once and  *)
(* is no step.  What only the holder of a lock reads or writes moves with  *)
(* the neighbouring step.                                                  *)
(***************************************************************************)
CallDetach(c, b) ==
    /\ c \in Detachers
    /\ callerPc[c] = "idle" /\ outLock[b] = Nobody /\ hasInput[b]
    /\ outLock' = [outLock EXCEPT ![b] = c]
    /\ bus' = [bus EXCEPT ![c] = b]
    /\ linking' = [linking EXCEPT ![c] = FALSE]
    /\ Goto(c, "mark")
    /\ UNCHANGED <<listVars, inLock, countVars, audioVars>>

CallAttach(c, b) ==
    /\ hasInput[b] => c \in Detachers
    /\ callerPc[c] = "idle" /\ outLock[b] = Nobody
    /\ outLock' = [outLock EXCEPT ![b] = c]
    /\ bus' = [bus EXCEPT ![c] = b]
    /\ linking' = [linking EXCEPT ![c] = TRUE]
    /\ Goto(c, IF hasInput[b] THEN "mark" ELSE "link")
    /\ UNCHANGED <<listVars, inLock, countVars, audioVars>>

MarkDetached(c) ==
    /\ callerPc[c] = "mark"
    /\ attached' = [attached EXCEPT ![bus[c]] = FALSE]
    /\ Goto(c, "lock")
    /\ UNCHANGED <<next, prev, hasInput, lockVars, countVars, bus, linking, audioVars>>

LockForDetach(c) ==
    /\ callerPc[c] = "lock" /\ inLock = Nobody
    /\ inLock' = c
    /\ Goto(c, "unlink")
    /\ UNCHANGED <<listVars, outLock, countVars, bus, linking, audioVars>>

\* Mutant: the predecessor keeps its pointer to the bus.
UnlinkNothing(c) ==
    /\ callerPc[c] = "unlink"
    /\ Goto(c, "relink")
    /\ UNCHANGED <<listVars, lockVars, countVars, bus, linking, audioVars>>

\* Here the bus leaves the list, as the audio thread sees it.
Unlink(c) ==
    /\ callerPc[c] = "unlink"
    /\ next' = IF prev[bus[c]] = Null THEN next
               ELSE [next EXCEPT ![prev[bus[c]]] = next[bus[c]]]
    /\ Goto(c, "relink")
    /\ UNCHANGED <<prev, attached, hasInput, lockVars, countVars, bus, linking, audioVars>>

\* Mutant: only the forward pointers are maintained.
RelinkForwardOnly(c) ==
    /\ callerPc[c] = "relink"
    /\ inLock' = Nobody
    /\ Goto(c, "clear")
    /\ UNCHANGED <<listVars, outLock, countVars, bus, linking, audioVars>>

\* Mutant: at the end of the list the input bus stays locked.
RelinkUnlessLast(c) ==
    /\ callerPc[c] = "relink"
    /\ prev' = IF next[bus[c]] = Null THEN prev
               ELSE [prev EXCEPT ![next[bus[c]]] = prev[bus[c]]]
    /\ inLock' = IF next[bus[c]] = Null THEN inLock ELSE Nobody
    /\ Goto(c, "clear")
    /\ UNCHANGED <<next, attached, hasInput, outLock, countVars, bus, linking, audioVars>>

\* The following bus gets its new predecessor and the input bus is unlocked.
Relink(c) ==
    /\ callerPc[c] = "relink"
    /\ prev' = IF next[bus[c]] = Null THEN prev
               ELSE [prev EXCEPT ![next[bus[c]]] = prev[bus[c]]]
    /\ inLock' = Nobody
    /\ Goto(c, "clear")
    /\ UNCHANGED <<next, attached, hasInput, outLock, countVars, bus, linking, audioVars>>

Clear(c) ==
    /\ callerPc[c] = "clear"
    /\ next' = [next EXCEPT ![bus[c]] = Null]
    /\ prev' = [prev EXCEPT ![bus[c]] = Null]
    /\ hasInput' = [hasInput EXCEPT ![bus[c]] = FALSE]
    /\ Goto(c, "wait_next")
    /\ UNCHANGED <<attached, lockVars, countVars, bus, linking, audioVars>>

AwaitSelection(c) ==
    /\ callerPc[c] = "wait_next" /\ nextCounter = 0
    /\ Goto(c, "wait_reads")
    /\ UNCHANGED <<listVars, lockVars, countVars, bus, linking, audioVars>>

\* Mutant: the second wait is left out.
AwaitNoReads(c) ==
    /\ callerPc[c] = "wait_reads"
    /\ IF linking[c]
       THEN Goto(c, "link") /\ UNCHANGED outLock
       ELSE Goto(c, "idle") /\ outLock' = [outLock EXCEPT ![bus[c]] = Nobody]
    /\ UNCHANGED <<listVars, inLock, countVars, bus, linking, audioVars>>

\* The detach is over: it returns, or the attach that began with it goes on.
AwaitReads(c) ==
    /\ callerPc[c] = "wait_reads" /\ refCount[bus[c]] = 0
    /\ IF linking[c]
       THEN Goto(c, "link") /\ UNCHANGED outLock
       ELSE Goto(c, "idle") /\ outLock' = [outLock EXCEPT ![bus[c]] = Nobody]
    /\ UNCHANGED <<listVars, inLock, countVars, bus, linking, audioVars>>

LinkOwn(c) ==
    /\ callerPc[c] = "link" /\ inLock = Nobody
    /\ inLock' = c
    /\ hasInput' = [hasInput EXCEPT ![bus[c]] = TRUE]
    /\ prev' = [prev EXCEPT ![bus[c]] = Head]
    /\ next' = [next EXCEPT ![bus[c]] = next[Head]]
    /\ Goto(c, "publish")
    /\ UNCHANGED <<attached, outLock, countVars, bus, linking, audioVars>>

\* Here the bus enters the list, as the audio thread sees it.
Publish(c) ==
    /\ callerPc[c] = "publish"
    /\ next' = [next EXCEPT ![Head] = bus[c]]
    /\ Goto(c, "back")
    /\ UNCHANGED <<prev, attached, hasInput, lockVars, countVars, bus, linking, audioVars>>

LinkBack(c) ==
    /\ callerPc[c] = "back"
    /\ prev' = IF next[bus[c]] = Null THEN prev
               ELSE [prev EXCEPT ![next[bus[c]]] = bus[c]]
    /\ inLock' = Nobody
    /\ Goto(c, "enable")
    /\ UNCHANGED <<next, attached, hasInput, outLock, countVars, bus, linking, audioVars>>

MarkAttached(c) ==
    /\ callerPc[c] = "enable"
    /\ attached' = [attached EXCEPT ![bus[c]] = TRUE]
    /\ outLock' = [outLock EXCEPT ![bus[c]] = Nobody]
    /\ Goto(c, "idle")
    /\ UNCHANGED <<next, prev, hasInput, inLock, countVars, bus, linking, audioVars>>

-----------------------------------------------------------------------------
(***************************************************************************)
(* The audio thread: ma_node_input_bus_first begins a pass at the head,    *)
(* ma_node_input_bus_next selects the bus to read after the current one.   *)
(* The count of the head goes below zero in the code and is never read.    *)
(***************************************************************************)
BeginSelection(from) ==
    /\ nextCounter' = nextCounter + 1
    /\ cur' = from /\ cand' = from
    /\ audioPc' = "load"
    /\ UNCHANGED <<listVars, lockVars, refCount, callerVars>>

BeginPass == audioPc = "idle" /\ BeginSelection(Head)

\* The frames of the current bus have been read.
FinishRead == audioPc = "read" /\ BeginSelection(cur)

LoadNext ==
    /\ audioPc = "load"
    /\ cand' = next[cand]
    /\ audioPc' = IF cand' = Null THEN "drop" ELSE "check"
    /\ UNCHANGED <<listVars, lockVars, countVars, callerVars, cur>>

CheckAttached ==
    /\ audioPc = "check"
    /\ audioPc' = IF attached[cand] THEN "hold" ELSE "load"
    /\ UNCHANGED <<listVars, lockVars, countVars, callerVars, cur, cand>>

HoldNext ==
    /\ audioPc = "hold"
    /\ refCount' = [refCount EXCEPT ![cand] = @ + 1]
    /\ audioPc' = "drop"
    /\ UNCHANGED <<listVars, lockVars, nextCounter, callerVars, cur, cand>>

\* Mutant: the end of the list returns before the last bus is dropped.
DropUnlessLast ==
    /\ audioPc = "drop"
    /\ refCount' = IF cur = Head \/ cand = Null THEN refCount
                   ELSE [refCount EXCEPT ![cur] = @ - 1]
    /\ audioPc' = "end"
    /\ UNCHANGED <<listVars, lockVars, nextCounter, callerVars, cur, cand>>

DropCurrent ==
    /\ audioPc = "drop"
    /\ refCount' = IF cur = Head THEN refCount ELSE [refCount EXCEPT ![cur] = @ - 1]
    /\ audioPc' = "end"
    /\ UNCHANGED <<listVars, lockVars, nextCounter, callerVars, cur, cand>>

EndSelection ==
    /\ audioPc = "end"
    /\ nextCounter' = nextCounter - 1
    /\ cur' = cand
    /\ audioPc' = IF cand = Null THEN "idle" ELSE "read"
    /\ UNCHANGED <<listVars, lockVars, refCount, callerVars, cand>>

Audio ==
    \/ BeginPass \/ FinishRead \/ LoadNext \/ CheckAttached
    \/ HoldNext \/ DropCurrent \/ EndSelection

Working(c) ==
    \/ MarkDetached(c) \/ LockForDetach(c) \/ Unlink(c) \/ Relink(c) \/ Clear(c)
    \/ AwaitSelection(c) \/ AwaitReads(c)
    \/ LinkOwn(c) \/ Publish(c) \/ LinkBack(c) \/ MarkAttached(c)

Caller(c) ==
    \/ \E b \in Buses : CallDetach(c, b) \/ CallAttach(c, b)
    \/ Working(c)

Next == Audio \/ \E c \in Callers : Caller(c)

Spec == Init /\ [][Next]_vars

\* The audio thread keeps running.  A caller in a call keeps running; its
\* spinlock and its wait for a moment outside a selection are tests that are
\* repeated until they succeed, while others come and go.
FairSpec ==
    /\ Spec
    /\ WF_vars(Audio)
    /\ \A c \in Callers : WF_vars(Working(c)) /\ SF_vars(LinkOwn(c))
    /\ \A c \in Detachers : SF_vars(LockForDetach(c)) /\ SF_vars(AwaitSelection(c))

-----------------------------------------------------------------------------
\* A detach of the bus has returned, or it was never attached: the caller may
\* free the node the bus is in.
Released(b) == ~hasInput[b] /\ outLock[b] = Nobody

\* The audio thread has chosen or is reading the bus.
Uses(b) == \/ cur = b /\ audioPc \in {"read", "load", "check", "hold", "drop"}
           \/ cand = b /\ audioPc \in {"hold", "drop", "end"}

\* The audio thread follows the pointer of the bus or tests its flag.
Visits(b) == cand = b /\ audioPc \in {"load", "check"}

\* When a detach has returned, the audio thread neither reads the bus nor is
\* about to: the two waits at the end of
\* ma_node_input_bus_detach__no_output_bus_lock are enough, whatever number of
\* threads attach and detach.
ReleasedNotHeld == \A b \in Buses : Released(b) => ~Uses(b)

\* When a detach has returned, the audio thread does not even look at the bus:
\* "we can be guaranteed that the audio thread is not going to attempt to
\* reference this output bus again".  It needs a single detaching thread.
ReleasedNotVisited == \A b \in Buses : Released(b) => ~Visits(b)

\* The buses an unlocked list holds.
Listed == {b \in Buses : /\ hasInput[b]
                         /\ \A c \in Callers : bus[c] = b => callerPc[c] # "clear"}

\* Whenever the input bus is unlocked its list is sound: it has exactly the
\* linked buses, and previous pointers are the inverse of next pointers.
ListIntact ==
    inLock = Nobody =>
        /\ next[Head] \in Listed \union {Null}
        /\ \A b \in Listed :
              /\ prev[b] \in Listed \union {Head} /\ next[prev[b]] = b
              /\ next[b] \in Listed \union {Null}
              /\ next[b] # Null => prev[next[b]] = b

\* The reference count of a bus says how often the audio thread uses it, so it
\* never wraps and the second wait of a detach ends at the right moment.
One(p) == IF p THEN 1 ELSE 0
RefCountExact ==
    /\ nextCounter = One(audioPc \in Selecting)
    /\ \A b \in Buses :
          refCount[b] = One(cur = b /\ audioPc \in {"read", "load", "check", "hold", "drop"})
                        + One(cand = b /\ audioPc \in {"drop", "end"})

\* Every attach and detach returns, although a detach waits for the audio
\* thread, which never waits for anybody.
DetachReturns == \A c \in Callers : callerPc[c] # "idle" ~> callerPc[c] = "idle"

\* The gate the list implements.
gate == [b \in Buses |->
            IF attached[b] THEN "in"
            ELSE IF \E c \in Callers : bus[c] = b /\ callerPc[c] \in Leaving THEN "leaving"
            ELSE "out"]
held == {b \in Buses : refCount[b] > 0}
Gate == INSTANCE BusGate

\* The list under its locks and the walk without locks implement the gate of
\* BusGate: no bus is taken that is out, and none goes out while it is held.
ImplementsGate == Gate!Spec

=============================================================================
