------------------------ MODULE SoundStreamDataProofs ------------------------
(***************************************************************************)
(* The frames that are copied are those at the cursor, for any file, pages *)
(* and seek targets, as long as no loop is set.  While no seek is to come  *)
(* the two pages hold what follows the cursor and the decoder is behind    *)
(* them; until then the last seek is the one to the cursor, and once its   *)
(* job is taken it fills both pages from there.                            *)
(***************************************************************************)
EXTENDS SoundStreamProofs

Here == stream.data[stream.page]
There == stream.data[1 - stream.page]

\* No seek is to come on an open stream: it is read, and refilled page by page.
Steady == stream.result = "success" /\ SeeksLeft = {}

\* The pages hold what follows the cursor, and the decoder is behind them.
InLine ==
    /\ Run(Here, stream.cursor - stream.rel)
    /\ Run(There, stream.cursor - stream.rel + Len(Here))
    /\ stream.decoder = stream.cursor - stream.rel + Len(Here) + Len(There)

\* A page that is not valid is empty, or about to be, and has a job.
Emptied(p) == stream.data[p] = <<>> \/ (Wpc = "validate" /\ filling = p)
Wanted(p) == \E i \in DOMAIN Pending : PageJob(i) /\ Pending[i].arg = p

\* The present page is filled before the other one.
HereFirst ==
    /\ stream.rel = 0 /\ There = <<>>
    /\ \A i, j \in DOMAIN Pending :
          PageJob(i) /\ PageJob(j) /\ Pending[i].arg = stream.page /\ Pending[j].arg # stream.page => i < j

SteadyInv ==
    Steady =>
        /\ InLine
        /\ \A p \in Pages : ~stream.valid[p] => Emptied(p) /\ Wanted(p)
        /\ ~stream.valid[stream.page] => HereFirst

\* Until both pages have been filled anew they are read from the beginning of
\* the first one, and the last seek is the one to the cursor.
AnewInv ==
    /\ stream.result = "busy" \/ (stream.result = "success" /\ SeeksLeft # {}) => stream.rel = 0 /\ stream.page = 0
    /\ stream.result = "busy" => stream.cursor = 0 /\ (Wpc \in {"idle", "advance"} => stream.decoder = 0)
    /\ stream.result = "success" =>
          \A i \in SeeksLeft : (\A k \in SeeksLeft : k <= i) => Pending[i].arg = stream.cursor

\* The job in hand is the load, or the last seek, and fills both pages.
Refilling ==
    /\ stream.result \in {"busy", "success"} /\ SeeksLeft \subseteq {1}
    /\ Wpc \in {"decode", "validate", "sought", "succeed"} /\ job.kind # "page"

FirstDone == ~(Wpc = "decode" /\ filling = 0)
BothDone == Wpc \in {"sought", "succeed"} \/ (Wpc = "validate" /\ filling = 1)

RefillInv ==
    Refilling =>
        /\ ~FirstDone => stream.decoder = stream.cursor
        /\ FirstDone => Run(stream.data[0], stream.cursor)
        /\ FirstDone /\ ~BothDone => stream.decoder = stream.cursor + Len(stream.data[0])
        /\ BothDone => /\ Run(stream.data[1], stream.cursor + Len(stream.data[0]))
                       /\ stream.decoder = stream.cursor + Len(stream.data[0]) + Len(stream.data[1])
        /\ Wpc \in {"sought", "succeed"} \/ filling = 1 => stream.valid[0]
        /\ Wpc \in {"sought", "succeed"} => stream.valid[1]

DataInv == SteadyInv /\ AnewInv /\ RefillInv

-----------------------------------------------------------------------------
(***************************************************************************)
(* Steps that say nothing of the frames.                                   *)
(***************************************************************************)
LEMMA LineSame ==
    ASSUME Pending' = Pending, FirstOver' = FirstOver
    PROVE  SeeksLeft' = SeeksLeft /\ \A i : PageJob(i)' = PageJob(i)
  <1>1. \A i : Kind(i)' = Kind(i) /\ Over(i)' = Over(i)
    BY DEF Kind, Over, FirstOver
  <1> QED
    BY <1>1 DEF SeeksLeft, PageJob

\* The jobs, the pages and the job thread are as they were.
LEMMA DataQuiet ==
    ASSUME DataInv, Pending' = Pending, Wpc' = Wpc, UNCHANGED <<hand, stream, filling, stray>>
    PROVE  DataInv'
  <1>1. SeeksLeft' = SeeksLeft /\ \A i : PageJob(i)' = PageJob(i)
    BY LineSame DEF FirstOver
  <1>2. job' = job
    BY DEF job
  <1>3. SteadyInv'
    <2>1. Steady' = Steady /\ InLine' = InLine
      BY <1>1 DEF Steady, InLine, Here, There
    <2>2. \A p : Emptied(p)' = Emptied(p) /\ Wanted(p)' = Wanted(p)
      BY <1>1 DEF Emptied, Wanted
    <2>3. HereFirst' = HereFirst
      BY <1>1 DEF HereFirst, There
    <2> QED
      BY <2>1, <2>2, <2>3 DEF DataInv, SteadyInv
  <1>4. AnewInv'
    BY <1>1 DEF DataInv, AnewInv
  <1>5. RefillInv'
    <2>1. Refilling' = Refilling /\ FirstDone' = FirstDone /\ BothDone' = BothDone
      BY <1>1, <1>2 DEF Refilling, FirstDone, BothDone
    <2> QED
      BY <2>1 DEF DataInv, RefillInv
  <1> QED
    BY <1>3, <1>4, <1>5 DEF DataInv

\* The stream is not open, nor about to be.
LEMMA DataNone ==
    ASSUME stream'.result \notin {"busy", "success"}
    PROVE  DataInv'
  <1>1. SteadyInv'
    BY DEF SteadyInv, Steady
  <1>2. AnewInv'
    BY DEF AnewInv
  <1>3. RefillInv'
    BY DEF RefillInv, Refilling
  <1> QED
    BY <1>1, <1>2, <1>3 DEF DataInv

LEMMA DataInit == Init => DataInv
  <1> SUFFICES ASSUME Init PROVE DataInv
    OBVIOUS
  <1>1. stream.result = "none"
    BY DEF Init, NoStream, FreshStream
  <1> QED
    BY <1>1 DEF DataInv, SteadyInv, AnewInv, RefillInv, Steady, Refilling

\* The caller does something that leaves the stream alone, or gives it back.
LEMMA CallerQuietData ==
    ASSUME IInv, DataInv, CallerQuiet
    PROVE  DataInv'
  <1>1. UNCHANGED <<queue, hand, stream, outbox, filling, stray>>
    BY DEF CallerQuiet, Unload, FinishDetach, Play, Restart, Go, Pause, Stop, Rewind, Seek, SetLoop, Start, SeekStream, OnFrame,
           jobVars, readVars, gateVars
  <1>2. Wpc' = Wpc
    <2>1. pc' = pc \/ \E where \in AllSteps : Goto("caller", where)
      BY DEF CallerQuiet, Unload, FinishDetach, Play, Restart, Go, Pause, Stop, Rewind, Seek, SetLoop, Start, SeekStream, OnFrame,
             AllSteps, CallerSet, CallerSteps
    <2> QED
      BY <2>1, GotoStep DEF IInv, Threads, Wpc
  <1>3. Pending' = Pending
    BY <1>1 DEF Pending, InHand, Posting, job
  <1> QED
    BY <1>1, <1>2, <1>3, DataQuiet

LEMMA AudioQuietData ==
    ASSUME IInv, DataInv, AudioQuiet
    PROVE  DataInv'
  <1>1. UNCHANGED <<queue, hand, stream, outbox, filling, stray>>
    BY DEF AudioQuiet, BeginPass, CheckState, CheckEnd, StopAtEnd, LoadTarget, ClearTarget, BeginRead, Map, CheckDecoder, MarkEnd,
           ReadMore, HaveEnough, EndPass, SeekToTarget, EndOfRange, SeekStream, OnFrame, jobVars, readVars, gateVars
  <1>2. Wpc' = Wpc
    <2>1. \E where \in AllSteps : Goto("audio", where)
      BY DEF AudioQuiet, BeginPass, CheckState, CheckEnd, StopAtEnd, LoadTarget, ClearTarget, BeginRead, Map, CheckDecoder, MarkEnd,
             ReadMore, HaveEnough, EndPass, SeekToTarget, EndOfRange, SeekStream, OnFrame, AllSteps, AudioSet, Reading
    <2> QED
      BY <2>1, GotoStep DEF IInv, Threads, Wpc
  <1>3. Pending' = Pending
    BY <1>1 DEF Pending, InHand, Posting, job
  <1> QED
    BY <1>1, <1>2, <1>3, DataQuiet

LEMMA PostData ==
    ASSUME IInv, DataInv, PostStep
    PROVE  DataInv'
  <1>1. UNCHANGED <<hand, stream, filling, stray>>
    BY DEF PostStep, Post, Fifo!Put, readVars, gateVars
  <1>2. Wpc' = Wpc
    <2>1. PICK t \in Threads \ {"worker"}, where \in AllSteps : Goto(t, where)
      BY DEF PostStep, Post, Threads, AllSteps, CallerSet, CallerSteps, AudioSet, Reading
    <2>2. \A u \in Threads \ {t} : pc'[u] = pc[u]
      BY <2>1, GotoStep DEF IInv
    <2> QED
      BY <2>2 DEF Threads, Wpc
  <1>3. Pending' = Pending
    BY PostKeeps
  <1> QED
    BY <1>1, <1>2, <1>3, DataQuiet

LEMMA FinishLoadData ==
    ASSUME IInv, DataInv, FinishLoad
    PROVE  DataInv'
  <1>1. /\ UNCHANGED <<queue, hand, outbox, filling>> /\ Goto("caller", "idle")
        /\ stream.result = "success" => UNCHANGED <<stream, stray>>
        /\ stream.result # "success" => stream' = NoStream
    BY DEF FinishLoad, Gate!Attach, jobVars, readVars, gateVars
  <1>2. Wpc' = Wpc
    <2>1. "caller" \in Threads /\ "idle" \in AllSteps
      BY DEF Threads, AllSteps, CallerSet, CallerSteps
    <2> QED
      BY <1>1, <2>1, GotoStep DEF IInv, Threads, Wpc
  <1>3. CASE stream.result = "success"
    <2>1. UNCHANGED <<stream, stray>>
      BY <1>1, <1>3
    <2>2. Pending' = Pending
      BY <1>1, <2>1 DEF Pending, InHand, Posting, job
    <2> QED
      BY <1>1, <1>2, <2>1, <2>2, DataQuiet
  <1>4. CASE stream.result # "success"
    BY <1>1, <1>4, DataNone, NoStreamType
  <1> QED
    BY <1>3, <1>4

\* A stream is given back, or will be.
LEMMA ClosedData ==
    ASSUME IInv, FinishUnload \/ CloseStream
    PROVE  DataInv'
  <1>1. CASE FinishUnload
    BY <1>1, DataNone, NoStreamType DEF FinishUnload
  <1>2. CASE CloseStream
    <2>1. stream'.result = "unavailable"
      BY <1>2 DEF CloseStream, Ordered, IInv, Shape, TypeOK, StreamSet
    <2> QED
      BY <2>1, DataNone
  <1> QED
    BY <1>1, <1>2

\* A new stream has no job yet.
LEMMA LoadData ==
    ASSUME IInv, Load
    PROVE  DataInv'
  <1> USE Numbers
  <1>1. /\ stream.result = "none" /\ stream' = Ordered(FreshStream) /\ Goto("caller", "post_load")
        /\ UNCHANGED <<queue, hand, stray, filling>>
    BY DEF Load, jobVars
  <1>2. stream'.result = "busy" /\ stream'.rel = 0 /\ stream'.page = 0 /\ stream'.cursor = 0 /\ stream'.decoder = 0
    BY <1>1 DEF Ordered, FreshStream
  <1>3. Wpc' = Wpc
    <2>1. "caller" \in Threads /\ "post_load" \in AllSteps
      BY DEF Threads, AllSteps, CallerSet, CallerSteps
    <2> QED
      BY <1>1, <2>1, GotoStep DEF IInv, Threads, Wpc
  <1>4. Wpc \notin {"decode", "validate", "sought", "succeed"}
    BY <1>1, FillFacts DEF Closed
  <1>5. SteadyInv'
    BY <1>2 DEF SteadyInv, Steady
  <1>6. AnewInv'
    BY <1>2 DEF AnewInv
  <1>7. RefillInv'
    BY <1>3, <1>4 DEF RefillInv, Refilling
  <1> QED
    BY <1>5, <1>6, <1>7 DEF DataInv

-----------------------------------------------------------------------------
(***************************************************************************)
(* The stream is sought, and read.                                         *)
(***************************************************************************)
LEMMA SeekStepData ==
    ASSUME IInv, DataInv, SeekStep
    PROVE  DataInv'
  <1>1. Sought /\ UNCHANGED <<hand, stray>>
    BY SeekStepKeeps
  <1>2. PICK n \in Nat : n = Len(Pending)
    BY <1>1 DEF Sought
  <1>3. /\ DOMAIN Pending' = 1 .. n + 1 /\ SeeksLeft' = SeeksLeft \union {n + 1} /\ Pending'[n + 1].arg = stream'.cursor
        /\ stream'.result = "success" /\ stream'.rel = 0 /\ stream'.page = 0 /\ Wpc' = Wpc
    BY <1>1, <1>2 DEF Sought
  <1>4. SteadyInv'
    BY <1>3 DEF SteadyInv, Steady
  <1>5. AnewInv'
    <2>1. \A i \in SeeksLeft' : i \in 1 .. n + 1
      BY <1>3 DEF SeeksLeft
    <2>2. \A i \in SeeksLeft' : (\A k \in SeeksLeft' : k <= i) => i = n + 1
      <3> SUFFICES ASSUME NEW i \in SeeksLeft', \A k \in SeeksLeft' : k <= i PROVE i = n + 1
        OBVIOUS
      <3>1. n + 1 <= i /\ i \in 1 .. n + 1
        BY <1>3, <2>1
      <3> QED
        BY <1>2, <3>1
    <2>3. \A i \in SeeksLeft' : (\A k \in SeeksLeft' : k <= i) => Pending'[i].arg = stream'.cursor
      BY <1>3, <2>2
    <2> QED
      BY <1>3, <2>3 DEF AnewInv
  <1>6. RefillInv'
    <2>1. Refilling' => n = 0
      <3>1. Refilling' => n + 1 \in {1}
        BY <1>3 DEF Refilling
      <3> QED
        BY <1>2, <3>1
    <2>2. n = 0 => Wpc \notin {"decode", "validate", "sought", "succeed"}
      <3>1. Wpc \in {"decode", "validate", "sought", "succeed"} => Pending # <<>>
        BY FillFacts
      <3>2. Pending \in Seq(JobSet)
        BY JobTypes DEF IInv
      <3>3. Pending # <<>> => n # 0
        BY <1>2, <3>2
      <3> QED
        BY <3>1, <3>3
    <2> QED
      BY <1>3, <2>1, <2>2 DEF RefillInv, Refilling
  <1> QED
    BY <1>4, <1>5, <1>6 DEF DataInv

\* What is copied lies in the file, so that the cursor does not wrap.
LEMMA CursorStays ==
    ASSUME IInv, DataInv, Apc = "copy"
    PROVE  /\ Steady /\ InLine /\ stream.valid[stream.page]
           /\ mapped \in Nat /\ stream.rel \in Nat /\ stream.cursor \in Nat
           /\ Len(Here) \in Nat /\ Len(Here) <= PageSize /\ stream.rel + mapped <= Len(Here)
           /\ Wrap(stream.cursor + mapped) = stream.cursor + mapped
  <1>1. stream.result = "success"
    BY Apart DEF IInv
  <1>2. SeeksLeft = {} /\ stream.valid[stream.page] /\ mapped > 0 /\ stream.rel + mapped <= Len(Here)
    BY DEF IInv, CopyInv, Here
  <1>3. Steady /\ InLine
    BY <1>1, <1>2 DEF Steady, DataInv, SteadyInv
  <1>4. /\ stream \in StreamSet /\ mapped \in 0 .. PageSize /\ PageSize \in Nat /\ Total \in Nat
        /\ \A p \in Pages : Len(stream.data[p]) <= PageSize
    BY Numbers DEF IInv, Shape, TypeOK
  <1>5. Here \in Seq(Frames) /\ stream.page \in Pages /\ stream.rel \in Nat /\ stream.cursor \in Nat
    BY <1>4 DEF StreamSet, Here
  <1>6. Len(Here) \in Nat /\ Len(Here) <= PageSize
    BY <1>4, <1>5 DEF Here
  <1>7. stream.cursor + mapped <= Total
    <2> DEFINE m == stream.rel + mapped
    <2>1. m \in 1 .. Len(Here)
      BY <1>2, <1>4, <1>5, <1>6
    <2>2. Here[m] \in Frames /\ Here[m] = stream.cursor - stream.rel + m - 1
      BY <1>3, <1>5, <2>1 DEF InLine, Run
    <2>3. Here[m] \in 0 .. Total - 1
      BY <2>2 DEF Frames
    <2>4. /\ mapped \in Int /\ stream.rel \in Int /\ stream.cursor \in Int /\ Total \in Int
          /\ Here[m] = stream.cursor - stream.rel + (stream.rel + mapped) - 1
      BY <1>4, <1>5, <2>2
    <2>5. Here[m] = stream.cursor + mapped - 1
      <3> HIDE DEF m
      <3> QED
        BY <2>4
    <2> QED
      <3> HIDE DEF m
      <3> QED
        BY <2>3, <2>4, <2>5
  <1>8. Wrap(stream.cursor + mapped) = stream.cursor + mapped
    BY <1>4, <1>5, <1>7 DEF Wrap
  <1> QED
    BY <1>2, <1>3, <1>4, <1>5, <1>6, <1>8

\* While no seek is to come on an open stream, only a page job fills.
LEMMA PageJobFills ==
    ASSUME IInv, Steady, Wpc \in {"decode", "validate", "sought", "succeed"}
    PROVE  job.kind = "page"
  <1>1. /\ job.kind = Kind(1) /\ Kind(1) \in {"load", "page", "seek"}
        /\ Kind(1) = "load" => stream.result = "busy"
        /\ Kind(1) = "seek" => 1 \in SeeksLeft
    BY FillFacts
  <1> QED
    BY <1>1 DEF Steady

LEMMA UnmapData ==
    ASSUME IInv, DataInv, Unmap
    PROVE  DataInv'
  <1>1. IInv' /\ (Moved \/ Turned) /\ Apc = "copy" /\ UNCHANGED <<hand, filling, stray>>
    BY UnmapKeeps DEF Unmap, Apc, jobVars
  <1>2. /\ Steady /\ InLine /\ stream.valid[stream.page]
        /\ mapped \in Nat /\ stream.rel \in Nat /\ stream.cursor \in Nat
        /\ Len(Here) \in Nat /\ Len(Here) <= PageSize /\ stream.rel + mapped <= Len(Here)
        /\ Wrap(stream.cursor + mapped) = stream.cursor + mapped
    BY <1>1, CursorStays
  <1>3. stream \in StreamSet /\ stream.page \in Pages /\ PageSize \in Nat
    BY Numbers DEF IInv, Shape, TypeOK, StreamSet
  <1>4. Wpc' = Wpc => RefillInv'
    <2>1. job' = job
      BY <1>1 DEF job
    <2> QED
      BY <1>2, <2>1, PageJobFills DEF RefillInv, Refilling
  <1>5. CASE Moved
    <2>1. /\ stream'.cursor = stream.cursor + mapped /\ stream'.rel = stream.rel + mapped
          /\ stream'.result = stream.result /\ stream'.page = stream.page /\ stream'.decoder = stream.decoder
          /\ stream'.valid = stream.valid /\ stream'.data = stream.data
          /\ Pending' = Pending /\ Wpc' = Wpc
      BY <1>2, <1>5 DEF Moved
    <2>2. SeeksLeft' = SeeksLeft /\ \A i : PageJob(i)' = PageJob(i)
      BY <1>1, <2>1, LineSame DEF FirstOver
    <2>3. Steady'
      BY <1>2, <2>1, <2>2 DEF Steady
    <2>4. InLine'
      <3>1. Here' = Here /\ There' = There /\ stream'.cursor - stream'.rel = stream.cursor - stream.rel
        BY <1>2, <2>1 DEF Here, There
      <3> QED
        BY <1>2, <2>1, <3>1 DEF InLine
    <2>5. \A p \in Pages : ~stream'.valid[p] => Emptied(p)' /\ Wanted(p)'
      <3>1. \A p : Emptied(p)' = Emptied(p) /\ Wanted(p)' = Wanted(p)
        BY <1>1, <2>1, <2>2 DEF Emptied, Wanted
      <3>2. \A p \in Pages : ~stream.valid[p] => Emptied(p) /\ Wanted(p)
        BY <1>2 DEF DataInv, SteadyInv
      <3> QED
        BY <2>1, <3>1, <3>2
    <2>6. SteadyInv'
      BY <1>2, <2>1, <2>4, <2>5 DEF SteadyInv
    <2>7. AnewInv'
      BY <2>3 DEF AnewInv, Steady
    <2> QED
      BY <1>4, <2>1, <2>6, <2>7 DEF DataInv
  <1>6. CASE Turned
    <2>1. /\ stream.rel + mapped = PageSize
          /\ stream'.cursor = stream.cursor + mapped /\ stream'.rel = 0
          /\ stream'.result = stream.result /\ stream'.page = 1 - stream.page /\ stream'.decoder = stream.decoder
          /\ stream'.valid = [stream.valid EXCEPT ![stream.page] = FALSE]
          /\ stream'.data = [stream.data EXCEPT ![stream.page] = <<>>]
          /\ SeeksLeft' = SeeksLeft /\ Wpc' = Wpc
      BY <1>2, <1>6 DEF Turned
    <2>2. PICK n \in Nat :
             /\ DOMAIN Pending = 1 .. n /\ DOMAIN Pending' = 1 .. n + 1
             /\ \A i \in 1 .. n : Pending'[i] = Pending[i] /\ PageJob(i)' = PageJob(i)
             /\ Pending'[n + 1].arg = stream.page /\ PageJob(n + 1)'
      <3>1. PICK n \in Nat : n = Len(Pending)
        BY <1>6 DEF Turned
      <3> QED
        BY <1>6, <3>1 DEF Turned
    <2>3. Steady'
      BY <1>2, <2>1 DEF Steady
    <2>4. /\ stream'.page \in Pages /\ stream'.page # stream.page /\ 1 - stream'.page = stream.page
          /\ stream'.data[stream'.page] = There /\ stream'.data[1 - stream'.page] = <<>>
          /\ stream'.valid[stream.page] = FALSE /\ stream'.valid[stream'.page] = stream.valid[stream'.page]
      <3>1. stream.page \in {0, 1} /\ stream.data \in [Pages -> Seq(Frames)] /\ stream.valid \in [Pages -> BOOLEAN]
        BY <1>3 DEF StreamSet, Pages
      <3>2. stream'.page \in Pages /\ stream'.page # stream.page /\ 1 - stream'.page = stream.page
        BY <2>1, <3>1 DEF Pages
      <3> QED
        BY <1>3, <2>1, <3>1, <3>2 DEF There
    <2>5. InLine'
      <3>1. Len(Here) = PageSize
        BY <1>2, <1>3, <2>1
      <3>2. stream'.cursor - stream'.rel = stream.cursor - stream.rel + Len(Here)
        BY <1>2, <1>3, <2>1, <3>1
      <3>3. Here' = There /\ There' = <<>>
        BY <2>4 DEF Here, There
      <3>4. Run(There, stream.cursor - stream.rel + Len(Here)) /\ stream.decoder = stream.cursor - stream.rel + Len(Here) + Len(There)
        BY <1>2 DEF InLine
      <3>5. Run(Here', stream'.cursor - stream'.rel)
        BY <3>2, <3>3, <3>4
      <3>6. Run(There', stream'.cursor - stream'.rel + Len(Here'))
        BY <3>3 DEF Run
      <3>7. There \in Seq(Frames)
        BY <1>3, <2>1, <2>4 DEF There, StreamSet
      <3>8. stream'.decoder = stream'.cursor - stream'.rel + Len(Here') + Len(There')
        <4>1. Len(<<>>) = 0 /\ Len(There) \in Nat
          BY <3>7
        <4>2. stream'.cursor - stream'.rel \in Int
          BY <1>2, <1>3, <2>1
        <4> HIDE DEF There, Here
        <4>3. Len(There') = 0 /\ Len(Here') = Len(There)
          BY <3>3, <4>1
        <4> QED
          BY <2>1, <3>2, <3>4, <4>1, <4>2, <4>3
      <3> QED
        BY <3>5, <3>6, <3>8 DEF InLine
    <2>6. ASSUME NEW p \in Pages, ~stream'.valid[p] PROVE Emptied(p)' /\ Wanted(p)'
      <3>1. CASE p = stream.page
        <4>1. stream'.data[p] = <<>>
          BY <2>4, <3>1
        <4>2. Wanted(p)'
          <5>1. n + 1 \in DOMAIN Pending' /\ PageJob(n + 1)' /\ Pending'[n + 1].arg = p
            BY <2>2, <3>1
          <5> QED
            BY <5>1 DEF Wanted
        <4> QED
          BY <4>1, <4>2 DEF Emptied
      <3>2. CASE p # stream.page
        <4>1. p = stream'.page
          BY <1>3, <2>4, <3>2 DEF Pages
        <4>2. Emptied(p) /\ Wanted(p)
          BY <1>2, <2>4, <2>6, <4>1 DEF DataInv, SteadyInv
        <4>3. stream'.data[p] = stream.data[p]
          BY <1>3, <2>1, <3>2 DEF StreamSet
        <4>4. Wanted(p)'
          <5>1. PICK i \in 1 .. n : PageJob(i) /\ Pending[i].arg = p
            BY <2>2, <4>2 DEF Wanted
          <5>2. i \in DOMAIN Pending' /\ PageJob(i)' /\ Pending'[i].arg = p
            BY <2>2, <5>1
          <5> QED
            BY <5>2 DEF Wanted
        <4> QED
          BY <1>1, <2>1, <4>2, <4>3, <4>4 DEF Emptied
      <3> QED
        BY <3>1, <3>2
    <2>7. HereFirst'
      <3>1. \A i \in 1 .. n : PageJob(i) => Pending[i].arg # stream.page
        BY <1>2, <2>2 DEF IInv, PagesInv, Steady
      <3>2. ASSUME NEW i \in 1 .. n + 1, NEW j \in 1 .. n + 1, PageJob(i)', PageJob(j)',
                   Pending'[i].arg = stream'.page, Pending'[j].arg # stream'.page
            PROVE  i < j
        <4>1. i # n + 1
          BY <2>2, <2>4, <3>2
        <4>2. Pending'[j].arg = stream.page
          <5>1. Pending'[j].arg \in Pages
            BY <1>1, <2>2, <3>2 DEF IInv, JobsInv, PageJob
          <5> QED
            BY <1>3, <2>4, <3>2, <5>1 DEF Pages
        <4>3. ~(j \in 1 .. n)
          BY <2>2, <3>1, <3>2, <4>2
        <4> QED
          BY <2>2, <4>1, <4>3
      <3>3. There' = <<>>
        BY <2>4 DEF There
      <3> QED
        BY <2>1, <2>2, <3>2, <3>3 DEF HereFirst
    <2>8. SteadyInv'
      BY <2>5, <2>6, <2>7 DEF SteadyInv
    <2>9. AnewInv'
      BY <2>3 DEF AnewInv, Steady
    <2> QED
      BY <1>4, <2>1, <2>8, <2>9 DEF DataInv
  <1> QED
    BY <1>1, <1>5, <1>6

-----------------------------------------------------------------------------
(***************************************************************************)
(* The job thread takes a job.                                             *)
(***************************************************************************)
\* A load fills from the beginning, a seek from its frame, which is the cursor
\* if no other seek is to come; a page job goes on behind the decoder.
LEMMA BeginData ==
    ASSUME IInv, DataInv, BeginStep
    PROVE  DataInv'
  <1>1. PICK kind \in {"load", "page", "seek", "free"} :
           /\ Turn(kind)
           /\ kind = "load" => BeginLoad
           /\ kind = "page" => BeginPage
           /\ kind = "seek" => BeginSeek
           /\ kind = "free" => BeginFree
    BY DEF BeginStep, BeginLoad, BeginPage, BeginSeek, BeginFree
  <1>2. /\ InTurn /\ Pending # <<>> /\ Pending[1] = Head(queue) /\ Kind(1) = kind /\ Head(queue) \in JobSet
        /\ 1 \in DOMAIN Pending /\ queue \in Seq(JobSet) /\ queue # <<>>
        /\ Wpc = "idle" /\ job = NoJob /\ stray = FALSE /\ ~Closed
    BY <1>1, TurnFacts
  <1>3. Fifo!Get("worker") /\ UNCHANGED <<outbox, stray>>
    BY <1>1, <1>2 DEF BeginLoad, BeginPage, BeginSeek, BeginFree
  <1>4. Pending' = Pending /\ job' = Pending[1] /\ job'.kind = kind
    BY <1>1, <1>2, <1>3, GetFacts DEF Kind
  <1>5. stream \in StreamSet
    BY DEF IInv, Shape, TypeOK
  <1>6. CASE stream.result \notin {"busy", "success"}
    <2>1. stream'.result = stream.result
      BY <1>1, <1>2, <1>5 DEF BeginLoad, BeginPage, BeginSeek, BeginFree, StreamSet
    <2> QED
      BY <1>6, <2>1, DataNone
  <1>7. CASE stream.result = "busy"
    <2>1. kind = "load"
      <3>1. Loading
        BY <1>7, ResultSays
      <3> QED
        BY <1>2, <3>1 DEF IInv, JobsInv
    <2>2. stream' = stream /\ filling' = 0 /\ \E next \in {"decode", "fail"} : Goto("worker", next)
      BY <1>1, <1>2, <2>1 DEF BeginLoad
    <2>3. Wpc' \in {"decode", "fail"}
      BY <2>2, WorkerGoes DEF WorkerSet, Processing
    <2>4. stream.cursor = 0 /\ stream.decoder = 0 /\ stream.rel = 0 /\ stream.page = 0
      BY <1>2, <1>7 DEF DataInv, AnewInv
    <2>5. SteadyInv'
      BY <1>7, <2>2 DEF SteadyInv, Steady
    <2>6. AnewInv'
      BY <1>7, <2>2, <2>3, <2>4 DEF AnewInv
    <2>7. RefillInv'
      <3>1. CASE Wpc' = "fail"
        BY <3>1 DEF RefillInv, Refilling
      <3>2. CASE Wpc' = "decode"
        <4>1. ~FirstDone' /\ ~BothDone' /\ stream'.decoder = stream'.cursor
          BY <2>2, <2>4, <3>2 DEF FirstDone, BothDone
        <4> QED
          BY <2>2, <3>2, <4>1 DEF RefillInv
      <3> QED
        BY <2>3, <3>1, <3>2
    <2> QED
      BY <2>5, <2>6, <2>7 DEF DataInv
  <1>8. CASE stream.result = "success"
    <2>1. kind \in {"page", "seek"}
      <3>1. kind # "load"
        BY <1>2, <1>8, ResultSays DEF IInv, JobsInv, FirstOver, Over
      <3>2. kind # "free"
        BY <1>2, <1>8 DEF IInv, JobsInv
      <3> QED
        BY <3>1, <3>2
    <2>2. Goto("worker", "decode")
      BY <1>1, <1>2, <1>8, <2>1 DEF BeginPage, BeginSeek
    <2>3. Wpc' = "decode"
      BY <2>2, WorkerGoes DEF WorkerSet, Processing
    <2>4. SeeksLeft' = SeeksLeft /\ \A i : PageJob(i)' = PageJob(i)
      BY <1>2, <1>4, <2>3, LineSame DEF FirstOver
    <2>5. CASE kind = "page"
      <3>1. stream' = stream
        BY <1>1, <1>2, <1>8, <2>5 DEF BeginPage
      <3>2. SteadyInv'
        <4>1. Steady' = Steady /\ InLine' = InLine
          BY <2>4, <3>1 DEF Steady, InLine, Here, There
        <4>2. \A p : (Emptied(p) => Emptied(p)') /\ Wanted(p)' = Wanted(p)
          BY <1>2, <1>4, <2>4, <3>1 DEF Emptied, Wanted
        <4>3. HereFirst' = HereFirst
          BY <1>4, <2>4, <3>1 DEF HereFirst, There
        <4> QED
          BY <3>1, <4>1, <4>2, <4>3 DEF DataInv, SteadyInv
      <3>3. AnewInv'
        BY <1>4, <1>8, <2>4, <3>1 DEF DataInv, AnewInv
      <3>4. RefillInv'
        BY <1>4, <2>5 DEF RefillInv, Refilling
      <3> QED
        BY <3>2, <3>3, <3>4 DEF DataInv
    <2>6. CASE kind = "seek"
      <3>1. stream' = [stream EXCEPT !.decoder = Head(queue).arg] /\ filling' = 0
        BY <1>1, <1>2, <1>8, <2>6 DEF BeginSeek
      <3>2. /\ stream'.result = "success" /\ stream'.rel = stream.rel /\ stream'.page = stream.page
            /\ stream'.cursor = stream.cursor /\ stream'.decoder = Pending[1].arg
        BY <1>2, <1>5, <1>8, <3>1 DEF StreamSet
      <3>3. 1 \in SeeksLeft
        BY <1>2, <2>6 DEF SeeksLeft, Over
      <3>4. SteadyInv'
        BY <2>4, <3>3 DEF SteadyInv, Steady
      <3>5. AnewInv'
        BY <1>4, <1>8, <2>4, <3>2, <3>3 DEF DataInv, AnewInv
      <3>6. RefillInv'
        <4>1. SeeksLeft \subseteq {1} => Pending[1].arg = stream.cursor
          <5>1. SeeksLeft \subseteq {1} => \A k \in SeeksLeft : k <= 1
            OBVIOUS
          <5> QED
            BY <1>8, <3>3, <5>1 DEF DataInv, AnewInv
        <4>2. Refilling' => stream'.decoder = stream'.cursor
          BY <2>4, <3>2, <4>1 DEF Refilling
        <4> QED
          BY <2>3, <3>1, <4>2 DEF RefillInv, FirstDone, BothDone
      <3> QED
        BY <3>4, <3>5, <3>6 DEF DataInv
    <2> QED
      BY <2>1, <2>5, <2>6
  <1> QED
    BY <1>6, <1>7, <1>8

-----------------------------------------------------------------------------
(***************************************************************************)
(* The job thread fills pages.                                             *)
(***************************************************************************)
\* Without loops a page takes the frames from the decoder on.
LEMMA DecodeFrames ==
    ASSUME IInv, Decode, Loops = {}
    PROVE  \E d \in Seq(Frames) :
              /\ Run(d, stream.decoder)
              /\ stream'.data = [stream.data EXCEPT ![filling] = d]
              /\ stream'.decoder = stream.decoder + Len(d)
              /\ stream'.result = stream.result /\ stream'.valid = stream.valid /\ stream'.cursor = stream.cursor
              /\ stream'.rel = stream.rel /\ stream'.page = stream.page
  <1>1. stream' = [stream EXCEPT
                      !.data[filling] = Decoded,
                      !.decoder = IF Decoded = <<>> THEN @ ELSE Last(Decoded) + 1,
                      !.decoderAtEnd = @ \/ Len(Decoded) < PageSize]
    BY DEF Decode
  <1>2. stream \in StreamSet /\ filling \in Pages /\ TypeOK
    BY DEF IInv, Shape, TypeOK
  <1>3. sound.loop = NoLoop
    BY <1>2 DEF TypeOK, SoundSet
  <1> DEFINE d == Decoded
             u == IF d = <<>> THEN stream.decoder ELSE Last(d) + 1
             e == stream.decoderAtEnd \/ Len(d) < PageSize
  <1>4. d \in Seq(Frames) /\ Run(d, stream.decoder) /\ u = stream.decoder + Len(d)
    BY <1>2, <1>3, DecodedType
  <1>5. stream' = [stream EXCEPT !.data[filling] = d, !.decoder = u, !.decoderAtEnd = e]
    BY <1>1, <1>2 DEF StreamSet
  <1> HIDE DEF d, u, e
  <1>6. stream' = [stream EXCEPT !.data = [stream.data EXCEPT ![filling] = d], !.decoder = u, !.decoderAtEnd = e]
    BY <1>2, <1>5 DEF StreamSet
  <1>7. /\ stream'.data = [stream.data EXCEPT ![filling] = d] /\ stream'.decoder = u
        /\ stream'.result = stream.result /\ stream'.valid = stream.valid /\ stream'.cursor = stream.cursor
        /\ stream'.rel = stream.rel /\ stream'.page = stream.page
    BY <1>2, <1>6 DEF StreamSet
  <1> QED
    BY <1>4, <1>7

\* The page of a page job is the page the decoder is before.
LEMMA NextToFill ==
    ASSUME IInv, DataInv, Steady, Wpc \in {"decode", "validate"}
    PROVE  /\ PageJob(1) /\ Pending[1].arg = filling /\ ~stream.valid[filling]
           /\ filling # stream.page => stream.valid[stream.page]
           /\ 1 \in DOMAIN Pending /\ DOMAIN Pending \subseteq Nat \ {0}
  <1>1. /\ 1 \in DOMAIN Pending /\ filling = Pending[1].arg /\ PageJob(1)
    BY PageJobFills, FillFacts
  <1>2. ~stream.valid[filling]
    BY <1>1 DEF Steady, IInv, PagesInv
  <1>3. DOMAIN Pending \subseteq Nat \ {0}
    <2>1. Pending \in Seq(JobSet)
      BY JobTypes DEF IInv
    <2> QED
      BY <2>1
  <1>4. filling # stream.page => stream.valid[stream.page]
    <2> SUFFICES ASSUME filling # stream.page, ~stream.valid[stream.page] PROVE FALSE
      OBVIOUS
    <2>1. stream.page \in Pages
      BY DEF IInv, Shape, TypeOK, StreamSet
    <2>2. Wanted(stream.page) /\ HereFirst
      BY <2>1 DEF DataInv, SteadyInv
    <2>3. PICK i \in DOMAIN Pending : PageJob(i) /\ Pending[i].arg = stream.page
      BY <2>2 DEF Wanted
    <2>4. i < 1
      BY <1>1, <2>2, <2>3 DEF HereFirst
    <2> QED
      BY <1>3, <2>3, <2>4
  <1> QED
    BY <1>1, <1>2, <1>3, <1>4

LEMMA DecodeData ==
    ASSUME IInv, DataInv, Decode, Loops = {}
    PROVE  DataInv'
  <1>1. /\ Wpc = "decode" /\ Goto("worker", "validate") /\ UNCHANGED <<queue, hand, outbox, filling, stray>>
    BY DEF Decode, Wpc, jobVars
  <1>2. Wpc' = "validate" /\ job' = job /\ Pending' = Pending
    <2>1. Wpc' = "validate"
      BY <1>1, WorkerGoes DEF WorkerSet, Processing
    <2> QED
      BY <1>1, <2>1 DEF Pending, InHand, Posting, job
  <1>3. SeeksLeft' = SeeksLeft /\ \A i : PageJob(i)' = PageJob(i)
    BY <1>1, <1>2, LineSame DEF FirstOver
  <1>4. PICK d \in Seq(Frames) :
           /\ Run(d, stream.decoder)
           /\ stream'.data = [stream.data EXCEPT ![filling] = d]
           /\ stream'.decoder = stream.decoder + Len(d)
           /\ stream'.result = stream.result /\ stream'.valid = stream.valid /\ stream'.cursor = stream.cursor
           /\ stream'.rel = stream.rel /\ stream'.page = stream.page
    BY DecodeFrames
  <1>5. /\ stream.data \in [Pages -> Seq(Frames)] /\ filling \in Pages /\ stream.page \in Pages /\ 1 - stream.page \in Pages
        /\ stream.cursor \in Nat /\ stream.rel \in Nat /\ stream.decoder \in Nat /\ Len(d) \in Nat
    BY <1>4 DEF IInv, Shape, TypeOK, StreamSet, Pages
  <1>6. stream'.data[filling] = d /\ \A p \in Pages : p # filling => stream'.data[p] = stream.data[p]
    BY <1>4, <1>5
  <1>7. SteadyInv'
    <2> SUFFICES ASSUME Steady'
                 PROVE  /\ InLine'
                        /\ \A p \in Pages : ~stream'.valid[p] => Emptied(p)' /\ Wanted(p)'
                        /\ ~stream'.valid[stream'.page] => HereFirst'
      BY DEF SteadyInv
    <2>1. Steady
      BY <1>3, <1>4 DEF Steady
    <2>2. /\ InLine
          /\ \A p \in Pages : ~stream.valid[p] => Emptied(p) /\ Wanted(p)
          /\ ~stream.valid[stream.page] => HereFirst
      BY <2>1 DEF DataInv, SteadyInv
    <2>3. ~stream.valid[filling] /\ (filling # stream.page => stream.valid[stream.page])
      BY <1>1, <2>1, NextToFill
    <2>4. stream.data[filling] = <<>>
      BY <1>1, <1>5, <2>2, <2>3 DEF Emptied
    <2>5. /\ Run(Here, stream.cursor - stream.rel)
          /\ Run(There, stream.cursor - stream.rel + Len(Here))
          /\ stream.decoder = stream.cursor - stream.rel + Len(Here) + Len(There)
      BY <2>2 DEF InLine
    <2>6. CASE filling = stream.page
      <3>1. There = <<>> /\ Here = <<>> /\ stream.rel = 0
        BY <2>2, <2>3, <2>4, <2>6 DEF HereFirst, Here
      <3>2. Here' = d /\ There' = <<>>
        <4>1. 1 - stream.page # filling
          BY <1>5, <2>6 DEF Pages
        <4>2. stream'.data[1 - stream.page] = stream.data[1 - stream.page]
          BY <1>5, <1>6, <4>1
        <4> QED
          BY <1>4, <1>6, <2>6, <3>1, <4>2 DEF Here, There
      <3>3. stream.decoder = stream.cursor - stream.rel
        <4>1. Len(Here) = 0 /\ Len(There) = 0
          BY <3>1
        <4> HIDE DEF Here, There
        <4> QED
          BY <1>5, <2>5, <4>1
      <3>4. InLine'
        <4>1. Run(Here', stream'.cursor - stream'.rel)
          BY <1>4, <3>2, <3>3
        <4>2. Run(There', stream'.cursor - stream'.rel + Len(Here'))
          BY <3>2 DEF Run
        <4>3. stream'.decoder = stream'.cursor - stream'.rel + Len(Here') + Len(There')
          <5>1. Len(Here') = Len(d) /\ Len(There') = 0
            BY <3>2
          <5> QED
            BY <1>4, <1>5, <3>3, <5>1
        <4> QED
          BY <4>1, <4>2, <4>3 DEF InLine
      <3>5. HereFirst'
        BY <1>2, <1>3, <1>4, <2>2, <2>3, <2>6, <3>1, <3>2 DEF HereFirst
      <3>6. ASSUME NEW p \in Pages, ~stream'.valid[p] PROVE Emptied(p)' /\ Wanted(p)'
        <4>1. Emptied(p) /\ Wanted(p)
          BY <1>4, <2>2, <3>6
        <4>2. Emptied(p)'
          BY <1>1, <1>2, <1>6, <4>1 DEF Emptied
        <4>3. Wanted(p)'
          BY <1>2, <1>3, <4>1 DEF Wanted
        <4> QED
          BY <4>2, <4>3
      <3> QED
        BY <3>4, <3>5, <3>6
    <2>7. CASE filling # stream.page
      <3>1. filling = 1 - stream.page /\ stream.valid[stream.page] /\ There = <<>>
        BY <1>5, <2>3, <2>4, <2>7 DEF Pages, There
      <3>2. Here' = Here /\ There' = d
        BY <1>4, <1>5, <1>6, <2>7, <3>1 DEF Here, There
      <3>3. stream.decoder = stream.cursor - stream.rel + Len(Here) /\ Len(Here) \in Nat
        <4>1. Len(There) = 0 /\ Len(Here) \in Nat
          <5>1. Here \in Seq(Frames)
            BY <1>5 DEF Here
          <5> QED
            BY <3>1, <5>1
        <4> HIDE DEF Here, There
        <4> QED
          BY <1>5, <2>5, <4>1
      <3>4. InLine'
        <4>1. Run(Here', stream'.cursor - stream'.rel)
          BY <1>4, <2>5, <3>2
        <4>2. Run(There', stream'.cursor - stream'.rel + Len(Here'))
          BY <1>4, <3>2, <3>3
        <4>3. stream'.decoder = stream'.cursor - stream'.rel + Len(Here') + Len(There')
          <5>1. Len(Here') = Len(Here) /\ Len(There') = Len(d)
            BY <3>2
          <5> HIDE DEF Here, There
          <5> QED
            BY <1>4, <1>5, <3>3, <5>1
        <4> QED
          BY <4>1, <4>2, <4>3 DEF InLine
      <3>5. ASSUME NEW p \in Pages, ~stream'.valid[p] PROVE Emptied(p)' /\ Wanted(p)'
        <4>1. Emptied(p) /\ Wanted(p)
          BY <1>4, <2>2, <3>5
        <4>2. Emptied(p)'
          BY <1>1, <1>2, <1>6, <4>1 DEF Emptied
        <4>3. Wanted(p)'
          BY <1>2, <1>3, <4>1 DEF Wanted
        <4> QED
          BY <4>2, <4>3
      <3> QED
        BY <1>4, <3>1, <3>4, <3>5
    <2> QED
      BY <2>6, <2>7
  <1>8. AnewInv'
    BY <1>2, <1>3, <1>4 DEF DataInv, AnewInv
  <1>9. RefillInv'
    <2> SUFFICES ASSUME Refilling'
                 PROVE  /\ Run(stream'.data[0], stream'.cursor)
                        /\ filling = 0 => stream'.decoder = stream'.cursor + Len(stream'.data[0])
                        /\ filling = 1 => /\ Run(stream'.data[1], stream'.cursor + Len(stream'.data[0]))
                                          /\ stream'.decoder = stream'.cursor + Len(stream'.data[0]) + Len(stream'.data[1])
                                          /\ stream'.valid[0]
      BY <1>1, <1>2, <1>5 DEF RefillInv, FirstDone, BothDone, Pages
    <2>1. Refilling
      BY <1>1, <1>2, <1>3, <1>4 DEF Refilling
    <2>2. CASE filling = 0
      <3>1. stream.decoder = stream.cursor
        BY <1>1, <2>1, <2>2 DEF DataInv, RefillInv, FirstDone
      <3> QED
        BY <1>4, <1>6, <2>2, <3>1
    <2>3. CASE filling = 1
      <3>1. Run(stream.data[0], stream.cursor) /\ stream.decoder = stream.cursor + Len(stream.data[0]) /\ stream.valid[0]
        BY <1>1, <2>1, <2>3 DEF DataInv, RefillInv, FirstDone, BothDone
      <3>2. stream'.data[0] = stream.data[0] /\ stream'.data[1] = d
        BY <1>6, <2>3 DEF Pages
      <3> QED
        BY <1>4, <2>3, <3>1, <3>2
    <2> QED
      BY <1>5, <2>2, <2>3 DEF Pages
  <1> QED
    BY <1>7, <1>8, <1>9 DEF DataInv

LEMMA ValidateData ==
    ASSUME IInv, DataInv, Validate
    PROVE  DataInv'
  <1>1. /\ Wpc = "validate" /\ stream' = [stream EXCEPT !.valid[filling] = TRUE]
        /\ UNCHANGED <<queue, hand, outbox, stray>>
    BY DEF Validate, Wpc, jobVars
  <1>2. job' = job /\ Pending' = Pending
    BY <1>1 DEF Pending, InHand, Posting, job
  <1>3. stream \in StreamSet /\ filling \in Pages
    BY DEF IInv, Shape, TypeOK
  <1>4. /\ stream'.valid = [stream.valid EXCEPT ![filling] = TRUE]
        /\ stream'.result = stream.result /\ stream'.data = stream.data /\ stream'.cursor = stream.cursor
        /\ stream'.rel = stream.rel /\ stream'.page = stream.page /\ stream'.decoder = stream.decoder
    BY <1>1, <1>3 DEF StreamSet
  <1>5. stream'.valid[filling] = TRUE /\ \A p \in Pages : p # filling => stream'.valid[p] = stream.valid[p]
    BY <1>3, <1>4 DEF StreamSet
  <1>6. /\ stray = FALSE /\ Pending # <<>> /\ Pending[1] = job /\ 1 \in DOMAIN Pending
        /\ job.kind = Kind(1) /\ ~FirstOver
        /\ Kind(1) = "load" => stream.result = "busy"
        /\ Kind(1) = "seek" => 1 \in SeeksLeft
        /\ Kind(1) = "page" => filling = Pending[1].arg /\ PageJob(1)
        /\ Kind(1) \in {"load", "page", "seek"}
    BY <1>1, FillFacts
  <1>7. CASE job.kind = "page"
    <2>1. Goto("worker", "advance")
      BY <1>7 DEF Validate
    <2>2. Wpc' = "advance"
      BY <2>1, WorkerGoes DEF WorkerSet, Processing
    <2>3. SeeksLeft' = SeeksLeft \ {1} /\ \A i : PageJob(i)' <=> PageJob(i) /\ i # 1
      <3>1. FirstOver'
        BY <1>1, <1>6, <2>2 DEF FirstOver
      <3> QED
        BY <1>2, <1>6, <3>1, JobsOver
    <2>4. SeeksLeft' = SeeksLeft
      BY <1>6, <1>7, <2>3 DEF SeeksLeft
    <2>5. filling = Pending[1].arg
      BY <1>6, <1>7
    <2>6. SteadyInv'
      <3> SUFFICES ASSUME Steady'
                   PROVE  /\ InLine'
                          /\ \A p \in Pages : ~stream'.valid[p] => Emptied(p)' /\ Wanted(p)'
                          /\ ~stream'.valid[stream'.page] => HereFirst'
        BY DEF SteadyInv
      <3>1. Steady /\ InLine' = InLine
        BY <1>4, <2>4 DEF Steady, InLine, Here, There
      <3>2. /\ InLine
            /\ \A p \in Pages : ~stream.valid[p] => Emptied(p) /\ Wanted(p)
            /\ ~stream.valid[stream.page] => HereFirst
        BY <3>1 DEF DataInv, SteadyInv
      <3>3. ASSUME NEW p \in Pages, ~stream'.valid[p] PROVE Emptied(p)' /\ Wanted(p)'
        <4>1. p # filling /\ Emptied(p) /\ Wanted(p)
          BY <1>5, <3>2, <3>3
        <4>2. Emptied(p)'
          BY <1>4, <4>1 DEF Emptied
        <4>3. PICK i \in DOMAIN Pending : PageJob(i) /\ Pending[i].arg = p
          BY <4>1 DEF Wanted
        <4>4. i # 1
          BY <2>5, <4>1, <4>3
        <4>5. PageJob(i)'
          BY <2>3, <4>3, <4>4
        <4>6. Wanted(p)'
          BY <1>2, <4>3, <4>5 DEF Wanted
        <4> QED
          BY <4>2, <4>6
      <3>4. ASSUME ~stream'.valid[stream'.page] PROVE HereFirst'
        <4>1. HereFirst
          <5>1. stream.page \in Pages
            BY <1>3 DEF StreamSet
          <5> QED
            BY <1>4, <1>5, <3>2, <3>4, <5>1
        <4> QED
          BY <1>2, <1>4, <2>3, <4>1 DEF HereFirst, There
      <3> QED
        BY <3>1, <3>2, <3>3, <3>4
    <2>7. AnewInv'
      <3>1. stream.result # "busy"
        BY <1>6, <1>7, ResultSays DEF IInv, JobsInv
      <3> QED
        BY <1>2, <1>4, <2>4, <3>1 DEF DataInv, AnewInv
    <2>8. RefillInv'
      BY <2>2 DEF RefillInv, Refilling
    <2> QED
      BY <2>6, <2>7, <2>8 DEF DataInv
  <1>8. CASE job.kind # "page"
    <2>1. filling = 0 => filling' = 1 /\ Goto("worker", "decode")
      BY <1>8 DEF Validate
    <2>2. filling # 0 => filling' = 0 /\ \E where \in {"succeed", "sought"} : Goto("worker", where)
      BY <1>6, <1>8 DEF Validate
    <2>3. /\ filling = 0 => Wpc' = "decode"
          /\ filling # 0 => Wpc' \in {"succeed", "sought"}
      BY <2>1, <2>2, WorkerGoes DEF WorkerSet, Processing
    <2>4. ~FirstOver'
      BY <2>3 DEF FirstOver
    <2>5. SeeksLeft' = SeeksLeft
      BY <1>2, <1>6, <2>4, LineSame DEF FirstOver
    <2>6. SteadyInv'
      BY <1>4, <1>6, <1>8, <2>5 DEF SteadyInv, Steady
    <2>7. AnewInv'
      BY <1>2, <1>4, <2>3, <2>5 DEF DataInv, AnewInv
    <2>8. ASSUME Refilling' PROVE Refilling
      BY <1>1, <1>2, <1>4, <2>5, <2>8 DEF Refilling
    <2>9. CASE filling = 0
      <3>1. Wpc' = "decode" /\ filling' = 1 /\ stream'.valid[0]
        BY <1>5, <2>1, <2>3, <2>9
      <3>2. Refilling => Run(stream.data[0], stream.cursor) /\ stream.decoder = stream.cursor + Len(stream.data[0])
        BY <1>1, <2>9 DEF DataInv, RefillInv, FirstDone, BothDone
      <3>3. RefillInv'
        BY <1>4, <2>8, <3>1, <3>2 DEF RefillInv, FirstDone, BothDone
      <3> QED
        BY <2>6, <2>7, <3>3 DEF DataInv
    <2>10. CASE filling # 0
      <3>1. filling = 1
        BY <1>3, <2>10 DEF Pages
      <3>2. Wpc' \in {"succeed", "sought"} /\ stream'.valid[1] /\ stream'.valid[0] = stream.valid[0]
        BY <1>5, <2>3, <3>1 DEF Pages
      <3>3. Refilling => /\ Run(stream.data[0], stream.cursor) /\ stream.valid[0]
                         /\ Run(stream.data[1], stream.cursor + Len(stream.data[0]))
                         /\ stream.decoder = stream.cursor + Len(stream.data[0]) + Len(stream.data[1])
        BY <1>1, <3>1 DEF DataInv, RefillInv, FirstDone, BothDone
      <3>4. RefillInv'
        BY <1>4, <2>8, <3>2, <3>3 DEF RefillInv, FirstDone, BothDone
      <3> QED
        BY <2>6, <2>7, <3>4 DEF DataInv
    <2> QED
      BY <2>9, <2>10
  <1> QED
    BY <1>7, <1>8

\* Two pages that were filled from the cursor on are in line with it.
LEMMA RefilledInLine ==
    ASSUME IInv, DataInv, Refilling, Wpc \in {"sought", "succeed"}, stream.rel = 0, stream.page = 0
    PROVE  InLine /\ \A p \in Pages : stream.valid[p]
  <1>1. /\ Run(stream.data[0], stream.cursor) /\ Run(stream.data[1], stream.cursor + Len(stream.data[0]))
        /\ stream.decoder = stream.cursor + Len(stream.data[0]) + Len(stream.data[1])
        /\ stream.valid[0] /\ stream.valid[1]
    BY DEF DataInv, RefillInv, FirstDone, BothDone
  <1>2. Here = stream.data[0] /\ There = stream.data[1] /\ stream.cursor - stream.rel = stream.cursor
    <2>1. stream.cursor \in Nat /\ 1 - stream.page = 1
      BY DEF IInv, Shape, TypeOK, StreamSet
    <2> QED
      BY <2>1 DEF Here, There
  <1>3. InLine
    BY <1>1, <1>2 DEF InLine
  <1> QED
    BY <1>1, <1>3 DEF Pages

LEMMA EndSeekData ==
    ASSUME IInv, DataInv, EndSeek
    PROVE  DataInv'
  <1>1. /\ Wpc = "sought" /\ stream' = [stream EXCEPT !.seeks = @ - 1] /\ Goto("worker", "advance")
        /\ UNCHANGED <<queue, hand, outbox, filling, stray>>
    BY DEF EndSeek, Wpc, jobVars
  <1>2. Wpc' = "advance" /\ job' = job /\ Pending' = Pending
    <2>1. Wpc' = "advance"
      BY <1>1, WorkerGoes DEF WorkerSet, Processing
    <2> QED
      BY <1>1, <2>1 DEF Pending, InHand, Posting, job
  <1>3. stream \in StreamSet
    BY DEF IInv, Shape, TypeOK
  <1>4. /\ stream'.valid = stream.valid
        /\ stream'.result = stream.result /\ stream'.data = stream.data /\ stream'.cursor = stream.cursor
        /\ stream'.rel = stream.rel /\ stream'.page = stream.page /\ stream'.decoder = stream.decoder
    BY <1>1, <1>3 DEF StreamSet
  <1>5. stray = FALSE /\ Pending # <<>> /\ ~FirstOver /\ job.kind = "seek" /\ 1 \in SeeksLeft /\ 1 \in DOMAIN Pending
    <2>1. job.kind = "seek"
      BY <1>1 DEF IInv, WorkerInv
    <2> QED
      BY <1>1, <2>1, FillFacts
  <1>6. SeeksLeft' = SeeksLeft \ {1}
    <2>1. FirstOver'
      BY <1>1, <1>2, <1>5 DEF FirstOver
    <2> QED
      BY <1>2, <1>5, <2>1, JobsOver
  <1>7. CASE stream.result # "success"
    <2>1. stream.result # "busy"
      BY <1>1, <1>5, ResultSays, FillFacts DEF IInv, JobsInv
    <2> QED
      BY <1>4, <1>7, <2>1, DataNone
  <1>8. CASE stream.result = "success"
    <2>1. stream.rel = 0 /\ stream.page = 0
      BY <1>5, <1>8 DEF DataInv, AnewInv
    <2>2. SteadyInv'
      <3> SUFFICES ASSUME Steady' PROVE InLine' /\ \A p \in Pages : stream'.valid[p]
        <4>1. stream'.page \in Pages
          BY <1>3, <1>4 DEF StreamSet
        <4> QED
          BY <4>1 DEF SteadyInv
      <3>1. SeeksLeft \subseteq {1}
        BY <1>6 DEF Steady
      <3>2. Refilling
        BY <1>1, <1>5, <1>8, <3>1 DEF Refilling
      <3>3. InLine /\ \A p \in Pages : stream.valid[p]
        BY <1>1, <2>1, <3>2, RefilledInLine
      <3> QED
        BY <1>4, <3>3 DEF InLine, Here, There
    <2>3. AnewInv'
      <3>1. ASSUME NEW i \in SeeksLeft', \A k \in SeeksLeft' : k <= i PROVE Pending[i].arg = stream.cursor
        <4>1. i \in SeeksLeft /\ i \in Nat /\ i >= 1
          <5>1. Pending \in Seq(JobSet)
            BY JobTypes DEF IInv
          <5>2. i \in SeeksLeft /\ i \in DOMAIN Pending
            BY <1>6, <3>1 DEF SeeksLeft
          <5> QED
            BY <5>1, <5>2
        <4>2. \A k \in SeeksLeft : k <= i
          <5> SUFFICES ASSUME NEW k \in SeeksLeft PROVE k <= i
            OBVIOUS
          <5>1. k = 1 \/ k \in SeeksLeft'
            BY <1>6
          <5> QED
            BY <3>1, <4>1, <5>1
        <4> QED
          BY <1>8, <4>1, <4>2 DEF DataInv, AnewInv
      <3> QED
        BY <1>2, <1>4, <1>8, <2>1, <3>1 DEF AnewInv
    <2>4. RefillInv'
      BY <1>2 DEF RefillInv, Refilling
    <2> QED
      BY <2>2, <2>3, <2>4 DEF DataInv
  <1> QED
    BY <1>7, <1>8

LEMMA EndLoadData ==
    ASSUME IInv, DataInv, EndLoad
    PROVE  DataInv'
  <1>1. /\ Wpc \in {"succeed", "fail"} /\ Goto("worker", "advance")
        /\ stream' = [stream EXCEPT !.result = IF Wpc = "succeed" THEN "success" ELSE "failed"]
        /\ UNCHANGED <<queue, hand, outbox, filling, stray>>
    BY DEF EndLoad, Wpc, jobVars
  <1>2. Wpc' = "advance" /\ Pending' = Pending
    <2>1. Wpc' = "advance"
      BY <1>1, WorkerGoes DEF WorkerSet, Processing
    <2> QED
      BY <1>1, <2>1 DEF Pending, InHand, Posting, job
  <1>3. stream \in StreamSet
    BY DEF IInv, Shape, TypeOK
  <1>4. /\ stream'.valid = stream.valid
        /\ stream'.data = stream.data /\ stream'.cursor = stream.cursor
        /\ stream'.rel = stream.rel /\ stream'.page = stream.page /\ stream'.decoder = stream.decoder
        /\ stream'.result = IF Wpc = "succeed" THEN "success" ELSE "failed"
    BY <1>1, <1>3 DEF StreamSet
  <1>5. /\ job.kind = "load" /\ Kind(1) = "load" /\ ~FirstOver /\ stray = FALSE /\ Pending # <<>>
        /\ Len(Pending) = 1 /\ stream.result = "busy"
    <2>1. job.kind = "load"
      BY <1>1 DEF IInv, WorkerInv
    <2> QED
      BY <1>1, <2>1, FillFacts
  <1>6. SeeksLeft = {} /\ SeeksLeft' = {}
    <2>1. SeeksLeft = {}
      <3>1. DOMAIN Pending = 1 .. 1
        BY <1>5, JobTypes DEF IInv
      <3> QED
        BY <1>5, <3>1 DEF SeeksLeft
    <2>2. FirstOver'
      BY <1>1, <1>2, <1>5 DEF FirstOver
    <2> QED
      BY <1>2, <1>5, <2>1, <2>2, JobsOver
  <1>7. CASE Wpc = "fail"
    BY <1>4, <1>7, DataNone
  <1>8. CASE Wpc = "succeed"
    <2>1. stream.rel = 0 /\ stream.page = 0
      BY <1>5 DEF DataInv, AnewInv
    <2>2. Refilling
      BY <1>5, <1>6, <1>8 DEF Refilling
    <2>3. InLine /\ \A p \in Pages : stream.valid[p]
      BY <1>8, <2>1, <2>2, RefilledInLine
    <2>4. SteadyInv'
      <3>1. InLine' /\ \A p \in Pages : stream'.valid[p]
        BY <1>4, <2>3 DEF InLine, Here, There
      <3>2. stream'.page \in Pages
        BY <1>3, <1>4 DEF StreamSet
      <3> QED
        BY <3>1, <3>2 DEF SteadyInv
    <2>5. AnewInv'
      BY <1>4, <1>6, <1>8 DEF AnewInv
    <2>6. RefillInv'
      BY <1>2 DEF RefillInv, Refilling
    <2> QED
      BY <2>4, <2>5, <2>6 DEF DataInv
  <1> QED
    BY <1>1, <1>7, <1>8

-----------------------------------------------------------------------------
(***************************************************************************)
(* A job is over.                                                          *)
(***************************************************************************)
LEMMA FreeData ==
    ASSUME IInv, Free
    PROVE  DataInv'
  <1>1. stream' = stream /\ Wpc = "free"
    BY DEF Free, Wpc
  <1>2. stream.result = "unavailable"
    <2>1. ~stray /\ job.kind = "free"
      BY <1>1 DEF IInv, WorkerInv
    <2>2. Pending # <<>> /\ Pending[1] = job
      BY <1>1, <2>1, HandFirst
    <2>3. 1 \in DOMAIN Pending /\ Kind(1) = "free"
      BY <2>1, <2>2, JobTypes DEF IInv, Kind
    <2> QED
      BY <2>3 DEF IInv, JobsInv
  <1> QED
    BY <1>1, <1>2, DataNone

LEMMA AdvanceData ==
    ASSUME IInv, DataInv, Advance, stray => ~Reuse
    PROVE  DataInv'
  <1>1. /\ Wpc = "advance" /\ Goto("worker", "idle") /\ stray' = FALSE
        /\ stream' = IF stray THEN stream ELSE [stream EXCEPT !.pointer = (@ + 1) % OrderLimit]
        /\ filling' = filling
    BY AdvanceHits DEF Advance, Wpc
  <1>2. Wpc' = "idle"
    BY <1>1, WorkerGoes DEF WorkerSet
  <1>3. /\ stray \in BOOLEAN
        /\ stray = FALSE => MovedUp
        /\ stray = TRUE => Pending' = Pending
    BY AdvanceKeeps DEF IInv, Shape, TypeOK
  <1>4. /\ stream'.valid = stream.valid /\ stream'.result = stream.result
        /\ stream'.data = stream.data /\ stream'.cursor = stream.cursor
        /\ stream'.rel = stream.rel /\ stream'.page = stream.page /\ stream'.decoder = stream.decoder
    <2>1. stream \in StreamSet
      BY DEF IInv, Shape, TypeOK
    <2> QED
      BY <1>1, <2>1 DEF StreamSet
  <1>5. RefillInv'
    BY <1>2 DEF RefillInv, Refilling
  <1>6. CASE stray = TRUE
    <2>1. stream.result \in {"none", "busy"}
      BY <1>6, ResultSays DEF IInv, WorkerInv
    <2>2. SteadyInv'
      BY <1>4, <2>1 DEF SteadyInv, Steady
    <2>3. AnewInv'
      BY <1>1, <1>4, <2>1 DEF DataInv, AnewInv
    <2> QED
      BY <1>5, <2>2, <2>3 DEF DataInv
  <1>7. CASE stray = FALSE
    <2>1. PICK n \in Nat \ {0} :
             /\ DOMAIN Pending = 1 .. n /\ DOMAIN Pending' = 1 .. n - 1
             /\ \A i \in 1 .. n - 1 : Pending'[i] = Pending[i + 1] /\ (PageJob(i)' <=> PageJob(i + 1))
             /\ ~PageJob(1)
             /\ SeeksLeft \subseteq 2 .. n
             /\ \A i \in Nat : i \in SeeksLeft' <=> i + 1 \in SeeksLeft
             /\ SeeksLeft = {} <=> SeeksLeft' = {}
      BY <1>3, <1>7 DEF MovedUp
    <2>2. stream.result # "busy"
      <3>1. Pending # <<>> /\ Over(1)
        BY <1>1, <1>7, HandFirst DEF Over
      <3> QED
        BY <3>1, ResultSays DEF IInv, JobsInv
    <2>3. \A j \in 1 .. n - 1 : j + 1 \in 1 .. n
      OBVIOUS
    <2>4. \A i \in 1 .. n : i # 1 => i - 1 \in 1 .. n - 1 /\ (i - 1) + 1 = i
      OBVIOUS
    <2>5. SteadyInv'
      <3> SUFFICES ASSUME Steady'
                   PROVE  /\ InLine'
                          /\ \A p \in Pages : ~stream'.valid[p] => Emptied(p)' /\ Wanted(p)'
                          /\ ~stream'.valid[stream'.page] => HereFirst'
        BY DEF SteadyInv
      <3>1. Steady /\ InLine' = InLine
        BY <1>4, <2>1 DEF Steady, InLine, Here, There
      <3>2. /\ InLine
            /\ \A p \in Pages : ~stream.valid[p] => Emptied(p) /\ Wanted(p)
            /\ ~stream.valid[stream.page] => HereFirst
        BY <3>1 DEF DataInv, SteadyInv
      <3>3. ASSUME NEW p \in Pages, ~stream'.valid[p] PROVE Emptied(p)' /\ Wanted(p)'
        <4>1. Emptied(p) /\ Wanted(p)
          BY <1>4, <3>2, <3>3
        <4>2. Emptied(p)'
          BY <1>1, <1>4, <4>1 DEF Emptied
        <4>3. PICK i \in 1 .. n : PageJob(i) /\ Pending[i].arg = p
          BY <2>1, <4>1 DEF Wanted
        <4>4. i # 1
          BY <2>1, <4>3
        <4>5. PICK j \in 1 .. n - 1 : j + 1 = i
          BY <2>4, <4>4
        <4>6. PageJob(j)' /\ Pending'[j].arg = p
          BY <2>1, <4>3, <4>5
        <4>7. Wanted(p)'
          BY <2>1, <4>6 DEF Wanted
        <4> QED
          BY <4>2, <4>7
      <3>4. ASSUME ~stream'.valid[stream'.page] PROVE HereFirst'
        <4>1. HereFirst
          BY <1>4, <3>2, <3>4
        <4>2. ASSUME NEW i \in 1 .. n - 1, NEW j \in 1 .. n - 1, PageJob(i)', PageJob(j)',
                     Pending'[i].arg = stream'.page, Pending'[j].arg # stream'.page
              PROVE  i < j
          <5>1. i + 1 \in 1 .. n /\ j + 1 \in 1 .. n /\ PageJob(i + 1) /\ PageJob(j + 1)
            BY <2>1, <2>3, <4>2
          <5>2. Pending[i + 1].arg = stream.page /\ Pending[j + 1].arg # stream.page
            BY <1>4, <2>1, <4>2
          <5>3. i + 1 < j + 1
            BY <2>1, <4>1, <5>1, <5>2 DEF HereFirst
          <5> QED
            BY <5>3
        <4>3. stream'.rel = 0 /\ There' = <<>>
          BY <1>4, <4>1 DEF HereFirst, There
        <4> QED
          BY <2>1, <4>2, <4>3 DEF HereFirst
      <3> QED
        BY <3>1, <3>2, <3>3, <3>4
    <2>6. AnewInv'
      <3>1. ASSUME stream.result = "success", NEW i \in SeeksLeft', \A k \in SeeksLeft' : k <= i
            PROVE  Pending'[i].arg = stream.cursor
        <4>1. i \in 1 .. n - 1 /\ i + 1 \in SeeksLeft
          <5>1. i \in DOMAIN Pending'
            BY <3>1 DEF SeeksLeft
          <5> QED
            BY <2>1, <3>1, <5>1
        <4>2. \A k \in SeeksLeft : k <= i + 1
          <5> SUFFICES ASSUME NEW k \in SeeksLeft PROVE k <= i + 1
            OBVIOUS
          <5>1. k \in 2 .. n
            BY <2>1
          <5>2. k - 1 \in Nat /\ (k - 1) + 1 = k
            BY <5>1
          <5>3. k - 1 \in SeeksLeft'
            BY <2>1, <5>2
          <5>4. k - 1 <= i
            BY <3>1, <5>3
          <5> QED
            BY <4>1, <5>1, <5>4
        <4>3. Pending[i + 1].arg = stream.cursor
          BY <3>1, <4>1, <4>2 DEF DataInv, AnewInv
        <4> QED
          BY <2>1, <4>1, <4>3
      <3>2. stream.result = "success" /\ SeeksLeft' # {} => stream.rel = 0 /\ stream.page = 0
        BY <2>1 DEF DataInv, AnewInv
      <3> QED
        BY <1>4, <2>2, <3>1, <3>2 DEF AnewInv
    <2> QED
      BY <1>5, <2>5, <2>6 DEF DataInv
  <1> QED
    BY <1>3, <1>6, <1>7

-----------------------------------------------------------------------------
LEMMA StepKeepsData ==
    ASSUME Loops = {}, StrayHarmless
    PROVE  IInv /\ FailInv /\ DataInv /\ [Next]_vars => DataInv'
  <1> SUFFICES ASSUME IInv, FailInv, DataInv, [Next]_vars PROVE DataInv'
    OBVIOUS
  <1>0. stray => ~Reuse
    BY DEF FailInv, StrayHarmless
  <1>1. CASE UNCHANGED vars
    <2>1. UNCHANGED <<queue, hand, outbox, stream, filling, stray, pc>>
      BY <1>1 DEF vars, jobVars
    <2>2. Pending' = Pending /\ Wpc' = Wpc
      BY <2>1 DEF Pending, InHand, Posting, job, Wpc
    <2> QED
      BY <2>1, <2>2, DataQuiet
  <1>2. CASE Command
    <2>1. CASE Load
      BY <2>1, LoadData
    <2>2. CASE CallerQuiet
      BY <2>2, CallerQuietData
    <2> QED
      BY <1>2, <2>1, <2>2 DEF Command, CallerQuiet
  <1>3. CASE CallerWork
    <2>1. CASE FinishLoad
      BY <2>1, FinishLoadData
    <2>2. CASE CloseStream \/ FinishUnload
      BY <2>2, ClosedData
    <2>3. CASE PostStep
      BY <2>3, PostData
    <2>4. CASE CallerQuiet
      BY <2>4, CallerQuietData
    <2>5. CASE SeekStep
      BY <2>5, SeekStepData
    <2>6. Start => CallerQuiet \/ SeekStep
      BY DEF CallerQuiet, SeekStep
    <2> QED
      BY <1>3, <2>1, <2>2, <2>3, <2>4, <2>5, <2>6 DEF CallerWork, PostStep, CallerQuiet
  <1>4. CASE Audio
    <2>1. CASE Unmap
      BY <2>1, UnmapData
    <2>2. CASE PostStep
      BY <2>2, PostData
    <2>3. CASE AudioQuiet
      BY <2>3, AudioQuietData
    <2>4. CASE SeekStep
      BY <2>4, SeekStepData
    <2>5. SeekToTarget \/ EndOfRange => AudioQuiet \/ SeekStep
      BY DEF AudioQuiet, SeekStep
    <2> QED
      BY <1>4, <2>1, <2>2, <2>3, <2>4, <2>5 DEF Audio, PostStep, AudioQuiet
  <1>5. CASE Worker
    <2>1. CASE BeginStep
      BY <2>1, BeginData
    <2> QED
      BY <1>0, <1>5, <2>1, FreeData, DecodeData, ValidateData, EndSeekData, EndLoadData, AdvanceData DEF Worker, BeginStep
  <1> QED
    BY <1>1, <1>2, <1>3, <1>4, <1>5 DEF Next

\* Whatever is sought, read and played before, the frames that are copied to
\* the device are those at the cursor: no page that was filled for an older
\* position is read, as long as no loop is set.
THEOREM CursorHeard ==
    ASSUME Loops = {}, StrayHarmless
    PROVE  Spec => []DeliveredAtCursor
  <1>1. IInv /\ DataInv => DeliveredAtCursor
    <2> SUFFICES ASSUME IInv, DataInv, pc["audio"] = "copy", NEW i \in 1 .. mapped
                 PROVE  stream.data[stream.page][stream.rel + i] = stream.cursor + i - 1
      BY DEF DeliveredAtCursor
    <2>1. /\ InLine /\ mapped \in Nat /\ stream.rel \in Nat /\ stream.cursor \in Nat
          /\ Len(Here) \in Nat /\ stream.rel + mapped <= Len(Here)
      BY CursorStays DEF Apc
    <2>2. stream.rel + i \in 1 .. Len(Here)
      BY <2>1
    <2>3. Here[stream.rel + i] = stream.cursor - stream.rel + (stream.rel + i) - 1
      BY <2>1, <2>2 DEF InLine, Run
    <2>4. Here[stream.rel + i] = stream.cursor + i - 1
      BY <2>1, <2>3
    <2> QED
      BY <2>4 DEF Here
  <1>2. Init => DataInv
    BY DataInit
  <1>3. IInv /\ FailInv /\ DataInv /\ [Next]_vars => DataInv'
    BY StepKeepsData
  <1> QED
    BY <1>1, <1>2, <1>3, Invariant, FailuresKnown, PTL DEF Spec

=============================================================================
