-------------------------- MODULE SoundStreamProofs --------------------------
(***************************************************************************)
(* For any file, pages, seek targets and loops: the safety properties of   *)
(* SoundStream.  Two invariants carry them: the pending jobs are numbered  *)
(* one after the other, so that each is in turn when it is taken; and once *)
(* no seek is to come, the pages that are not valid are the pages of the   *)
(* page jobs to come.                                                      *)
(***************************************************************************)
EXTENDS SoundStream, FiniteSetTheorems, SequenceTheorems, WellFoundedInduction, TLAPS

CallerSet == CallerSteps
AudioSet == Reading \union {"idle", "state", "end", "stop", "target", "leave"}
WorkerSet == Processing \union {"idle"}

\* The functions have their domains, and a page is never overfull.
Shape ==
    /\ TypeOK
    /\ gate \in [{"sound"} -> {"out", "in", "leaving"}]
    /\ pc \in [Threads -> CallerSet \union AudioSet \union WorkerSet]
    /\ hand \in [{"worker"} -> JobSet \union {NoJob}]
    /\ \A p \in Pages : Len(stream.data[p]) <= PageSize

Cpc == pc["caller"]
Apc == pc["audio"]
Wpc == pc["worker"]

\* The caller waits for the job of its load.
Loading == Cpc = "post_load" \/ (Cpc = "await_load" /\ ~done)

\* The caller, its sound and its stream.
CallerInv ==
    /\ Cpc = "idle" => \/ gate["sound"] = "out" /\ stream.result = "none"
                       \/ gate["sound"] = "in" /\ stream.result = "success"
    /\ Loading => gate["sound"] = "out" /\ stream.result = "busy"
    /\ Cpc = "await_load" /\ done => gate["sound"] = "out" /\ stream.result \in {"success", "failed"}
    /\ Cpc \in {"start", "post_rewind", "restart", "go", "rewind"} => gate["sound"] = "in" /\ stream.result = "success"
    /\ Cpc = "await_detach" => gate["sound"] = "leaving" /\ stream.result = "success"
    /\ Cpc = "close" => gate["sound"] = "out" /\ stream.result = "success"
    /\ Cpc \in {"post_free", "await_free"} => gate["sound"] = "out" /\ stream.result = "unavailable"
    /\ done => Cpc \in {"await_load", "await_free"}

\* What is about to be posted.
OutboxInv ==
    /\ outbox["caller"] # NoJob <=> Cpc \in {"post_load", "post_free", "post_rewind"}
    /\ outbox["audio"] # NoJob <=> Apc \in {"post_seek", "post_loop", "post_page"}
    /\ outbox["worker"] = NoJob

\* The audio thread holds the bus during a pass, and reads no sound that is at
\* its end.
AudioInv ==
    /\ held = IF Apc = "idle" THEN {} ELSE {"sound"}
    /\ Apc # "idle" => gate["sound"] # "out"
    /\ Apc \in Reading \union {"target"} => ~sound.atEnd
    /\ Cpc \in {"post_rewind", "restart"} => sound.atEnd
    /\ Apc = "seek" => target # NoSeek

\* The job in hand fits the step of the job thread.
WorkerInv ==
    /\ job = NoJob <=> Wpc = "idle"
    /\ Wpc \in {"decode", "validate"} => job.kind # "free"
    /\ Wpc \in {"decode", "validate"} /\ job.kind = "page" => filling = job.arg
    /\ Wpc \in {"succeed", "fail"} => job.kind = "load"
    /\ Wpc = "sought" => job.kind = "seek"
    /\ Wpc = "free" => job.kind = "free"
    /\ Wpc = "advance" => job.kind # "free"
    /\ stray => /\ Wpc = "advance" /\ ~done
                /\ (Cpc = "idle" /\ stream.result = "none") \/ Loading

\* The first of the jobs that are pending is over.
Over(i) == Wpc = "advance" /\ ~stray /\ i = 1

Kind(i) == Pending[i].kind

\* Jobs come in the order of their numbers, a load first and a free last.
JobsInv ==
    /\ Pending \in Seq(JobSet)
    /\ \A i \in DOMAIN Pending : Kind(i) = "page" => Pending[i].arg \in Pages
    /\ \A i \in DOMAIN Pending : Kind(i) = "seek" => Pending[i].arg \in Frames
    /\ JobsInOrder
    /\ Closed => Pending = <<>>
    /\ \A i \in DOMAIN Pending : Kind(i) = "load" => i = 1 /\ (Over(1) \/ Loading)
    /\ Loading => Len(Pending) = 1 /\ Kind(1) = "load" /\ ~Over(1)
    /\ Cpc = "await_load" /\ done => Len(Pending) <= 1 /\ (Len(Pending) = 1 => Over(1) /\ Kind(1) = "load")
    /\ \A i \in DOMAIN Pending : Kind(i) = "free" => i = Len(Pending) /\ stream.result = "unavailable"
    /\ Cpc = "post_free" \/ (Cpc = "await_free" /\ ~done) => Len(Pending) > 0 /\ Kind(Len(Pending)) = "free"

\* The seeks that are still to be done.
SeeksLeft == {i \in DOMAIN Pending : Kind(i) = "seek" /\ ~Over(i)}

SeeksInv ==
    /\ Cardinality(SeeksLeft) <= stream.seeks
    /\ stream.result # "unavailable" => stream.seeks = Cardinality(SeeksLeft)

\* A page job that is still to be done.
PageJob(i) == Kind(i) = "page" /\ ~Over(i)

\* With a seek to come, every page job is of the time before it.  Otherwise
\* the pages that are not valid are exactly those that have a job, and one.
PagesInv ==
    stream.result = "success" =>
        /\ SeeksLeft # {} =>
              \A i \in DOMAIN Pending : PageJob(i) => \E k \in SeeksLeft : i < k
        /\ SeeksLeft = {} =>
              /\ \A i \in DOMAIN Pending : PageJob(i) => ~stream.valid[Pending[i].arg]
              /\ \A i, j \in DOMAIN Pending :
                    PageJob(i) /\ PageJob(j) /\ Pending[i].arg = Pending[j].arg => i = j

CopyInv ==
    Apc = "copy" =>
        /\ SeeksLeft = {} /\ stream.valid[stream.page]
        /\ mapped > 0 /\ stream.rel + mapped <= Len(stream.data[stream.page])

IInv == Shape /\ CallerInv /\ OutboxInv /\ AudioInv /\ WorkerInv /\ JobsInv /\ SeeksInv /\ PagesInv /\ CopyInv

-----------------------------------------------------------------------------
\* The frames of d are those from a position on.
Run(d, from) == \A i \in 1 .. Len(d) : d[i] = from + i - 1

-----------------------------------------------------------------------------
(***************************************************************************)
(* Natural numbers.                                                        *)
(***************************************************************************)
\* A set of numbers that is not empty has a least element.
LEMMA LeastElement ==
    ASSUME NEW S \in SUBSET Nat, S # {}
    PROVE  \E x \in S : \A y \in S : x <= y
  <1>1. PICK x \in S : \A y \in S : ~(<<y, x>> \in OpToRel(<, Nat))
    BY WFMin, NatLessThanWellFounded
  <1>2. ASSUME NEW y \in S, y < x PROVE FALSE
    <2>1. <<y, x>> \in Nat \X Nat /\ <<y, x>>[1] < <<y, x>>[2]
      BY <1>2
    <2>2. <<y, x>> \in OpToRel(<, Nat)
      BY <2>1 DEF OpToRel
    <2> QED
      BY <1>1, <2>2
  <1> QED
    BY <1>2

\* A remainder is the only one of its kind.
LEMMA OneRemainder ==
    ASSUME NEW n \in Nat \ {0}, NEW q \in Int, NEW r \in 0 .. n - 1
    PROVE  (n * q + r) % n = r
  <1> DEFINE a == n * q + r
             u == a \div n
             v == a % n
  <1>1. a \in Int /\ u \in Int /\ v \in 0 .. n - 1 /\ a = n * u + v
    OBVIOUS
  <1>2. n * q + r = n * u + v
    BY <1>1
  <1> HIDE DEF a, u, v
  <1>3. n * (q - u) = v - r
    BY <1>1, <1>2
  <1>4. CASE q - u >= 1
    <2>1. n * (q - u) >= n
      BY <1>1, <1>4
    <2> QED
      BY <1>1, <1>3, <2>1
  <1>5. CASE q - u <= -1
    <2>1. n * (q - u) <= -n
      BY <1>1, <1>5
    <2> QED
      BY <1>1, <1>3, <2>1
  <1>6. CASE q - u = 0
    <2>1. v = r
      BY <1>1, <1>3, <1>6
    <2> QED
      BY <2>1 DEF a, v
  <1> QED
    BY <1>1, <1>4, <1>5, <1>6

\* A number may be reduced before another one is added.
LEMMA ModAdd ==
    ASSUME NEW n \in Nat \ {0}, NEW a \in Int, NEW b \in Int
    PROVE  ((a % n) + b) % n = (a + b) % n
  <1> DEFINE u == a \div n
             v == a % n
             s == (v + b) \div n
             t == (v + b) % n
  <1>1. u \in Int /\ v \in 0 .. n - 1 /\ a = n * u + v
    OBVIOUS
  <1>2. s \in Int /\ t \in 0 .. n - 1 /\ v + b = n * s + t
    <2> HIDE DEF v
    <2> QED
      BY <1>1
  <1> HIDE DEF u, s
  <1>3. a + b = n * (u + s) + t
    <2> HIDE DEF v, t
    <2>1. a + b = n * u + (n * s + t)
      BY <1>1, <1>2
    <2>2. n * (u + s) = n * u + n * s
      BY <1>1, <1>2
    <2> QED
      BY <1>1, <1>2, <2>1, <2>2
  <1>4. (n * (u + s) + t) % n = t
    <2>1. \A q \in Int : \A r \in 0 .. n - 1 : (n * q + r) % n = r
      BY OneRemainder
    <2>2. u + s \in Int /\ t \in 0 .. n - 1
      BY <1>1, <1>2
    <2> DEFINE k == u + s
    <2> HIDE DEF t, k
    <2>3. (n * k + t) % n = t
      BY <2>1, <2>2 DEF k
    <2> QED
      BY <2>3 DEF k
  <1> QED
    BY <1>3, <1>4 DEF t, v


-----------------------------------------------------------------------------
(***************************************************************************)
(* The line of pending jobs: the job h in hand, unless it is stray (s),    *)
(* the queue q, and the jobs c and a about to be posted.                   *)
(***************************************************************************)
Line(h, q, c, a, s) == (IF s THEN <<>> ELSE Known(h)) \o q \o (Known(c) \o Known(a))
MaybeJob == JobSet \union {NoJob}

LEMMA PendingIsLine == Pending = Line(job, queue, outbox["caller"], outbox["audio"], stray)
  BY DEF Pending, InHand, Posting, Line

LEMMA KnownType ==
    ASSUME NEW j \in MaybeJob
    PROVE  /\ Known(j) \in Seq(JobSet)
           /\ j = NoJob => Known(j) = <<>>
           /\ j # NoJob => Known(j) = <<j>> /\ j \in JobSet
  BY NothingElse DEF Known, MaybeJob

LEMMA LineType ==
    ASSUME NEW h \in MaybeJob, NEW q \in Seq(JobSet), NEW c \in MaybeJob, NEW a \in MaybeJob, NEW s
    PROVE  Line(h, q, c, a, s) \in Seq(JobSet)
  <1>1. Known(h) \in Seq(JobSet) /\ Known(c) \in Seq(JobSet) /\ Known(a) \in Seq(JobSet)
    BY KnownType
  <1> QED
    BY <1>1 DEF Line

\* With nothing about to be posted the line ends with the queue.
LEMMA LineQueue ==
    ASSUME NEW h \in MaybeJob, NEW q \in Seq(JobSet), NEW s
    PROVE  /\ Line(h, q, NoJob, NoJob, s) = (IF s THEN <<>> ELSE Known(h)) \o q
           /\ (IF s THEN <<>> ELSE Known(h)) \in Seq(JobSet)
           /\ s \/ h = NoJob => Line(h, q, NoJob, NoJob, s) = q
  <1>1. NoJob \in MaybeJob
    BY DEF MaybeJob
  <1>2. Known(NoJob) = <<>> /\ Known(h) \in Seq(JobSet)
    BY <1>1, KnownType
  <1>3. <<>> \o <<>> = <<>> /\ <<>> \in Seq(JobSet)
    BY ConcatEmptySeq
  <1> DEFINE k == IF s THEN <<>> ELSE Known(h)
  <1>4. k \in Seq(JobSet)
    BY <1>2, <1>3
  <1> HIDE DEF k
  <1>5. k \o q \in Seq(JobSet)
    BY <1>4
  <1>6. (k \o q) \o <<>> = k \o q
    BY <1>5, ConcatEmptySeq
  <1>7. Line(h, q, NoJob, NoJob, s) = k \o q
    BY <1>2, <1>3, <1>6 DEF Line, k
  <1>8. <<>> \o q = q
    BY ConcatEmptySeq
  <1>9. s \/ h = NoJob => k = <<>>
    BY <1>2 DEF k
  <1> QED
    BY <1>4, <1>7, <1>8, <1>9 DEF k

\* A job that is about to be posted is the last of the line, and stays there
\* when it is posted.
LEMMA LinePut ==
    ASSUME NEW h \in MaybeJob, NEW q \in Seq(JobSet), NEW x \in JobSet, NEW s
    PROVE  /\ Line(h, q, x, NoJob, s) = Append(Line(h, q, NoJob, NoJob, s), x)
           /\ Line(h, q, NoJob, x, s) = Append(Line(h, q, NoJob, NoJob, s), x)
           /\ Line(h, Append(q, x), NoJob, NoJob, s) = Append(Line(h, q, NoJob, NoJob, s), x)
  <1> DEFINE k == IF s THEN <<>> ELSE Known(h)
  <1>1. NoJob \in MaybeJob /\ x \in MaybeJob /\ x # NoJob
    BY NothingElse DEF MaybeJob
  <1>2. Known(NoJob) = <<>> /\ Known(x) = <<x>> /\ <<x>> \in Seq(JobSet)
    BY <1>1, KnownType
  <1>3. <<x>> \o <<>> = <<x>> /\ <<>> \o <<x>> = <<x>>
    BY <1>2, ConcatEmptySeq
  <1>4. k \in Seq(JobSet) /\ Line(h, q, NoJob, NoJob, s) = k \o q /\ k \o q \in Seq(JobSet)
    BY LineQueue
  <1>5. Append(q, x) \in Seq(JobSet)
    OBVIOUS
  <1>6. Line(h, Append(q, x), NoJob, NoJob, s) = k \o Append(q, x)
    <2> DEFINE r == Append(q, x)
    <2>1. r \in Seq(JobSet)
      BY <1>5
    <2> HIDE DEF r
    <2>2. Line(h, r, NoJob, NoJob, s) = k \o r
      BY <2>1, LineQueue
    <2> QED
      BY <2>2 DEF r
  <1> HIDE DEF k
  <1>7. (k \o q) \o <<x>> = Append(k \o q, x)
    BY <1>4
  <1>8. k \o Append(q, x) = Append(k \o q, x)
    BY <1>4
  <1>9. /\ Line(h, q, x, NoJob, s) = (k \o q) \o <<x>>
        /\ Line(h, q, NoJob, x, s) = (k \o q) \o <<x>>
    BY <1>2, <1>3 DEF Line, k
  <1> QED
    BY <1>4, <1>6, <1>7, <1>8, <1>9

\* Taking a job does not change the line, finishing it takes its first.
LEMMA LineTake ==
    ASSUME NEW q \in Seq(JobSet), q # <<>>, NEW c \in MaybeJob, NEW a \in MaybeJob
    PROVE  /\ Line(Head(q), Tail(q), c, a, FALSE) = Line(NoJob, q, c, a, FALSE)
           /\ Head(q) \in JobSet
  <1>1. Head(q) \in JobSet /\ Tail(q) \in Seq(JobSet) /\ NoJob \in MaybeJob /\ Head(q) \in MaybeJob
    BY HeadTailProperties DEF MaybeJob
  <1>2. Known(Head(q)) = <<Head(q)>> /\ Known(NoJob) = <<>>
    BY <1>1, KnownType, NothingElse
  <1>3. <<Head(q)>> \o Tail(q) = q
    BY <1>1
  <1>4. <<>> \o q = q
    BY ConcatEmptySeq
  <1> QED
    BY <1>1, <1>2, <1>3, <1>4 DEF Line

LEMMA LineFinish ==
    ASSUME NEW h \in JobSet, NEW q \in Seq(JobSet), NEW c \in MaybeJob, NEW a \in MaybeJob
    PROVE  /\ Line(h, q, c, a, FALSE) # <<>> /\ Line(h, q, c, a, FALSE)[1] = h
           /\ Line(NoJob, q, c, a, FALSE) = Tail(Line(h, q, c, a, FALSE))
           /\ Line(h, q, c, a, TRUE) = Line(NoJob, q, c, a, FALSE)
  <1> DEFINE z == Known(c) \o Known(a)
  <1>1. z \in Seq(JobSet) /\ q \o z \in Seq(JobSet)
    <2>1. Known(c) \in Seq(JobSet) /\ Known(a) \in Seq(JobSet)
      BY KnownType
    <2>2. z \in Seq(JobSet)
      BY <2>1
    <2> HIDE DEF z
    <2> QED
      BY <2>2
  <1>2. h \in MaybeJob /\ NoJob \in MaybeJob /\ h # NoJob
    BY NothingElse DEF MaybeJob
  <1>3. Known(h) = <<h>> /\ Known(NoJob) = <<>>
    BY <1>2, KnownType
  <1>4. <<>> \o q = q
    BY ConcatEmptySeq
  <1> HIDE DEF z
  <1>5. (<<h>> \o q) \o z = <<h>> \o (q \o z)
    BY <1>1, ConcatAssociative
  <1> DEFINE y == q \o z
  <1>6. y \in Seq(JobSet)
    BY <1>1
  <1> HIDE DEF y
  <1>7. <<h>> \o y # <<>> /\ (<<h>> \o y)[1] = h /\ Tail(<<h>> \o y) = y
    BY <1>6
  <1>8. /\ Line(h, q, c, a, FALSE) = <<h>> \o y
        /\ Line(NoJob, q, c, a, FALSE) = y
        /\ Line(h, q, c, a, TRUE) = y
    BY <1>3, <1>4, <1>5 DEF Line, y, z
  <1> QED
    BY <1>7, <1>8

-----------------------------------------------------------------------------
(***************************************************************************)
(* The frames the decoder delivers.                                        *)
(***************************************************************************)
LEMMA EntryType ==
    ASSUME TypeOK, NEW at \in Nat
    PROVE  Entry(at) \in Nat /\ (sound.loop = NoLoop => Entry(at) = at)
  <1>1. sound.loop \in Loops \union {NoLoop}
    BY DEF TypeOK, SoundSet
  <1>2. sound.loop # NoLoop => sound.loop[1] \in Nat
    BY <1>1, LoopsInFile, PositiveSizes DEF Frames
  <1> QED
    BY <1>2 DEF Entry

\* The recursion of the positions has a solution up to each n.
LEMMA PositionsExist ==
    ASSUME TypeOK, NEW n \in Nat
    PROVE  \E f \in [0 .. n -> Nat] :
              f[0] = stream.decoder /\ \A i \in 1 .. n : f[i] = Entry(f[i - 1]) + 1
  <1> DEFINE Solves(f, k) == f[0] = stream.decoder /\ \A i \in 1 .. k : f[i] = Entry(f[i - 1]) + 1
             Bad == {k \in Nat : ~ \E f \in [0 .. k -> Nat] : Solves(f, k)}
  <1>0. stream.decoder \in Nat
    BY PositiveSizes DEF TypeOK, StreamSet
  <1> SUFFICES ASSUME Bad # {} PROVE FALSE
    OBVIOUS
  <1>1. PICK k \in Bad : \A j \in Bad : k <= j
    <2>1. Bad \in SUBSET Nat
      OBVIOUS
    <2> HIDE DEF Bad
    <2> QED
      BY <2>1, LeastElement
  <1>2. k \in Nat /\ ~ \E f \in [0 .. k -> Nat] : Solves(f, k)
    OBVIOUS
  <1>3. CASE k = 0
    <2> DEFINE f == [i \in 0 .. 0 |-> stream.decoder]
    <2>1. f \in [0 .. k -> Nat] /\ f[0] = stream.decoder /\ 1 .. k = {}
      BY <1>0, <1>3
    <2> QED
      BY <1>2, <2>1
  <1>4. CASE k > 0
    <2>1. k - 1 \in Nat /\ k - 1 \notin Bad
      <3> HIDE DEF Bad
      <3> QED
        BY <1>1, <1>2, <1>4
    <2>2. PICK g \in [0 .. k - 1 -> Nat] : Solves(g, k - 1)
      BY <2>1
    <2>3. k - 1 \in 0 .. k - 1 /\ g[k - 1] \in Nat
      BY <2>1, <2>2
    <2>4. Entry(g[k - 1]) + 1 \in Nat
      <3>1. \A x \in Nat : Entry(x) \in Nat
        BY EntryType
      <3> DEFINE x == g[k - 1]
      <3>2. x \in Nat
        BY <2>3
      <3> HIDE DEF x, Bad, Solves
      <3>3. Entry(x) \in Nat
        BY <3>1, <3>2
      <3> QED
        BY <3>3 DEF x
    <2> DEFINE f == [i \in 0 .. k |-> IF i = k THEN Entry(g[k - 1]) + 1 ELSE g[i]]
    <2>5. f \in [0 .. k -> Nat]
      BY <2>2, <2>4
    <2>6. f[k] = Entry(g[k - 1]) + 1 /\ \A i \in 0 .. k - 1 : f[i] = g[i]
      OBVIOUS
    <2> HIDE DEF f
    <2>7. f[0] = stream.decoder
      BY <1>2, <1>4, <2>2, <2>6
    <2>8. ASSUME NEW i \in 1 .. k PROVE f[i] = Entry(f[i - 1]) + 1
      <3>1. CASE i = k
        <4>1. f[k - 1] = g[k - 1]
          BY <2>3, <2>6
        <4> QED
          BY <3>1, <4>1, <2>6
      <3>2. CASE i # k
        <4>1. i \in 1 .. k - 1 /\ i \in 0 .. k - 1 /\ i - 1 \in 0 .. k - 1
          BY <3>2
        <4>2. f[i] = g[i] /\ f[i - 1] = g[i - 1] /\ g[i] = Entry(g[i - 1]) + 1
          BY <2>2, <2>6, <4>1
        <4> QED
          BY <4>2
      <3> QED
        BY <3>1, <3>2
    <2> QED
      BY <1>2, <2>5, <2>7, <2>8
  <1> QED
    BY <1>2, <1>3, <1>4

LEMMA PositionStep ==
    ASSUME TypeOK
    PROVE  /\ Position[0] = stream.decoder
           /\ \A n \in 1 .. PageSize : Position[n] = Entry(Position[n - 1]) + 1
  <1> DEFINE W(w) == [n \in 0 .. PageSize |-> IF n = 0 THEN stream.decoder ELSE Entry(w[n - 1]) + 1]
  <1>0. PageSize \in Nat
    BY PositiveSizes
  <1>1. PICK f \in [0 .. PageSize -> Nat] :
           f[0] = stream.decoder /\ \A i \in 1 .. PageSize : f[i] = Entry(f[i - 1]) + 1
    BY <1>0, PositionsExist
  <1>2. f = W(f)
    <2>1. \A n \in 0 .. PageSize : f[n] = IF n = 0 THEN stream.decoder ELSE Entry(f[n - 1]) + 1
      BY <1>1
    <2> QED
      BY <2>1
  <1>3. Position = W(Position)
    BY <1>2 DEF Position
  <1>4. \A n \in 0 .. PageSize : W(Position)[n] = IF n = 0 THEN stream.decoder ELSE Entry(Position[n - 1]) + 1
    OBVIOUS
  <1>5. 0 \in 0 .. PageSize /\ \A n \in 1 .. PageSize : n \in 0 .. PageSize /\ n # 0
    BY <1>0
  <1> HIDE DEF W
  <1>6. \A n \in 0 .. PageSize : Position[n] = IF n = 0 THEN stream.decoder ELSE Entry(Position[n - 1]) + 1
    BY <1>3, <1>4
  <1> QED
    BY <1>5, <1>6

LEMMA PositionType ==
    ASSUME TypeOK, NEW n \in 0 .. PageSize
    PROVE  Position[n] \in Nat /\ (sound.loop = NoLoop => Position[n] = stream.decoder + n)
  <1> DEFINE Good(k) == Position[k] \in Nat /\ (sound.loop = NoLoop => Position[k] = stream.decoder + k)
             Bad == {k \in 0 .. PageSize : ~Good(k)}
  <1>0. stream.decoder \in Nat /\ PageSize \in Nat
    BY PositiveSizes DEF TypeOK, StreamSet
  <1> SUFFICES ASSUME Bad # {} PROVE FALSE
    OBVIOUS
  <1>1. PICK k \in Bad : \A j \in Bad : k <= j
    <2>1. Bad \in SUBSET Nat
      BY <1>0
    <2> HIDE DEF Bad
    <2> QED
      BY <2>1, LeastElement
  <1>2. k \in 0 .. PageSize /\ ~Good(k)
    OBVIOUS
  <1>3. k # 0
    BY <1>0, <1>2, PositionStep
  <1>4. k \in 1 .. PageSize /\ k - 1 \in 0 .. PageSize
    BY <1>0, <1>2, <1>3
  <1>5. Good(k - 1)
    <2>1. k - 1 \notin Bad
      <3> HIDE DEF Bad
      <3> QED
        BY <1>0, <1>1, <1>4
    <2> HIDE DEF Good
    <2> QED
      BY <1>4, <2>1
  <1>6. Position[k] = Entry(Position[k - 1]) + 1
    BY <1>4, PositionStep
  <1>7. Entry(Position[k - 1]) \in Nat /\ (sound.loop = NoLoop => Entry(Position[k - 1]) = Position[k - 1])
    BY <1>5, EntryType
  <1> QED
    BY <1>0, <1>2, <1>4, <1>5, <1>6, <1>7

\* What is decoded fits a page and is in the file; without a loop it is what
\* follows the position of the decoder.
LEMMA DecodedType ==
    ASSUME TypeOK
    PROVE  /\ Decoded \in Seq(Frames) /\ Len(Decoded) <= PageSize
           /\ Decoded # <<>> => Last(Decoded) \in Frames
           /\ sound.loop = NoLoop =>
                /\ Run(Decoded, stream.decoder)
                /\ (IF Decoded = <<>> THEN stream.decoder ELSE Last(Decoded) + 1) = stream.decoder + Len(Decoded)
  <1> DEFINE S == {n \in 0 .. PageSize : n = PageSize \/ Entry(Position[n]) >= Total}
             m == FramesLeft
  <1>0. PageSize \in Nat /\ Total \in Nat /\ stream.decoder \in Nat
    BY PositiveSizes DEF TypeOK, StreamSet
  <1>1. m \in S /\ \A y \in S : m <= y
    <2>1. S \in SUBSET Nat /\ PageSize \in S
      BY <1>0
    <2>2. FramesLeft = Min(S)
      BY DEF FramesLeft
    <2> HIDE DEF S
    <2>3. PICK x \in S : \A y \in S : x <= y
      BY <2>1, LeastElement
    <2>4. Min(S) \in S /\ \A y \in S : Min(S) <= y
      BY <2>3 DEF Min
    <2> QED
      BY <2>2, <2>4
  <1>2. m \in 0 .. PageSize
    BY <1>1
  <1>3. ASSUME NEW n \in 1 .. m PROVE Entry(Position[n - 1]) \in Frames
    <2>1. n - 1 \in 0 .. PageSize /\ n - 1 < m
      BY <1>0, <1>2
    <2>2. Entry(Position[n - 1]) \in Nat
      BY <2>1, PositionType, EntryType
    <2>3. n - 1 \notin S
      <3> HIDE DEF S, m
      <3> QED
        BY <1>0, <1>1, <1>2, <2>1
    <2>4. ~(Entry(Position[n - 1]) >= Total)
      BY <2>1, <2>3
    <2> QED
      BY <1>0, <2>2, <2>4 DEF Frames
  <1> HIDE DEF S
  <1>4. Decoded = [n \in 1 .. m |-> Entry(Position[n - 1])]
    BY DEF Decoded
  <1> HIDE DEF m
  <1>5. Decoded \in Seq(Frames) /\ Len(Decoded) = m
    BY <1>0, <1>2, <1>3, <1>4
  <1>6. Decoded # <<>> => m > 0 /\ Last(Decoded) = Decoded[m]
    BY <1>0, <1>2, <1>5 DEF Last
  <1>7. \A n \in 1 .. m : Decoded[n] \in Frames
    BY <1>3, <1>4
  <1>8. m = 0 => Decoded = <<>>
    BY <1>5
  <1>9. ASSUME sound.loop = NoLoop
        PROVE  \A n \in 1 .. m : Decoded[n] = stream.decoder + n - 1
    <2> SUFFICES ASSUME NEW n \in 1 .. m PROVE Decoded[n] = stream.decoder + n - 1
      OBVIOUS
    <2>1. n - 1 \in 0 .. PageSize
      BY <1>0, <1>2
    <2>2. Position[n - 1] = stream.decoder + (n - 1) /\ Position[n - 1] \in Nat
      BY <1>9, <2>1, PositionType
    <2>3. Entry(Position[n - 1]) = Position[n - 1]
      BY <1>9, <2>2, EntryType
    <2> QED
      BY <1>0, <1>4, <2>2, <2>3
  <1>10. Decoded # <<>> => Last(Decoded) \in Frames
    BY <1>0, <1>2, <1>6, <1>7
  <1>11. sound.loop = NoLoop => Run(Decoded, stream.decoder)
    BY <1>5, <1>9 DEF Run
  <1>12. sound.loop = NoLoop /\ Decoded # <<>> => Last(Decoded) + 1 = stream.decoder + Len(Decoded)
    BY <1>0, <1>2, <1>5, <1>6, <1>9
  <1>13. Decoded = <<>> => Len(Decoded) = 0
    OBVIOUS
  <1> QED
    BY <1>0, <1>2, <1>5, <1>10, <1>11, <1>12, <1>13

-----------------------------------------------------------------------------
(***************************************************************************)
(* The initial states, and steps that leave the stream and the jobs alone. *)
(***************************************************************************)
AllSteps == CallerSet \union AudioSet \union WorkerSet

LEMMA Numbers ==
    /\ Total \in Nat \ {0} /\ PageSize \in Nat \ {0} /\ OrderLimit \in Nat \ {0}
    /\ Frames \subseteq Nat /\ 0 \in Frames /\ Targets \subseteq Frames
    /\ NoSeek \notin Frames /\ NoJob \notin JobSet /\ NoLoop \notin Loops
    /\ \A l \in Loops : l[1] \in Frames /\ l[2] \in 1 .. Total /\ l[1] < l[2]
  BY PositiveSizes, TargetsInFile, LoopsInFile, CountersCount, NothingElse DEF Frames

LEMMA JobTypes ==
    ASSUME Shape
    PROVE  /\ job \in MaybeJob /\ queue \in Seq(JobSet)
           /\ outbox["caller"] \in MaybeJob /\ outbox["audio"] \in MaybeJob
           /\ Pending \in Seq(JobSet)
  <1>1. /\ job \in MaybeJob /\ queue \in Seq(JobSet)
        /\ outbox["caller"] \in MaybeJob /\ outbox["audio"] \in MaybeJob
    BY DEF Shape, TypeOK, Threads, MaybeJob, job
  <1> QED
    BY <1>1, LineType, PendingIsLine

LEMMA FreshStreamType == FreshStream \in StreamSet
  <1> USE Numbers
  <1>1. NoPages \in [Pages -> Seq(Frames)] /\ 0 \in Pages
    BY DEF NoPages, Pages
  <1>2. [p \in Pages |-> FALSE] \in [Pages -> BOOLEAN]
    OBVIOUS
  <1> QED
    BY <1>1, <1>2 DEF FreshStream, StreamSet

LEMMA InitIInv == Init => IInv
  <1> SUFFICES ASSUME Init PROVE IInv
    OBVIOUS
  <1> USE Numbers
  <1>1. /\ queue = <<>> /\ hand = [u \in {"worker"} |-> NoJob] /\ gate = [b \in {"sound"} |-> "out"] /\ held = {}
        /\ outbox = [t \in Threads |-> NoJob] /\ pc = [t \in Threads |-> "idle"]
        /\ stray = FALSE /\ done = FALSE /\ mapped = 0
    BY DEF Init, Gate!Init, Fifo!Init
  <1>2. pc["caller"] = "idle" /\ pc["audio"] = "idle" /\ pc["worker"] = "idle" /\ job = NoJob
    BY <1>1 DEF Threads, job
  <1>3. stream = NoStream /\ sound = FreshSound
    BY DEF Init
  <1>4. /\ stream.result = "none" /\ stream.seeks = 0
        /\ \A p \in Pages : stream.data[p] = <<>>
    BY <1>3 DEF NoStream, FreshStream, NoPages
  <1>5. Shape
    <2>1. stream \in StreamSet
      <3>1. FreshStream \in StreamSet
        BY FreshStreamType
      <3> QED
        BY <1>3, <3>1 DEF NoStream, StreamSet
    <2>2. sound \in SoundSet
      BY <1>3 DEF FreshSound, SoundSet
    <2>3. TypeOK
      <3>1. /\ queue \in Seq(JobSet) /\ hand["worker"] \in JobSet \union {NoJob}
            /\ outbox \in [Threads -> JobSet \union {NoJob}]
        BY <1>1
      <3>2. pc["caller"] \in CallerSteps /\ 0 \in Pages /\ mapped \in 0 .. PageSize
        BY <1>1, <1>2 DEF CallerSteps, Pages
      <3> QED
        BY <1>1, <1>2, <2>1, <2>2, <3>1, <3>2 DEF TypeOK, Init
    <2>4. pc \in [Threads -> CallerSet \union AudioSet \union WorkerSet]
      BY <1>1 DEF AudioSet
    <2>5. \A p \in Pages : Len(stream.data[p]) <= PageSize
      BY <1>4
    <2> QED
      BY <1>1, <2>3, <2>4, <2>5 DEF Shape
  <1>6. Pending = <<>>
    BY <1>1, <1>2, PendingIsLine, LineQueue, JobTypes, <1>5 DEF Threads
  <1>7. CallerInv /\ OutboxInv /\ AudioInv /\ WorkerInv
    BY <1>1, <1>2, <1>4 DEF CallerInv, OutboxInv, AudioInv, WorkerInv, Cpc, Apc, Wpc, Loading, Threads, Reading
  <1>8. JobsInv
    BY <1>2, <1>4, <1>6 DEF JobsInv, JobsInOrder, Closed, Loading, Cpc
  <1>9. SeeksInv /\ PagesInv
    <2>1. SeeksLeft = {}
      BY <1>6 DEF SeeksLeft
    <2> QED
      BY <2>1, <1>4, FS_EmptySet DEF SeeksInv, PagesInv
  <1>10. CopyInv
    BY <1>2 DEF CopyInv, Apc
  <1> QED
    BY <1>5, <1>7, <1>8, <1>9, <1>10 DEF IInv

LEMMA GotoStep ==
    ASSUME Shape, NEW t \in Threads, NEW where \in AllSteps, Goto(t, where)
    PROVE  /\ pc' \in [Threads -> AllSteps] /\ pc'[t] = where
           /\ \A u \in Threads \ {t} : pc'[u] = pc[u]
  BY DEF Goto, Shape, AllSteps

\* The caller and the audio thread never have a job to post at the same time,
\* and the audio thread reads only a stream that is open.
LEMMA Apart ==
    ASSUME Shape, CallerInv, OutboxInv, AudioInv
    PROVE  /\ outbox["caller"] = NoJob \/ outbox["audio"] = NoJob
           /\ Apc # "idle" => stream.result = "success" /\ Cpc \notin {"post_load", "await_load", "close", "post_free", "await_free"}
           /\ Apc \in Reading => Cpc \notin {"post_rewind", "restart"}
  <1>1. Apc # "idle" => Cpc \notin {"post_load", "await_load", "close", "post_free", "await_free"}
    BY DEF CallerInv, AudioInv, Loading
  <1>2. Apc \in Reading => Cpc \notin {"post_rewind", "restart"}
    BY DEF AudioInv
  <1>3. Apc # "idle" => stream.result = "success"
    BY DEF CallerInv, AudioInv, Loading, Shape, TypeOK, CallerSteps, Cpc
  <1>4. outbox["caller"] = NoJob \/ outbox["audio"] = NoJob
    BY <1>1, <1>2 DEF OutboxInv, Reading
  <1> QED
    BY <1>1, <1>2, <1>3, <1>4

\* The jobs, the seeks and the pages do not notice such a step.
LEMMA JobsQuiet ==
    ASSUME IInv, UNCHANGED <<queue, hand, outbox, stream, stray, done, filling>>,
           pc'["worker"] = pc["worker"],
           \A x \in {"post_load", "await_load", "post_free", "await_free"} : pc'["caller"] = x <=> pc["caller"] = x,
           stray => pc'["caller"] = pc["caller"]
    PROVE  WorkerInv' /\ JobsInv' /\ SeeksInv' /\ PagesInv' /\ Pending' = Pending /\ SeeksLeft' = SeeksLeft
  <1>1. Pending' = Pending /\ Loading' = Loading /\ Closed' = Closed /\ job' = job
    BY DEF Pending, InHand, Posting, job, Loading, Closed, Cpc
  <1>2. \A i : Kind(i)' = Kind(i) /\ Over(i)' = Over(i)
    BY <1>1 DEF Kind, Over, Wpc
  <1>3. SeeksLeft' = SeeksLeft
    BY <1>1, <1>2 DEF SeeksLeft
  <1>4. WorkerInv'
    BY <1>1 DEF IInv, WorkerInv, Wpc, Cpc
  <1>5. JobsInv'
    <2>1. JobsInOrder'
      BY <1>1 DEF IInv, JobsInv, JobsInOrder
    <2>2. /\ Cpc' = "await_load" <=> Cpc = "await_load"
          /\ Cpc' = "post_free" <=> Cpc = "post_free"
          /\ Cpc' = "await_free" <=> Cpc = "await_free"
      BY DEF Cpc
    <2> QED
      BY <1>1, <1>2, <2>1, <2>2 DEF IInv, JobsInv
  <1>6. SeeksInv'
    BY <1>3 DEF IInv, SeeksInv
  <1>7. PagesInv'
    <2>1. \A i : PageJob(i)' = PageJob(i)
      BY <1>2 DEF PageJob
    <2> QED
      BY <1>1, <1>3, <2>1 DEF IInv, PagesInv
  <1> QED
    BY <1>1, <1>3, <1>4, <1>5, <1>6, <1>7

LEMMA SeeksCount ==
    ASSUME Shape, SeeksInv
    PROVE  /\ IsFiniteSet(SeeksLeft) /\ Cardinality(SeeksLeft) \in Nat
           /\ stream.seeks = 0 => SeeksLeft = {}
           /\ stream.result # "unavailable" /\ SeeksLeft = {} => stream.seeks = 0
  <1>1. Len(Pending) \in Nat /\ DOMAIN Pending = 1 .. Len(Pending)
    BY JobTypes
  <1>2. IsFiniteSet(1 .. Len(Pending))
    BY <1>1, FS_Interval
  <1>3. SeeksLeft \subseteq 1 .. Len(Pending)
    BY <1>1 DEF SeeksLeft
  <1>4. IsFiniteSet(SeeksLeft) /\ Cardinality(SeeksLeft) \in Nat
    BY <1>2, <1>3, FS_Subset, FS_CardinalityType
  <1>5. Cardinality(SeeksLeft) = 0 => SeeksLeft = {}
    BY <1>4, FS_EmptySet
  <1>6. SeeksLeft = {} => Cardinality(SeeksLeft) = 0
    BY FS_EmptySet
  <1>7. stream.seeks \in Nat
    BY DEF Shape, TypeOK, StreamSet
  <1> QED
    BY <1>4, <1>5, <1>6, <1>7 DEF SeeksInv

\* The stream is there already, and a seek does nothing.
OnFrame(frame) == stream.seeks = 0 /\ stream.cursor = frame

\* The calls of the caller that change the bus or the sound.
CallerQuiet ==
    \/ Unload \/ FinishDetach \/ Play \/ Restart \/ Go \/ Pause \/ Stop \/ Rewind
    \/ \E frame \in Targets : Seek(frame)
    \/ \E loop \in Loops \union {NoLoop} : SetLoop(loop)
    \/ (Start /\ (sound.atEnd => OnFrame(0)))

LEMMA CallerQuietKeeps ==
    ASSUME IInv, CallerQuiet
    PROVE  IInv'
  <1> USE Numbers DEF IInv
  <1>0. Start => (sound.atEnd => OnFrame(0))
    BY DEF CallerQuiet, Start, Unload, FinishDetach, Play, Restart, Go, Pause, Stop, Rewind, Seek, SetLoop, Loaded, Idle
  <1>1. /\ UNCHANGED <<queue, hand, outbox, stream, stray, done, filling, held, target, mapped, got, empty, looping>>
        /\ pc' \in [Threads -> AllSteps] /\ pc'["audio"] = pc["audio"] /\ pc'["worker"] = pc["worker"]
    <2>1. UNCHANGED <<queue, hand, outbox, stream, stray, done, filling, held, target, mapped, got, empty, looping>>
      BY <1>0 DEF CallerQuiet, Unload, FinishDetach, Play, Restart, Go, Pause, Stop, Rewind, Seek, SetLoop, Start,
             SeekStream, OnFrame, gateVars, jobVars, readVars, Gate!BeginDetach, Gate!EndDetach
    <2>2. UNCHANGED pc \/ \E where \in CallerSteps : Goto("caller", where)
      <3>1. CASE Start
        BY <3>1 DEF Start, SeekStream, CallerSteps
      <3>2. CASE ~Start
        BY <3>2 DEF CallerQuiet, Unload, FinishDetach, Play, Restart, Go, Pause, Stop, Rewind, Seek, SetLoop, CallerSteps
      <3> QED
        BY <3>1, <3>2
    <2>3. CASE UNCHANGED pc
      BY <2>1, <2>3 DEF Shape, AllSteps
    <2>4. ASSUME NEW where \in CallerSteps, Goto("caller", where)
          PROVE  pc' \in [Threads -> AllSteps] /\ pc'["audio"] = pc["audio"] /\ pc'["worker"] = pc["worker"]
      BY <2>4, GotoStep DEF Threads, AllSteps, CallerSet
    <2> QED
      BY <2>1, <2>2, <2>3, <2>4
  <1>2. gate' \in [{"sound"} -> {"out", "in", "leaving"}] /\ sound' \in SoundSet
    <2>1. gate' \in [{"sound"} -> {"out", "in", "leaving"}]
      BY DEF CallerQuiet, Unload, FinishDetach, Play, Restart, Go, Pause, Stop, Rewind, Seek, SetLoop, Start,
             gateVars, Gate!BeginDetach, Gate!EndDetach, Shape
    <2>2. sound' \in SoundSet
      <3>0. sound \in SoundSet
        BY DEF Shape, TypeOK
      <3>1. CASE UNCHANGED sound
        BY <3>0, <3>1
      <3>2. CASE Restart \/ Go \/ Pause \/ Stop \/ Rewind
        BY <3>0, <3>2 DEF Restart, Go, Pause, Stop, Rewind, SoundSet
      <3>3. ASSUME NEW frame \in Targets, Seek(frame) PROVE sound' \in SoundSet
        BY <3>0, <3>3 DEF Seek, SoundSet
      <3>4. ASSUME NEW loop \in Loops \union {NoLoop}, SetLoop(loop) PROVE sound' \in SoundSet
        BY <3>0, <3>4 DEF SetLoop, SoundSet
      <3> QED
        BY <3>1, <3>2, <3>3, <3>4 DEF CallerQuiet, Unload, FinishDetach, Play, Start
    <2> QED
      BY <2>1, <2>2
  <1>3. ~stray /\ ~done
    BY DEF CallerQuiet, Unload, FinishDetach, Play, Restart, Go, Pause, Stop, Rewind, Seek, SetLoop, Start,
           Loaded, Idle, WorkerInv, CallerInv, Loading, Cpc
  <1>4. /\ Cpc \in {"idle", "await_detach", "start", "restart", "go", "rewind"}
        /\ Cpc' \in {"idle", "await_detach", "close", "start", "restart", "go", "rewind"}
        /\ Cpc' \in CallerSteps
    <2>1. CASE Start
      <3>1. pc["caller"] = "start" /\ (Goto("caller", "restart") \/ Goto("caller", "go"))
        BY <2>1, <1>0 DEF Start, SeekStream, OnFrame
      <3> QED
        BY <3>1, GotoStep DEF Threads, AllSteps, CallerSet, CallerSteps, Cpc
    <2>2. CASE ~Start
      BY <2>2 DEF CallerQuiet, Unload, FinishDetach, Play, Restart, Go, Pause, Stop, Rewind, Seek, SetLoop,
           Loaded, Idle, Goto, Shape, CallerSteps, Threads, Cpc
    <2> QED
      BY <2>1, <2>2
  <1>5. Shape'
    BY <1>1, <1>2, <1>4 DEF Shape, TypeOK, AllSteps, Cpc
  <1>6. CallerInv' /\ AudioInv'
    <2>1. CASE Start
      <3>1. pc["caller"] = "start" /\ ((Goto("caller", "restart") /\ sound.atEnd) \/ Goto("caller", "go"))
        BY <2>1, <1>0 DEF Start, SeekStream, OnFrame
      <3>2. UNCHANGED <<gate, held, sound>>
        BY <2>1 DEF Start, gateVars
      <3> QED
        BY <3>1, <3>2, <1>1, GotoStep DEF Threads, AllSteps, CallerSet, CallerSteps, Cpc, Apc, CallerInv, AudioInv, Loading, Reading
    <2>2. CASE Unload \/ FinishDetach
      BY <2>2, <1>1 DEF Unload, FinishDetach, Loaded, Idle, Goto, Shape, Threads, Gate!BeginDetach, Gate!EndDetach,
         CallerInv, AudioInv, Loading, Cpc, Apc, Reading
    <2>3. CASE Play \/ Restart \/ Go \/ Rewind \/ Stop \/ Pause
      BY <2>3, <1>1 DEF Play, Restart, Go, Rewind, Stop, Pause, Loaded, Idle, Goto, Shape, TypeOK, SoundSet, Threads,
         CallerInv, AudioInv, Loading, Cpc, Apc, Reading, gateVars
    <2>4. CASE (\E frame \in Targets : Seek(frame)) \/ (\E loop \in Loops \union {NoLoop} : SetLoop(loop))
      BY <2>4, <1>1 DEF Seek, SetLoop, Loaded, Idle, Shape, TypeOK, SoundSet,
         CallerInv, AudioInv, Loading, Cpc, Apc, Reading, gateVars
    <2> QED
      BY <2>1, <2>2, <2>3, <2>4 DEF CallerQuiet
  <1>7. OutboxInv'
    BY <1>1, <1>4 DEF OutboxInv, Cpc, Apc
  <1>8. WorkerInv' /\ JobsInv' /\ SeeksInv' /\ PagesInv' /\ SeeksLeft' = SeeksLeft
    BY <1>1, <1>3, <1>4, JobsQuiet DEF Cpc
  <1>9. CopyInv'
    BY <1>1, <1>8 DEF CopyInv, Apc
  <1> QED
    BY <1>5, <1>6, <1>7, <1>8, <1>9

\* The steps of the audio thread that neither seek nor use up frames.
AudioQuiet ==
    \/ BeginPass \/ CheckState \/ CheckEnd \/ StopAtEnd \/ LoadTarget \/ ClearTarget
    \/ BeginRead \/ Map \/ CheckDecoder \/ MarkEnd \/ ReadMore \/ HaveEnough \/ EndPass
    \/ (SeekToTarget /\ OnFrame(target))
    \/ (EndOfRange /\ (looping /\ ~empty => OnFrame(sound.start)))

LEMMA AudioQuietKeeps ==
    ASSUME IInv, AudioQuiet
    PROVE  IInv'
  <1> USE Numbers DEF IInv
  <1>a. SeekToTarget => OnFrame(target)
    BY DEF AudioQuiet, SeekToTarget, BeginPass, CheckState, CheckEnd, StopAtEnd, LoadTarget, ClearTarget, BeginRead,
           Map, CheckDecoder, MarkEnd, ReadMore, HaveEnough, EndPass, EndOfRange
  <1>b. EndOfRange => (looping /\ ~empty => OnFrame(sound.start))
    BY DEF AudioQuiet, SeekToTarget, BeginPass, CheckState, CheckEnd, StopAtEnd, LoadTarget, ClearTarget, BeginRead,
           Map, CheckDecoder, MarkEnd, ReadMore, HaveEnough, EndPass, EndOfRange
  <1>1. UNCHANGED <<queue, hand, outbox, stream, stray, done, filling, gate>>
    BY <1>a, <1>b DEF AudioQuiet, SeekToTarget, BeginPass, CheckState, CheckEnd, StopAtEnd, LoadTarget, ClearTarget, BeginRead,
           Map, CheckDecoder, MarkEnd, ReadMore, HaveEnough, EndPass, EndOfRange,
           SeekStream, OnFrame, gateVars, jobVars, readVars, Gate!Take, Gate!Drop
  <1>2. \E where \in AudioSet : Goto("audio", where)
    <2>1. CASE SeekToTarget \/ EndOfRange
      BY <2>1, <1>a, <1>b DEF SeekToTarget, EndOfRange, SeekStream, OnFrame, AudioSet, Reading
    <2>2. CASE ~(SeekToTarget \/ EndOfRange)
      BY <2>2 DEF AudioQuiet, BeginPass, CheckState, CheckEnd, StopAtEnd, LoadTarget, ClearTarget, BeginRead,
           Map, CheckDecoder, MarkEnd, ReadMore, HaveEnough, EndPass, AudioSet, Reading
    <2> QED
      BY <2>1, <2>2
  <1>3. PICK where \in AudioSet : Goto("audio", where)
    BY <1>2
  <1>4. /\ pc' \in [Threads -> AllSteps] /\ pc'["audio"] = where
        /\ pc'["caller"] = pc["caller"] /\ pc'["worker"] = pc["worker"]
    <2>1. "audio" \in Threads /\ where \in AllSteps
      BY DEF Threads, AllSteps
    <2> QED
      BY <1>3, <2>1, GotoStep DEF Threads
  <1>5. sound' \in SoundSet /\ target' \in Frames \union {NoSeek}
    <2>0. sound \in SoundSet /\ target \in Frames \union {NoSeek} /\ sound.seekTarget \in Frames \union {NoSeek}
      BY DEF Shape, TypeOK, SoundSet
    <2>1. sound' \in SoundSet
      <3>1. CASE UNCHANGED sound
        BY <2>0, <3>1
      <3>2. CASE StopAtEnd \/ ClearTarget \/ MarkEnd
        BY <2>0, <3>2 DEF StopAtEnd, ClearTarget, BeginRead, MarkEnd, SoundSet
      <3> QED
        BY <3>1, <3>2 DEF AudioQuiet, SeekToTarget, BeginPass, CheckState, CheckEnd, LoadTarget, BeginRead,
           Map, CheckDecoder, ReadMore, HaveEnough, EndPass, EndOfRange
    <2>2. target' \in Frames \union {NoSeek}
      BY <2>0 DEF AudioQuiet, SeekToTarget, BeginPass, CheckState, CheckEnd, StopAtEnd, LoadTarget, ClearTarget, BeginRead,
           Map, CheckDecoder, MarkEnd, ReadMore, HaveEnough, EndPass, EndOfRange, readVars
    <2> QED
      BY <2>1, <2>2
  <1>6. mapped' \in 0 .. PageSize /\ got' \in BOOLEAN /\ empty' \in BOOLEAN /\ looping' \in BOOLEAN
    <2>0. mapped \in 0 .. PageSize /\ got \in BOOLEAN /\ empty \in BOOLEAN /\ looping \in BOOLEAN
      BY DEF Shape, TypeOK
    <2>1. got' \in BOOLEAN /\ empty' \in BOOLEAN /\ looping' \in BOOLEAN
      <3>1. CASE BeginRead \/ EndOfRange \/ EndPass
        BY <2>0, <3>1 DEF BeginRead, EndOfRange, EndPass
      <3>2. CASE UNCHANGED <<got, empty, looping>>
        BY <2>0, <3>2
      <3> QED
        BY <3>1, <3>2 DEF AudioQuiet, SeekToTarget, BeginPass, CheckState, CheckEnd, StopAtEnd, LoadTarget, ClearTarget,
           Map, CheckDecoder, MarkEnd, ReadMore, HaveEnough, readVars
    <2>2. mapped' \in 0 .. PageSize
      <3>1. CASE Map
        <4>1. Len(stream.data[stream.page]) \in Nat /\ Len(stream.data[stream.page]) <= PageSize /\ stream.rel \in 0 .. PageSize - 1
          BY DEF Shape, TypeOK, StreamSet
        <4>2. Available \in Int /\ Available <= PageSize
          BY <4>1 DEF Available
        <4> QED
          BY <2>0, <3>1, <4>1, <4>2 DEF Map
      <3>2. CASE ~Map
        BY <2>0, <3>2 DEF AudioQuiet, SeekToTarget, BeginPass, CheckState, CheckEnd, StopAtEnd, LoadTarget, ClearTarget, BeginRead,
           CheckDecoder, MarkEnd, ReadMore, HaveEnough, EndPass, EndOfRange, readVars
      <3> QED
        BY <3>1, <3>2
    <2> QED
      BY <2>1, <2>2
  <1>7. held' \subseteq {"sound"}
    BY DEF AudioQuiet, SeekToTarget, BeginPass, CheckState, CheckEnd, StopAtEnd, LoadTarget, ClearTarget, BeginRead,
           Map, CheckDecoder, MarkEnd, ReadMore, HaveEnough, EndPass, EndOfRange, gateVars, Gate!Take, Gate!Drop,
           Shape, TypeOK
  <1>8. Shape'
    BY <1>1, <1>4, <1>5, <1>6, <1>7 DEF Shape, TypeOK, AllSteps, AudioSet
  <1>9. AudioInv' /\ OutboxInv' /\ CallerInv'
    <2>0. pc \in [Threads -> AllSteps] /\ sound \in SoundSet /\ "audio" \in Threads
      BY DEF Shape, TypeOK, AllSteps, Threads
    <2>1. CallerInv'
      BY <1>1, <1>4 DEF CallerInv, Loading, Cpc
    <2>2. CASE SeekToTarget \/ EndOfRange
      <3>1. UNCHANGED <<sound, held, target>> \/ (UNCHANGED <<sound, held>> /\ EndOfRange)
        BY <2>2 DEF SeekToTarget, EndOfRange, gateVars, readVars
      <3>2. /\ pc["audio"] \in {"seek", "ended"}
            /\ pc'["audio"] \in {"clear", "map", "more", "mark_end"}
        BY <2>2, <2>0, <1>a, <1>b DEF SeekToTarget, EndOfRange, SeekStream, OnFrame, Goto
      <3> QED
        BY <1>1, <1>4, <2>1, <3>1, <3>2 DEF AudioInv, OutboxInv, Cpc, Apc, Reading
    <2>3. CASE BeginPass \/ EndPass
      BY <2>3, <2>0, <2>1, <1>1, <1>4 DEF BeginPass, EndPass, Gate!Take, Gate!Drop, Goto, AudioInv, OutboxInv, Cpc, Apc, Reading
    <2>4. CASE CheckState \/ CheckEnd \/ StopAtEnd
      BY <2>4, <2>0, <2>1, <1>1, <1>4 DEF CheckState, CheckEnd, StopAtEnd, Goto, AudioInv, OutboxInv, Cpc, Apc, Reading, gateVars, readVars, SoundSet
    <2>5. CASE LoadTarget \/ ClearTarget \/ BeginRead
      BY <2>5, <2>0, <2>1, <1>1, <1>4 DEF LoadTarget, ClearTarget, BeginRead, Goto, AudioInv, OutboxInv, Cpc, Apc, Reading, gateVars, SoundSet
    <2>6. CASE Map
      BY <2>6, <2>0, <2>1, <1>1, <1>4 DEF Map, Goto, AudioInv, OutboxInv, Cpc, Apc, Reading, gateVars
    <2>7. CASE CheckDecoder \/ MarkEnd \/ ReadMore \/ HaveEnough
      <3>1. UNCHANGED held /\ (UNCHANGED sound \/ MarkEnd)
        BY <2>7 DEF CheckDecoder, MarkEnd, ReadMore, HaveEnough, gateVars
      <3>2. /\ pc["audio"] \in {"decoder_end", "mark_end", "more"} /\ pc'["audio"] \in {"ended", "leave", "map", "read"}
            /\ MarkEnd => pc'["audio"] = "leave" /\ sound'.atEnd
        BY <2>7, <2>0 DEF CheckDecoder, MarkEnd, ReadMore, HaveEnough, Goto, SoundSet
      <3> QED
        BY <1>1, <1>4, <2>1, <3>1, <3>2 DEF AudioInv, OutboxInv, Cpc, Apc, Reading
    <2> QED
      BY <2>1, <2>2, <2>3, <2>4, <2>5, <2>6, <2>7 DEF AudioQuiet
  <1>10. WorkerInv' /\ JobsInv' /\ SeeksInv' /\ PagesInv' /\ SeeksLeft' = SeeksLeft
    BY <1>1, <1>4, JobsQuiet
  <1>11. CopyInv'
    <2> SUFFICES ASSUME pc'["audio"] = "copy"
                 PROVE  /\ SeeksLeft = {} /\ stream.valid[stream.page]
                        /\ mapped' > 0 /\ stream.rel + mapped' <= Len(stream.data[stream.page])
      BY <1>1, <1>10 DEF CopyInv, Apc
    <2>1. Map
      <3>1. CASE SeekToTarget \/ EndOfRange
        BY <3>1, <1>a, <1>b DEF SeekToTarget, EndOfRange, SeekStream, OnFrame, Goto, Shape, Threads
      <3> QED
        BY <3>1 DEF AudioQuiet, BeginPass, CheckState, CheckEnd, StopAtEnd, LoadTarget, ClearTarget, BeginRead,
           CheckDecoder, MarkEnd, ReadMore, HaveEnough, EndPass, Goto, Shape, Threads
    <2>2. stream.result = "success" /\ ~(stream.seeks > 0) /\ Available # 0 /\ mapped' \in 1 .. Available
      BY <2>1, <1>4 DEF Map, Goto, Shape, Threads
    <2>3. SeeksLeft = {}
      BY <2>2, SeeksCount DEF Shape, TypeOK, StreamSet
    <2>4. Len(stream.data[stream.page]) \in Nat /\ stream.rel \in 0 .. PageSize - 1
      BY DEF Shape, TypeOK, StreamSet
    <2> QED
      BY <2>2, <2>3, <2>4 DEF Available
  <1> QED
    BY <1>8, <1>9, <1>10, <1>11

-----------------------------------------------------------------------------
(***************************************************************************)
(* The line grows at its end.                                              *)
(***************************************************************************)
\* The job in hand is the first that is pending.
LEMMA HandFirst ==
    ASSUME IInv
    PROVE  /\ Wpc # "idle" /\ ~stray => Pending # <<>> /\ Len(Pending) >= 1 /\ Pending[1] = job /\ job \in JobSet
           /\ Over(1) => Pending # <<>>
           /\ ~Over(Len(Pending) + 1)
  <1>1. /\ job \in MaybeJob /\ queue \in Seq(JobSet) /\ Pending \in Seq(JobSet)
        /\ outbox["caller"] \in MaybeJob /\ outbox["audio"] \in MaybeJob
    BY JobTypes DEF IInv
  <1>2. Wpc # "idle" => job \in JobSet
    BY <1>1 DEF IInv, WorkerInv, MaybeJob
  <1>3. Wpc # "idle" /\ ~stray => Pending # <<>> /\ Pending[1] = job
    <2> SUFFICES ASSUME Wpc # "idle", ~stray PROVE Pending # <<>> /\ Pending[1] = job
      OBVIOUS
    <2>1. Pending = Line(job, queue, outbox["caller"], outbox["audio"], stray)
      BY PendingIsLine
    <2>2. stray = FALSE
      BY DEF IInv, Shape, TypeOK
    <2>3. Pending = Line(job, queue, outbox["caller"], outbox["audio"], FALSE)
      BY <2>1, <2>2
    <2>4. job \in JobSet
      BY <1>2
    <2>5. /\ Line(job, queue, outbox["caller"], outbox["audio"], FALSE) # <<>>
          /\ Line(job, queue, outbox["caller"], outbox["audio"], FALSE)[1] = job
      <3>1. \A h \in JobSet, q \in Seq(JobSet), c \in MaybeJob, a \in MaybeJob :
               Line(h, q, c, a, FALSE) # <<>> /\ Line(h, q, c, a, FALSE)[1] = h
        BY LineFinish
      <3> QED
        BY <1>1, <2>4, <3>1, Zenon
    <2> QED
      BY <2>3, <2>5
  <1>4. Pending # <<>> => Len(Pending) >= 1
    BY <1>1
  <1>5. Over(1) => Pending # <<>>
    BY <1>3 DEF Over
  <1>6. Over(Len(Pending) + 1) => Len(Pending) = 0 /\ Wpc # "idle" /\ ~stray
    BY <1>1 DEF Over
  <1> QED
    BY <1>2, <1>3, <1>4, <1>5, <1>6

LEMMA Grows ==
    ASSUME IInv, ~Closed, NEW x \in JobSet, Pending' = Append(Pending, x),
           x.order = stream.counter, stream'.counter = (stream.counter + 1) % OrderLimit,
           stream'.pointer = stream.pointer, Wpc' = Wpc, stray' = stray
    PROVE  /\ Pending' \in Seq(JobSet) /\ Len(Pending) \in Nat /\ Len(Pending') = Len(Pending) + 1
           /\ DOMAIN Pending = 1 .. Len(Pending) /\ DOMAIN Pending' = 1 .. Len(Pending) + 1
           /\ \A i \in DOMAIN Pending : i \in DOMAIN Pending' /\ Pending'[i] = Pending[i]
           /\ Pending'[Len(Pending) + 1] = x
           /\ \A i : Over(i)' = Over(i)
           /\ SeeksLeft' = SeeksLeft \union {i \in {Len(Pending) + 1} : x.kind = "seek"}
           /\ JobsInOrder'
  <1> USE Numbers
  <1> DEFINE n == Len(Pending)
  <1>1. Pending \in Seq(JobSet) /\ n \in Nat /\ DOMAIN Pending = 1 .. n
    BY JobTypes DEF IInv
  <1>2. Pending' \in Seq(JobSet) /\ Len(Pending') = n + 1 /\ DOMAIN Pending' = 1 .. n + 1
    BY <1>1
  <1>3. \A i \in 1 .. n : Pending'[i] = Pending[i]
    BY <1>1
  <1>4. Pending'[n + 1] = x
    BY <1>1
  <1>5. \A i : Over(i)' = Over(i)
    BY DEF Over
  <1>6. ~Over(n + 1)
    BY HandFirst
  <1>7. SeeksLeft' = SeeksLeft \union {i \in {n + 1} : x.kind = "seek"}
    <2>1. SeeksLeft' = {i \in 1 .. n + 1 : Pending'[i].kind = "seek" /\ ~Over(i)}
      BY <1>2, <1>5 DEF SeeksLeft, Kind
    <2>2. SeeksLeft = {i \in 1 .. n : Pending[i].kind = "seek" /\ ~Over(i)}
      BY <1>1 DEF SeeksLeft, Kind
    <2> HIDE DEF n
    <2>3. SeeksLeft' \subseteq SeeksLeft \union {i \in {n + 1} : x.kind = "seek"}
      BY <1>1, <1>3, <1>4, <2>1, <2>2
    <2>4. SeeksLeft \union {i \in {n + 1} : x.kind = "seek"} \subseteq SeeksLeft'
      BY <1>1, <1>3, <1>4, <1>6, <2>1, <2>2
    <2> QED
      BY <2>3, <2>4
  <1>8. JobsInOrder'
    <2>1. /\ \A i \in 1 .. n : Pending[i].order = (stream.pointer + i - 1) % OrderLimit
          /\ stream.counter = (stream.pointer + n) % OrderLimit
          /\ stream.pointer \in Nat
      <3>1. /\ \A i \in DOMAIN Pending : Pending[i].order = (stream.pointer + i - 1) % OrderLimit
            /\ stream.counter = (stream.pointer + Len(Pending)) % OrderLimit
        BY DEF IInv, JobsInv, JobsInOrder
      <3>2. stream.pointer \in Nat
        BY DEF IInv, Shape, TypeOK, StreamSet
      <3> QED
        BY <1>1, <3>1, <3>2
    <2>2. stream'.counter = (stream.pointer + n + 1) % OrderLimit
      <3> DEFINE a == stream.pointer + n
      <3>1. a \in Int
        BY <1>1, <2>1
      <3> HIDE DEF a
      <3>2. ((a % OrderLimit) + 1) % OrderLimit = (a + 1) % OrderLimit
        <4>1. OrderLimit \in Nat \ {0} /\ 1 \in Int
          OBVIOUS
        <4> QED
          BY ONLY <3>1, <4>1, ModAdd
      <3> QED
        BY <2>1, <3>2 DEF a
    <2> HIDE DEF n
    <2>3. \A i \in 1 .. n + 1 : Pending'[i].order = (stream'.pointer + i - 1) % OrderLimit
      <3> SUFFICES ASSUME NEW i \in 1 .. n + 1 PROVE Pending'[i].order = (stream.pointer + i - 1) % OrderLimit
        OBVIOUS
      <3>1. CASE i = n + 1
        <4>1. stream.pointer + i - 1 = stream.pointer + n
          BY <1>1, <2>1, <3>1
        <4> QED
          BY <1>4, <2>1, <3>1, <4>1
      <3>2. CASE i \in 1 .. n
        BY <1>3, <2>1, <3>2
      <3> QED
        BY <1>1, <3>1, <3>2
    <2>4. stream'.counter = (stream'.pointer + Len(Pending')) % OrderLimit
      <3>1. Len(Pending') = n + 1 /\ stream'.pointer = stream.pointer
        BY <1>2
      <3>2. stream.pointer + n + 1 = stream.pointer + (n + 1)
        BY <1>1, <2>1
      <3> QED
        BY <2>2, <3>1, <3>2
    <2> QED
      BY <1>2, <2>3, <2>4 DEF JobsInOrder
  <1> QED
    BY <1>1, <1>2, <1>3, <1>4, <1>5, <1>7, <1>8

\* The line stays in order when a job for a page or a seek comes.
LEMMA JobsGrow ==
    ASSUME IInv, stream.result = "success", stream'.result = "success",
           Cpc \notin {"post_load", "await_load", "post_free", "await_free"},
           Cpc' \notin {"post_load", "await_load", "post_free", "await_free"},
           NEW x \in JobSet, Pending' = Append(Pending, x), x.kind \in {"page", "seek"},
           x.kind = "page" => x.arg \in Pages, x.kind = "seek" => x.arg \in Frames,
           x.order = stream.counter, stream'.counter = (stream.counter + 1) % OrderLimit,
           stream'.pointer = stream.pointer, Wpc' = Wpc, stray' = stray
    PROVE  /\ JobsInv'
           /\ Len(Pending) \in Nat
           /\ DOMAIN Pending = 1 .. Len(Pending) /\ DOMAIN Pending' = 1 .. Len(Pending) + 1
           /\ \A i \in DOMAIN Pending : Pending'[i] = Pending[i]
           /\ Pending'[Len(Pending) + 1] = x
           /\ \A i : Over(i)' = Over(i)
           /\ ~Over(Len(Pending) + 1)
           /\ SeeksLeft' = SeeksLeft \union {i \in {Len(Pending) + 1} : x.kind = "seek"}
  <1>1. ~Closed /\ ~Closed' /\ ~Loading /\ ~Loading'
    BY DEF Closed, Loading, Cpc
  <1>2. /\ Pending' \in Seq(JobSet) /\ Len(Pending) \in Nat
        /\ DOMAIN Pending = 1 .. Len(Pending) /\ DOMAIN Pending' = 1 .. Len(Pending) + 1
        /\ \A i \in DOMAIN Pending : Pending'[i] = Pending[i]
        /\ Pending'[Len(Pending) + 1] = x
        /\ \A i : Over(i)' = Over(i)
        /\ SeeksLeft' = SeeksLeft \union {i \in {Len(Pending) + 1} : x.kind = "seek"}
        /\ JobsInOrder'
    BY <1>1, Grows
  <1>3. ~Over(Len(Pending) + 1)
    BY HandFirst
  <1>4. JobsInv'
    <2>0. PICK n \in Nat : n = Len(Pending)
      BY <1>2
    <2>1. \A i \in 1 .. n + 1 : i \in 1 .. n \/ i = n + 1
      BY <2>0
    <2>2. /\ \A i \in 1 .. n : Kind(i) = "page" => Pending[i].arg \in Pages
          /\ \A i \in 1 .. n : Kind(i) = "seek" => Pending[i].arg \in Frames
          /\ \A i \in 1 .. n : Kind(i) = "load" => i = 1 /\ Over(1)
          /\ \A i \in 1 .. n : Kind(i) # "free"
      BY <1>1, <1>2, <2>0 DEF IInv, JobsInv
    <2>3. \A i \in 1 .. n : Kind(i)' = Kind(i)
      BY <1>2, <2>0 DEF Kind
    <2>4. Kind(n + 1)' = x.kind
      BY <1>2, <2>0 DEF Kind
    <2>5. \A i \in 1 .. n + 1 : Kind(i)' = "page" => Pending'[i].arg \in Pages
      BY <1>2, <2>0, <2>1, <2>2, <2>3, <2>4
    <2>6. \A i \in 1 .. n + 1 : Kind(i)' = "seek" => Pending'[i].arg \in Frames
      BY <1>2, <2>0, <2>1, <2>2, <2>3, <2>4
    <2>7. \A i \in 1 .. n + 1 : Kind(i)' = "load" => i = 1 /\ Over(1)'
      BY <1>2, <2>0, <2>1, <2>2, <2>3, <2>4
    <2>8. \A i \in 1 .. n + 1 : Kind(i)' # "free"
      BY <2>1, <2>2, <2>3, <2>4
    <2>9. DOMAIN Pending' = 1 .. n + 1
      BY <1>2, <2>0
    <2> QED
      BY <1>1, <1>2, <2>5, <2>6, <2>7, <2>8, <2>9 DEF JobsInv
  <1> QED
    BY <1>2, <1>3, <1>4

\* A seek to the cursor is the last of the pending jobs.
Sought ==
    /\ Len(Pending) \in Nat /\ DOMAIN Pending' = 1 .. Len(Pending) + 1
    /\ SeeksLeft' = SeeksLeft \union {Len(Pending) + 1}
    /\ Pending'[Len(Pending) + 1].arg = stream'.cursor
    /\ stream'.result = "success" /\ stream'.rel = 0 /\ stream'.page = 0
    /\ Wpc' = Wpc

\* A seek that is numbered leaves nothing in the pages, and comes after every
\* page job.
LEMMA SeekKeeps ==
    ASSUME IInv, stream.result = "success",
           outbox["caller"] = NoJob, outbox["audio"] = NoJob,
           Cpc \notin {"post_load", "await_load", "post_free", "await_free"},
           NEW t \in {"caller", "audio"}, NEW frame \in Frames, NEW post, NEW skip,
           t = "caller" => post = "post_rewind", t = "audio" => post \in {"post_seek", "post_loop"},
           SeekStream(t, frame, post, skip), ~OnFrame(frame),
           UNCHANGED <<queue, hand, stray, done, filling>>
    PROVE  /\ pc' \in [Threads -> AllSteps] /\ pc'[t] = post /\ \A u \in Threads \ {t} : pc'[u] = pc[u]
           /\ outbox' \in [Threads -> MaybeJob] /\ OutboxInv'
           /\ stream' \in StreamSet /\ stream'.result = "success"
           /\ \A p \in Pages : Len(stream'.data[p]) <= PageSize
           /\ WorkerInv' /\ JobsInv' /\ SeeksInv' /\ PagesInv' /\ Sought
  <1> USE Numbers
  <1>1. /\ stream' = [Ordered(stream) EXCEPT
                          !.seeks = @ + 1, !.cursor = Wrap(frame), !.rel = 0, !.page = 0,
                          !.valid = [p \in Pages |-> FALSE], !.data = NoPages, !.decoderAtEnd = FALSE]
        /\ outbox' = [outbox EXCEPT ![t] = Job("seek", frame)]
        /\ Goto(t, post)
    BY DEF SeekStream, OnFrame
  <1>2. stream \in StreamSet /\ outbox \in [Threads -> MaybeJob] /\ pc \in [Threads -> AllSteps]
    BY DEF IInv, Shape, TypeOK, MaybeJob, AllSteps
  <1>3. /\ pc' \in [Threads -> AllSteps] /\ pc'[t] = post /\ \A u \in Threads \ {t} : pc'[u] = pc[u]
    <2>1. t \in Threads /\ post \in AllSteps
      BY DEF Threads, AllSteps, CallerSet, CallerSteps, AudioSet, Reading
    <2> QED
      BY <1>1, <2>1, GotoStep DEF IInv
  <1>4. Job("seek", frame) \in JobSet /\ Job("seek", frame).kind = "seek"
        /\ Job("seek", frame).arg = frame /\ Job("seek", frame).order = stream.counter
    BY <1>2 DEF Job, JobSet, StreamSet
  <1>5. PICK x \in JobSet : x = Job("seek", frame) /\ x.kind = "seek" /\ x.arg = frame /\ x.order = stream.counter
    BY <1>4
  <1>6. outbox' = [outbox EXCEPT ![t] = x] /\ x \in MaybeJob /\ x # NoJob
    BY <1>1, <1>5 DEF MaybeJob
  <1>7. outbox' \in [Threads -> MaybeJob] /\ outbox'[t] = x /\ \A u \in Threads \ {t} : outbox'[u] = outbox[u]
    BY <1>2, <1>6 DEF Threads
  <1>8. Wpc' = Wpc
    BY <1>3 DEF Wpc, Threads
  <1>9. Pending' = Append(Pending, x)
    <2>1. job \in MaybeJob /\ queue \in Seq(JobSet)
      BY JobTypes DEF IInv
    <2>2. Pending = Line(job, queue, NoJob, NoJob, stray)
      BY PendingIsLine
    <2>3. Pending' = Line(job, queue, outbox'["caller"], outbox'["audio"], stray)
      <3>1. Pending' = Line(job', queue', outbox'["caller"], outbox'["audio"], stray')
        BY DEF Pending, InHand, Posting, Line, job
      <3>2. job' = job /\ queue' = queue /\ stray' = stray
        BY DEF job
      <3> QED
        BY <3>1, <3>2
    <2>4. /\ Line(job, queue, x, NoJob, stray) = Append(Line(job, queue, NoJob, NoJob, stray), x)
          /\ Line(job, queue, NoJob, x, stray) = Append(Line(job, queue, NoJob, NoJob, stray), x)
      <3>1. \A h \in MaybeJob, q \in Seq(JobSet) : \A s :
               /\ Line(h, q, x, NoJob, s) = Append(Line(h, q, NoJob, NoJob, s), x)
               /\ Line(h, q, NoJob, x, s) = Append(Line(h, q, NoJob, NoJob, s), x)
        BY LinePut
      <3> QED
        BY <2>1, <3>1, Zenon
    <2>5. \/ outbox'["caller"] = x /\ outbox'["audio"] = NoJob
          \/ outbox'["caller"] = NoJob /\ outbox'["audio"] = x
      BY <1>7 DEF Threads
    <2> QED
      BY <2>2, <2>3, <2>4, <2>5
  <1>10. Wrap(frame) \in 0 .. Total
    BY DEF Frames, Wrap
  <1>11. /\ stream' \in StreamSet /\ stream'.result = "success" /\ stream'.seeks = stream.seeks + 1
         /\ stream'.cursor = frame /\ stream'.rel = 0 /\ stream'.page = 0
         /\ \A p \in Pages : stream'.data[p] = <<>>
         /\ stream'.counter = (stream.counter + 1) % OrderLimit /\ stream'.pointer = stream.pointer
    <2>1. NoPages \in [Pages -> Seq(Frames)] /\ 0 \in Pages /\ [p \in Pages |-> FALSE] \in [Pages -> BOOLEAN]
      BY DEF NoPages, Pages
    <2>2. (stream.counter + 1) % OrderLimit \in 0 .. OrderLimit - 1 /\ stream.seeks + 1 \in Nat /\ 0 \in 0 .. PageSize - 1
      BY <1>2 DEF StreamSet
    <2>3. stream' = [stream EXCEPT !.counter = (@ + 1) % OrderLimit, !.seeks = @ + 1, !.cursor = Wrap(frame), !.rel = 0,
                        !.page = 0, !.valid = [p \in Pages |-> FALSE], !.data = NoPages, !.decoderAtEnd = FALSE]
      BY <1>1, <1>2 DEF Ordered, StreamSet
    <2>4. stream' \in StreamSet
      BY <1>2, <1>10, <2>1, <2>2, <2>3 DEF StreamSet
    <2>5. /\ stream'.result = "success" /\ stream'.seeks = stream.seeks + 1 /\ stream'.data = NoPages
          /\ stream'.cursor = Wrap(frame) /\ stream'.rel = 0 /\ stream'.page = 0
          /\ stream'.counter = (stream.counter + 1) % OrderLimit /\ stream'.pointer = stream.pointer
      BY <1>2, <2>3 DEF StreamSet
    <2>6. Wrap(frame) = frame
      BY DEF Frames, Wrap
    <2> QED
      BY <2>4, <2>5, <2>6 DEF NoPages
  <1>12. Cpc' \notin {"post_load", "await_load", "post_free", "await_free"}
    BY <1>3 DEF Cpc, Threads
  <1>13. /\ JobsInv'
         /\ Len(Pending) \in Nat
         /\ DOMAIN Pending = 1 .. Len(Pending) /\ DOMAIN Pending' = 1 .. Len(Pending) + 1
         /\ \A i \in DOMAIN Pending : Pending'[i] = Pending[i]
         /\ Pending'[Len(Pending) + 1] = x
         /\ \A i : Over(i)' = Over(i)
         /\ ~Over(Len(Pending) + 1)
         /\ SeeksLeft' = SeeksLeft \union {Len(Pending) + 1}
    <2>1. {i \in {Len(Pending) + 1} : x.kind = "seek"} = {Len(Pending) + 1}
      BY <1>5
    <2> QED
      BY <1>5, <1>8, <1>9, <1>11, <1>12, <2>1, JobsGrow
  <1>14. WorkerInv'
    <2>1. ~stray
      BY DEF IInv, WorkerInv, CallerInv, Loading, Cpc
    <2>2. job' = job
      BY DEF job
    <2> QED
      BY <1>8, <2>1, <2>2 DEF IInv, WorkerInv
  <1>15. OutboxInv'
    <2>1. CASE t = "caller"
      <3>1. pc'["caller"] = "post_rewind" /\ pc'["audio"] = pc["audio"] /\ outbox'["audio"] = NoJob /\ outbox'["worker"] = NoJob
        BY <1>3, <1>7, <2>1 DEF Threads, IInv, OutboxInv
      <3> QED
        BY <1>6, <1>7, <2>1, <3>1 DEF IInv, OutboxInv, Cpc, Apc
    <2>2. CASE t = "audio"
      <3>1. pc'["audio"] \in {"post_seek", "post_loop"} /\ pc'["caller"] = pc["caller"] /\ outbox'["caller"] = NoJob /\ outbox'["worker"] = NoJob
        BY <1>3, <1>7, <2>2 DEF Threads, IInv, OutboxInv
      <3> QED
        BY <1>6, <1>7, <2>2, <3>1 DEF IInv, OutboxInv, Cpc, Apc
    <2> QED
      BY <2>1, <2>2
  <1>16. SeeksInv'
    <2>1. IsFiniteSet(SeeksLeft) /\ Len(Pending) + 1 \notin SeeksLeft
      <3>1. IsFiniteSet(SeeksLeft)
        BY SeeksCount DEF IInv
      <3>2. Len(Pending) + 1 \notin DOMAIN Pending
        BY <1>13
      <3> QED
        BY <3>1, <3>2 DEF SeeksLeft
    <2>2. Cardinality(SeeksLeft') = Cardinality(SeeksLeft) + 1
      <3>1. \A S, y : IsFiniteSet(S) /\ y \notin S => Cardinality(S \union {y}) = Cardinality(S) + 1
        BY FS_AddElement
      <3> QED
        BY <1>13, <2>1, <3>1
    <2>3. Cardinality(SeeksLeft) \in Nat /\ Cardinality(SeeksLeft) = stream.seeks
      BY SeeksCount DEF IInv, SeeksInv
    <2> QED
      BY <1>11, <2>2, <2>3 DEF SeeksInv
  <1>17. PagesInv'
    <2>1. Len(Pending) + 1 \in SeeksLeft' /\ SeeksLeft' # {}
      BY <1>13
    <2>2. PICK n \in Nat : n = Len(Pending)
      BY <1>13
    <2>3. Kind(n + 1)' = "seek"
      BY <1>5, <1>13, <2>2 DEF Kind
    <2>4. \A i \in DOMAIN Pending' : PageJob(i)' => i < n + 1
      <3> SUFFICES ASSUME NEW i \in 1 .. n + 1, PageJob(i)' PROVE i < n + 1
        BY <1>13, <2>2
      <3>1. i # n + 1
        BY <2>3 DEF PageJob
      <3> QED
        BY <2>2, <3>1
    <2> QED
      BY <2>1, <2>2, <2>4 DEF PagesInv
  <1>18. \A p \in Pages : Len(stream'.data[p]) <= PageSize
    BY <1>11
  <1>19. Sought
    BY <1>5, <1>8, <1>11, <1>13 DEF Sought
  <1> QED
    BY <1>3, <1>7, <1>11, <1>13, <1>14, <1>15, <1>16, <1>17, <1>18, <1>19

\* A step that seeks and has something to do.
SeekStep ==
    \/ Start /\ sound.atEnd /\ ~OnFrame(0)
    \/ SeekToTarget /\ ~OnFrame(target)
    \/ EndOfRange /\ looping /\ ~empty /\ ~OnFrame(sound.start)

LEMMA SeekStepKeeps ==
    ASSUME IInv, SeekStep
    PROVE  IInv' /\ Sought /\ UNCHANGED <<hand, stray>>
  <1> USE Numbers
  <1>0. /\ outbox["caller"] = NoJob \/ outbox["audio"] = NoJob
        /\ Apc # "idle" => stream.result = "success" /\ Cpc \notin {"post_load", "await_load", "close", "post_free", "await_free"}
        /\ Apc \in Reading => Cpc \notin {"post_rewind", "restart"}
    BY Apart DEF IInv
  <1>1. /\ UNCHANGED <<gate, held, queue, hand, sound, target, mapped, got, filling, done, stray>>
        /\ empty' \in BOOLEAN /\ looping' \in BOOLEAN
    BY DEF SeekStep, Start, SeekToTarget, EndOfRange, gateVars, jobVars, readVars, IInv, Shape, TypeOK
  <1>2. PICK t \in {"caller", "audio"}, frame \in Frames, post \in {"post_rewind", "post_seek", "post_loop"},
             skip \in {"restart", "clear", "map"} :
           /\ SeekStream(t, frame, post, skip) /\ ~OnFrame(frame)
           /\ t = "caller" => post = "post_rewind" /\ pc["caller"] = "start" /\ sound.atEnd
           /\ t = "audio" => post \in {"post_seek", "post_loop"} /\ pc["audio"] \in {"seek", "ended"}
    <2>1. CASE Start /\ sound.atEnd /\ ~OnFrame(0)
      BY <2>1 DEF Start
    <2>2. CASE SeekToTarget /\ ~OnFrame(target)
      <3>1. target \in Frames
        BY <2>2 DEF SeekToTarget, IInv, AudioInv, Apc, Shape, TypeOK
      <3> QED
        BY <2>2, <3>1 DEF SeekToTarget
    <2>3. CASE EndOfRange /\ looping /\ ~empty /\ ~OnFrame(sound.start)
      <3>1. sound.start \in Frames
        BY <2>3 DEF IInv, Shape, TypeOK, SoundSet
      <3> QED
        BY <2>3, <3>1 DEF EndOfRange
    <2> QED
      BY <2>1, <2>2, <2>3 DEF SeekStep
  <1>3. /\ stream.result = "success" /\ outbox["caller"] = NoJob /\ outbox["audio"] = NoJob
        /\ Cpc \notin {"post_load", "await_load", "post_free", "await_free"}
    <2>1. CASE t = "caller"
      BY <1>0, <1>2, <2>1 DEF IInv, CallerInv, OutboxInv, AudioInv, Cpc, Apc, Reading
    <2>2. CASE t = "audio"
      BY <1>0, <1>2, <2>2 DEF IInv, OutboxInv, Cpc, Apc, Reading
    <2> QED
      BY <2>1, <2>2
  <1>4. /\ pc' \in [Threads -> AllSteps] /\ pc'[t] = post /\ \A u \in Threads \ {t} : pc'[u] = pc[u]
        /\ outbox' \in [Threads -> MaybeJob] /\ OutboxInv'
        /\ stream' \in StreamSet /\ stream'.result = "success"
        /\ \A p \in Pages : Len(stream'.data[p]) <= PageSize
        /\ WorkerInv' /\ JobsInv' /\ SeeksInv' /\ PagesInv' /\ Sought
    BY <1>1, <1>2, <1>3, SeekKeeps
  <1>5. /\ pc'["worker"] = pc["worker"]
        /\ t = "caller" => pc'["caller"] = "post_rewind" /\ pc'["audio"] = pc["audio"]
        /\ t = "audio" => pc'["audio"] \in {"post_seek", "post_loop"} /\ pc'["caller"] = pc["caller"]
    BY <1>2, <1>4 DEF Threads
  <1>6. Shape'
    <2>1. /\ pc'["caller"] \in CallerSteps
          /\ pc'["audio"] \in Reading \union {"idle", "state", "end", "stop", "target", "leave"}
          /\ pc'["worker"] \in Processing \union {"idle"}
      BY <1>5 DEF CallerSteps, Reading, IInv, Shape, TypeOK
    <2>2. TypeOK'
      BY <1>1, <1>4, <2>1 DEF IInv, Shape, TypeOK, MaybeJob
    <2> QED
      BY <1>1, <1>4, <2>2 DEF IInv, Shape, AllSteps
  <1>7. CallerInv' /\ AudioInv'
    <2>1. CASE t = "caller"
      BY <1>1, <1>2, <1>3, <1>4, <1>5, <2>1 DEF IInv, CallerInv, AudioInv, Loading, Cpc, Apc, Reading
    <2>2. CASE t = "audio"
      <3>1. CallerInv'
        BY <1>1, <1>2, <1>3, <1>4, <1>5, <2>2 DEF IInv, CallerInv, Loading, Cpc
      <3>2. AudioInv'
        BY <1>1, <1>2, <1>3, <1>4, <1>5, <2>2 DEF IInv, AudioInv, Cpc, Apc, Reading
      <3> QED
        BY <3>1, <3>2
    <2> QED
      BY <2>1, <2>2
  <1>8. CopyInv'
    <2>1. pc'["audio"] # "copy"
      BY <1>2, <1>5 DEF IInv, AudioInv, Apc, Reading
    <2> QED
      BY <2>1 DEF CopyInv, Apc
  <1> QED
    BY <1>1, <1>4, <1>6, <1>7, <1>8 DEF IInv

-----------------------------------------------------------------------------
(***************************************************************************)
(* The line stays as it is.                                                *)
(***************************************************************************)
Freeing == Cpc = "post_free" \/ (Cpc = "await_free" /\ ~done)
LoadTold == Cpc = "await_load" /\ done
FirstOver == Wpc = "advance" /\ ~stray

LEMMA JobsSame ==
    ASSUME IInv, Pending' = Pending, stream'.result = stream.result, stream'.seeks = stream.seeks,
           stream'.valid = stream.valid, stream'.counter = stream.counter, stream'.pointer = stream.pointer,
           Loading' = Loading, Closed' = Closed, Freeing' => Freeing, LoadTold' => LoadTold, FirstOver' = FirstOver
    PROVE  JobsInv' /\ SeeksInv' /\ PagesInv' /\ SeeksLeft' = SeeksLeft
  <1>1. \A i : Kind(i)' = Kind(i) /\ Over(i)' = Over(i)
    BY DEF Kind, Over, FirstOver
  <1>2. SeeksLeft' = SeeksLeft
    BY <1>1 DEF SeeksLeft
  <1>3. JobsInv'
    <2>1. JobsInOrder'
      BY DEF IInv, JobsInv, JobsInOrder
    <2> QED
      BY <1>1, <2>1 DEF IInv, JobsInv, Freeing, LoadTold
  <1>4. SeeksInv'
    BY <1>2 DEF IInv, SeeksInv
  <1>5. PagesInv'
    <2>1. \A i : PageJob(i)' = PageJob(i)
      BY <1>1 DEF PageJob
    <2> QED
      BY <1>2, <2>1 DEF IInv, PagesInv
  <1> QED
    BY <1>2, <1>3, <1>4, <1>5

PostStep ==
    \/ Post("caller", "post_load", "await_load") \/ Post("caller", "post_free", "await_free")
    \/ Post("caller", "post_rewind", "restart") \/ Post("audio", "post_seek", "clear")
    \/ Post("audio", "post_loop", "map") \/ Post("audio", "post_page", "more")

LEMMA PostKeeps ==
    ASSUME IInv, PostStep
    PROVE  IInv' /\ Pending' = Pending
  <1> USE Numbers
  <1>0. /\ outbox["caller"] = NoJob \/ outbox["audio"] = NoJob
        /\ Apc \in Reading => Cpc \notin {"post_rewind", "restart"}
    BY Apart DEF IInv
  <1>1. PICK t \in {"caller", "audio"}, from \in AllSteps, to \in AllSteps :
           /\ Post(t, from, to)
           /\ t = "caller" => <<from, to>> \in {<<"post_load", "await_load">>, <<"post_free", "await_free">>, <<"post_rewind", "restart">>}
           /\ t = "audio" => <<from, to>> \in {<<"post_seek", "clear">>, <<"post_loop", "map">>, <<"post_page", "more">>}
    BY DEF PostStep, AllSteps, CallerSet, CallerSteps, AudioSet, Reading
  <1>2. /\ UNCHANGED <<gate, held, hand, sound, stream, target, mapped, got, empty, looping, filling, done, stray>>
        /\ pc[t] = from /\ queue' = Append(queue, outbox[t]) /\ outbox' = [outbox EXCEPT ![t] = NoJob]
        /\ Goto(t, to)
    BY <1>1 DEF Post, gateVars, readVars, Fifo!Put
  <1>3. /\ pc' \in [Threads -> AllSteps] /\ pc'[t] = to /\ \A u \in Threads \ {t} : pc'[u] = pc[u]
    <2>1. t \in Threads /\ to \in AllSteps
      BY <1>1 DEF Threads, AllSteps, CallerSet, CallerSteps, AudioSet, Reading
    <2> QED
      BY <1>2, <2>1, GotoStep DEF IInv
  <1>4. outbox \in [Threads -> MaybeJob] /\ outbox[t] # NoJob /\ outbox[t] \in JobSet
    <2>1. outbox \in [Threads -> MaybeJob] /\ t \in Threads
      BY DEF IInv, Shape, TypeOK, MaybeJob, Threads
    <2>2. outbox[t] # NoJob
      BY <1>1, <1>2 DEF IInv, OutboxInv, Cpc, Apc
    <2> QED
      BY <2>1, <2>2 DEF MaybeJob
  <1>5. PICK x \in JobSet : x = outbox[t]
    BY <1>4
  <1>6. /\ outbox' \in [Threads -> MaybeJob] /\ outbox'["caller"] = NoJob /\ outbox'["audio"] = NoJob
        /\ outbox'["worker"] = outbox["worker"]
    <2>1. outbox' \in [Threads -> MaybeJob] /\ outbox'[t] = NoJob /\ \A u \in Threads \ {t} : outbox'[u] = outbox[u]
      BY <1>2, <1>4 DEF MaybeJob, Threads
    <2> QED
      BY <1>0, <1>4, <2>1 DEF Threads
  <1>7. Pending' = Pending
    <2>1. job \in MaybeJob /\ queue \in Seq(JobSet)
      BY JobTypes DEF IInv
    <2>2. Pending = Line(job, queue, outbox["caller"], outbox["audio"], stray)
      BY PendingIsLine
    <2>3. Pending' = Line(job, Append(queue, x), NoJob, NoJob, stray)
      <3>1. Pending' = Line(job', queue', outbox'["caller"], outbox'["audio"], stray')
        BY DEF Pending, InHand, Posting, Line, job
      <3>2. job' = job /\ queue' = Append(queue, x) /\ stray' = stray
        BY <1>2, <1>5 DEF job
      <3> QED
        BY <1>6, <3>1, <3>2
    <2>4. /\ Line(job, queue, x, NoJob, stray) = Line(job, Append(queue, x), NoJob, NoJob, stray)
          /\ Line(job, queue, NoJob, x, stray) = Line(job, Append(queue, x), NoJob, NoJob, stray)
      <3>1. \A h \in MaybeJob, q \in Seq(JobSet) : \A s :
               /\ Line(h, q, x, NoJob, s) = Append(Line(h, q, NoJob, NoJob, s), x)
               /\ Line(h, q, NoJob, x, s) = Append(Line(h, q, NoJob, NoJob, s), x)
               /\ Line(h, Append(q, x), NoJob, NoJob, s) = Append(Line(h, q, NoJob, NoJob, s), x)
        BY LinePut
      <3>2. /\ Line(job, queue, x, NoJob, stray) = Append(Line(job, queue, NoJob, NoJob, stray), x)
            /\ Line(job, queue, NoJob, x, stray) = Append(Line(job, queue, NoJob, NoJob, stray), x)
            /\ Line(job, Append(queue, x), NoJob, NoJob, stray) = Append(Line(job, queue, NoJob, NoJob, stray), x)
        BY <2>1, <3>1, Zenon
      <3> QED
        BY <3>2
    <2>5. \/ outbox["caller"] = x /\ outbox["audio"] = NoJob
          \/ outbox["caller"] = NoJob /\ outbox["audio"] = x
      BY <1>0, <1>4, <1>5
    <2> QED
      BY <2>2, <2>3, <2>4, <2>5
  <1>8. /\ pc'["worker"] = pc["worker"]
        /\ t = "caller" => /\ pc'["audio"] = pc["audio"]
                           /\ <<pc["caller"], pc'["caller"]>> \in {<<"post_load", "await_load">>, <<"post_free", "await_free">>, <<"post_rewind", "restart">>}
        /\ t = "audio" => /\ pc'["caller"] = pc["caller"]
                          /\ pc["audio"] \in {"post_seek", "post_loop", "post_page"} /\ pc'["audio"] \in {"clear", "map", "more"}
    BY <1>1, <1>2, <1>3 DEF Threads
  <1>9. Loading' = Loading /\ Freeing' = Freeing /\ LoadTold' = LoadTold /\ Closed' = Closed /\ FirstOver' = FirstOver
    <2>1. CASE t = "caller"
      <3>1. ~done
        BY <1>8, <2>1 DEF IInv, CallerInv, Cpc
      <3> QED
        BY <1>2, <1>8, <2>1, <3>1 DEF Loading, Freeing, LoadTold, Closed, FirstOver, Cpc, Wpc
    <2>2. CASE t = "audio"
      BY <1>2, <1>8, <2>2 DEF Loading, Freeing, LoadTold, Closed, FirstOver, Cpc, Wpc
    <2> QED
      BY <2>1, <2>2
  <1>10. JobsInv' /\ SeeksInv' /\ PagesInv' /\ SeeksLeft' = SeeksLeft
    BY <1>2, <1>7, <1>9, JobsSame
  <1>11. Shape'
    <2>1. /\ pc'["caller"] \in CallerSteps
          /\ pc'["audio"] \in Reading \union {"idle", "state", "end", "stop", "target", "leave"}
          /\ pc'["worker"] \in Processing \union {"idle"}
      BY <1>8 DEF CallerSteps, Reading, IInv, Shape, TypeOK
    <2>2. queue' \in Seq(JobSet)
      BY <1>2, <1>4 DEF IInv, Shape, TypeOK
    <2>3. TypeOK'
      BY <1>2, <1>6, <2>1, <2>2 DEF IInv, Shape, TypeOK, MaybeJob
    <2> QED
      BY <1>2, <1>3, <2>3 DEF IInv, Shape, AllSteps
  <1>12. WorkerInv'
    <2>1. job' = job
      BY <1>2 DEF job
    <2>2. Cpc = "idle" => Cpc' = "idle"
      BY <1>8 DEF Cpc
    <2> QED
      BY <1>2, <1>8, <1>9, <2>1, <2>2 DEF IInv, WorkerInv, Wpc
  <1>13. CallerInv' /\ OutboxInv' /\ AudioInv'
    <2>1. CASE t = "caller"
      BY <1>2, <1>6, <1>8, <1>0, <2>1, <1>4, <1>9 DEF IInv, CallerInv, AudioInv, OutboxInv, Cpc, Apc, Reading, Loading
    <2>2. CASE t = "audio"
      BY <1>2, <1>6, <1>8, <1>0, <2>2, <1>4 DEF IInv, CallerInv, AudioInv, OutboxInv, Cpc, Apc, Reading, Loading
    <2> QED
      BY <2>1, <2>2
  <1>14. CopyInv'
    BY <1>2, <1>8, <1>10 DEF IInv, CopyInv, Apc
  <1> QED
    BY <1>7, <1>10, <1>11, <1>12, <1>13, <1>14 DEF IInv

-----------------------------------------------------------------------------
(***************************************************************************)
(* A sound is loaded and unloaded.                                         *)
(***************************************************************************)
LEMMA NoStreamType == NoStream \in StreamSet /\ NoStream.result = "none" /\ NoStream.seeks = 0 /\ \A p \in Pages : NoStream.data[p] = <<>>
  <1>1. FreshStream \in StreamSet
    BY FreshStreamType
  <1>2. NoStream \in StreamSet /\ NoStream.result = "none"
    BY <1>1 DEF NoStream, StreamSet
  <1>3. NoStream.seeks = 0 /\ NoStream.data = NoPages
    BY DEF NoStream, FreshStream
  <1> QED
    BY <1>2, <1>3 DEF NoPages

\* With no stream there is no job.
LEMMA NothingLeft ==
    ASSUME IInv, Pending' = <<>>, stream' = NoStream, ~Loading', ~LoadTold', ~Freeing'
    PROVE  JobsInv' /\ SeeksInv' /\ PagesInv'
  <1>1. stream'.result = "none" /\ stream'.seeks = 0
    BY NoStreamType
  <1>2. Closed'
    BY <1>1 DEF Closed
  <1>3. JobsInv'
    BY <1>2 DEF JobsInv, JobsInOrder, LoadTold, Freeing
  <1>4. SeeksLeft' = {}
    BY DEF SeeksLeft
  <1>5. SeeksInv'
    <2>1. Cardinality(SeeksLeft') = 0
      BY <1>4, FS_EmptySet
    <2> QED
      BY <1>1, <2>1 DEF SeeksInv
  <1> QED
    BY <1>1, <1>3, <1>5 DEF PagesInv

\* While the bus is out no pass is going on, and nothing of a pass is posted.
LEMMA BusOut ==
    ASSUME IInv, gate["sound"] = "out"
    PROVE  Apc = "idle" /\ held = {} /\ outbox["audio"] = NoJob
  BY DEF IInv, AudioInv, OutboxInv

LEMMA LoadKeeps ==
    ASSUME IInv, Load
    PROVE  IInv'
  <1> USE Numbers
  <1>1. /\ pc["caller"] = "idle" /\ stream.result = "none" /\ sound' = FreshSound /\ stream' = Ordered(FreshStream)
        /\ outbox' = [outbox EXCEPT !["caller"] = [kind |-> "load", arg |-> 0, order |-> 0]]
        /\ Goto("caller", "post_load")
        /\ UNCHANGED <<gate, held, queue, hand, target, mapped, got, empty, looping, filling, done, stray>>
    BY DEF Load, Idle, gateVars, jobVars, readVars
  <1>2. gate["sound"] = "out" /\ ~done /\ outbox["caller"] = NoJob /\ Closed
    BY <1>1 DEF IInv, CallerInv, OutboxInv, Cpc, Closed
  <1>3. Apc = "idle" /\ held = {} /\ outbox["audio"] = NoJob
    BY <1>2, BusOut
  <1>4. Pending = <<>>
    BY <1>2 DEF IInv, JobsInv
  <1>5. /\ pc' \in [Threads -> AllSteps] /\ pc'["caller"] = "post_load"
        /\ pc'["audio"] = pc["audio"] /\ pc'["worker"] = pc["worker"]
    <2>1. "caller" \in Threads /\ "post_load" \in AllSteps
      BY DEF Threads, AllSteps, CallerSet, CallerSteps
    <2> QED
      BY <1>1, <2>1, GotoStep DEF IInv, Threads
  <1>6. PICK x \in JobSet : x = [kind |-> "load", arg |-> 0, order |-> 0] /\ x.kind = "load" /\ x.order = 0
    <2>1. [kind |-> "load", arg |-> 0, order |-> 0] \in JobSet
      BY DEF JobSet
    <2> QED
      BY <2>1
  <1>7. /\ outbox' \in [Threads -> MaybeJob] /\ outbox'["caller"] = x
        /\ outbox'["audio"] = NoJob /\ outbox'["worker"] = NoJob /\ x # NoJob
    BY <1>1, <1>3, <1>6 DEF IInv, Shape, TypeOK, MaybeJob, Threads, OutboxInv
  <1>8. Pending' = <<x>>
    <2>1. job \in MaybeJob /\ queue \in Seq(JobSet)
      BY JobTypes DEF IInv
    <2>2. Pending = Line(job, queue, NoJob, NoJob, stray)
      BY <1>2, <1>3, PendingIsLine
    <2>3. Pending' = Line(job, queue, x, NoJob, stray)
      <3>1. Pending' = Line(job', queue', outbox'["caller"], outbox'["audio"], stray')
        BY DEF Pending, InHand, Posting, Line, job
      <3>2. job' = job
        BY <1>1 DEF job
      <3> QED
        BY <1>1, <1>7, <3>1, <3>2
    <2>4. Line(job, queue, x, NoJob, stray) = Append(Line(job, queue, NoJob, NoJob, stray), x)
      <3>1. \A h \in MaybeJob, q \in Seq(JobSet) : \A s :
               Line(h, q, x, NoJob, s) = Append(Line(h, q, NoJob, NoJob, s), x)
        BY LinePut
      <3> QED
        BY <2>1, <3>1, Zenon
    <2>5. Append(<<>>, x) = <<x>>
      OBVIOUS
    <2> QED
      BY <1>4, <2>2, <2>3, <2>4, <2>5
  <1>9. /\ stream' \in StreamSet /\ stream'.result = "busy" /\ stream'.seeks = 0 /\ \A p \in Pages : stream'.data[p] = <<>>
        /\ stream'.pointer = 0 /\ stream'.counter = 1 % OrderLimit
    <2>1. FreshStream \in StreamSet
      BY FreshStreamType
    <2>2. (0 + 1) % OrderLimit \in 0 .. OrderLimit - 1 /\ 0 + 1 = 1
      OBVIOUS
    <2>3. FreshStream.counter = 0
      BY DEF FreshStream
    <2>4. stream' = [FreshStream EXCEPT !.counter = 1 % OrderLimit]
      BY <1>1, <2>2, <2>3 DEF Ordered
    <2>5. stream' \in StreamSet /\ stream'.counter = 1 % OrderLimit
      BY <2>1, <2>2, <2>4 DEF StreamSet
    <2>6. stream'.result = "busy" /\ stream'.seeks = 0 /\ stream'.data = NoPages /\ stream'.pointer = 0
      BY <2>4 DEF FreshStream
    <2> QED
      BY <2>5, <2>6 DEF NoPages
  <1>10. Loading' /\ ~Closed' /\ ~LoadTold' /\ ~Freeing' /\ ~Over(1)'
    <2>1. ~Over(1)
      BY <1>4, HandFirst
    <2>2. ~Over(1)'
      BY <1>1, <1>5, <2>1 DEF Over, Wpc
    <2> QED
      BY <1>5, <1>9, <2>2 DEF Loading, Closed, LoadTold, Freeing, Cpc
  <1>11. JobsInv'
    <2>1. Len(Pending') = 1 /\ DOMAIN Pending' = {1} /\ Pending'[1] = x /\ Pending' \in Seq(JobSet)
      BY <1>8
    <2>2. Kind(1)' = "load" /\ \A i \in {1} : Kind(i)' = "load"
      BY <1>6, <2>1 DEF Kind
    <2>3. JobsInOrder'
      <3>1. (0 + 1 - 1) % OrderLimit = 0 /\ (0 + 1) % OrderLimit = 1 % OrderLimit
        OBVIOUS
      <3>2. \A i \in {1} : Pending'[i].order = (stream'.pointer + i - 1) % OrderLimit
        BY <1>6, <1>9, <2>1, <3>1
      <3>3. stream'.counter = (stream'.pointer + Len(Pending')) % OrderLimit
        BY <1>9, <2>1, <3>1
      <3> QED
        BY <2>1, <3>2, <3>3 DEF JobsInOrder
    <2> QED
      BY <1>10, <2>1, <2>2, <2>3 DEF JobsInv, LoadTold, Freeing
  <1>12. SeeksInv' /\ PagesInv'
    <2>1. SeeksLeft' = {}
      BY <1>6, <1>8 DEF SeeksLeft, Kind
    <2>2. Cardinality(SeeksLeft') = 0
      BY <2>1, FS_EmptySet
    <2> QED
      BY <1>9, <2>2 DEF SeeksInv, PagesInv
  <1>13. Shape'
    <2>1. sound' \in SoundSet
      BY <1>1 DEF FreshSound, SoundSet
    <2>2. TypeOK'
      BY <1>1, <1>5, <1>7, <1>9, <2>1 DEF IInv, Shape, TypeOK, MaybeJob, CallerSteps
    <2>3. \A p \in Pages : Len(stream'.data[p]) <= PageSize
      BY <1>9
    <2> QED
      BY <1>1, <1>5, <2>2, <2>3 DEF IInv, Shape, AllSteps
  <1>14. CallerInv' /\ AudioInv' /\ CopyInv'
    BY <1>1, <1>2, <1>3, <1>5, <1>9, <1>10 DEF CallerInv, AudioInv, CopyInv, Loading, Cpc, Apc, Reading
  <1>15. OutboxInv'
    BY <1>3, <1>5, <1>7 DEF OutboxInv, Cpc, Apc
  <1>16. WorkerInv'
    <2>1. job' = job
      BY <1>1 DEF job
    <2> QED
      BY <1>1, <1>2, <1>5, <1>10, <2>1 DEF IInv, WorkerInv, Wpc
  <1> QED
    BY <1>11, <1>12, <1>13, <1>14, <1>15, <1>16 DEF IInv

LEMMA FinishLoadKeeps ==
    ASSUME IInv, FinishLoad
    PROVE  IInv'
  <1> USE Numbers
  <1>1. /\ pc["caller"] = "await_load" /\ done /\ done' = FALSE /\ Goto("caller", "idle")
        /\ UNCHANGED <<held, queue, hand, sound, outbox, target, mapped, got, empty, looping, filling>>
    BY DEF FinishLoad, jobVars, readVars, Gate!Attach, gateVars
  <1>2. gate["sound"] = "out" /\ stream.result \in {"success", "failed"} /\ ~stray
    BY <1>1 DEF IInv, CallerInv, WorkerInv, Cpc
  <1>3. Apc = "idle" /\ held = {} /\ outbox["audio"] = NoJob /\ outbox["caller"] = NoJob
    BY <1>1, <1>2, BusOut DEF IInv, OutboxInv, Cpc
  <1>4. /\ pc' \in [Threads -> AllSteps] /\ pc'["caller"] = "idle"
        /\ pc'["audio"] = pc["audio"] /\ pc'["worker"] = pc["worker"]
    <2>1. "caller" \in Threads /\ "idle" \in AllSteps
      BY DEF Threads, AllSteps, CallerSet, CallerSteps
    <2> QED
      BY <1>1, <2>1, GotoStep DEF IInv, Threads
  <1>5. ~Loading /\ ~Loading' /\ ~LoadTold' /\ ~Freeing' /\ ~Closed /\ LoadTold
    BY <1>1, <1>2, <1>4 DEF Loading, LoadTold, Freeing, Closed, Cpc
  <1>6. job' = job
    BY <1>1 DEF job
  <1>7. CASE stream.result = "success"
    <2>1. gate' = [gate EXCEPT !["sound"] = "in"] /\ UNCHANGED <<stream, stray>>
      BY <1>7 DEF FinishLoad, Gate!Attach
    <2>2. gate' \in [{"sound"} -> {"out", "in", "leaving"}] /\ gate'["sound"] = "in"
      BY <2>1 DEF IInv, Shape
    <2>3. Pending' = Pending
      BY <1>1, <1>6, <2>1 DEF Pending, InHand, Posting
    <2>4. Closed' = Closed /\ FirstOver' = FirstOver
      BY <1>4, <1>5, <1>7, <2>1 DEF Closed, FirstOver, Wpc, Cpc
    <2>5. JobsInv' /\ SeeksInv' /\ PagesInv'
      <3>1. Loading' = Loading /\ (Freeing' => Freeing) /\ (LoadTold' => LoadTold)
        BY <1>5 DEF Loading
      <3>2. /\ stream'.result = stream.result /\ stream'.seeks = stream.seeks /\ stream'.valid = stream.valid
            /\ stream'.counter = stream.counter /\ stream'.pointer = stream.pointer
        BY <2>1
      <3> QED
        BY <2>3, <2>4, <3>1, <3>2, JobsSame
    <2>6. Shape'
      <3>1. TypeOK'
        BY <1>1, <1>4, <2>1, <2>2 DEF IInv, Shape, TypeOK, CallerSteps
      <3> QED
        BY <1>1, <1>4, <2>1, <2>2, <3>1 DEF IInv, Shape, AllSteps
    <2>7. CallerInv' /\ AudioInv' /\ CopyInv' /\ OutboxInv'
      BY <1>1, <1>3, <1>4, <1>7, <2>1, <2>2 DEF IInv, CallerInv, AudioInv, CopyInv, OutboxInv, Loading, Cpc, Apc, Reading
    <2>8. WorkerInv'
      BY <1>1, <1>2, <1>4, <1>6, <2>1 DEF IInv, WorkerInv, Wpc
    <2> QED
      BY <2>5, <2>6, <2>7, <2>8 DEF IInv
  <1>8. CASE stream.result = "failed"
    <2>1. stream' = NoStream /\ stray' = (pc["worker"] = "advance") /\ UNCHANGED gate
      BY <1>8 DEF FinishLoad, gateVars
    <2>2. Pending' = <<>>
      <3>1. job \in MaybeJob /\ queue \in Seq(JobSet) /\ Pending \in Seq(JobSet) /\ NoJob \in MaybeJob
        BY JobTypes DEF IInv, MaybeJob
      <3>2. Len(Pending) <= 1 /\ (Len(Pending) = 1 => Over(1))
        BY <1>5 DEF IInv, JobsInv, LoadTold
      <3>3. Pending' = Line(job, queue, NoJob, NoJob, stray')
        <4>1. Pending' = Line(job', queue', outbox'["caller"], outbox'["audio"], stray')
          BY DEF Pending, InHand, Posting, Line, job
        <4> QED
          BY <1>1, <1>3, <1>6, <4>1
      <3>4. Pending = Line(job, queue, NoJob, NoJob, FALSE)
        <4>1. Pending = Line(job, queue, outbox["caller"], outbox["audio"], stray)
          BY PendingIsLine
        <4>2. stray = FALSE
          BY <1>2 DEF IInv, Shape, TypeOK
        <4> QED
          BY <1>3, <4>1, <4>2
      <3>5. CASE pc["worker"] = "advance"
        <4>1. job \in JobSet /\ stray' = TRUE
          BY <2>1, <3>1, <3>5 DEF IInv, WorkerInv, Wpc, MaybeJob
        <4>2. \A h \in JobSet, q \in Seq(JobSet) :
                 /\ Line(h, q, NoJob, NoJob, FALSE) # <<>>
                 /\ Line(NoJob, q, NoJob, NoJob, FALSE) = Tail(Line(h, q, NoJob, NoJob, FALSE))
                 /\ Line(h, q, NoJob, NoJob, TRUE) = Line(NoJob, q, NoJob, NoJob, FALSE)
          <5>1. NoJob \in MaybeJob
            BY <3>1
          <5>2. \A h \in JobSet, q \in Seq(JobSet), c \in MaybeJob, a \in MaybeJob :
                   /\ Line(h, q, c, a, FALSE) # <<>>
                   /\ Line(NoJob, q, c, a, FALSE) = Tail(Line(h, q, c, a, FALSE))
                   /\ Line(h, q, c, a, TRUE) = Line(NoJob, q, c, a, FALSE)
            BY LineFinish
          <5> QED
            BY <5>1, <5>2, Zenon
        <4>3. Pending # <<>> /\ Pending' = Tail(Pending)
          BY <3>1, <3>3, <3>4, <4>1, <4>2
        <4> QED
          BY <3>1, <3>2, <4>3
      <3>6. CASE pc["worker"] # "advance"
        <4>1. Pending = <<>>
          <5>1. Len(Pending) # 1
            BY <3>2, <3>6 DEF Over, Wpc
          <5>2. Len(Pending) \in Nat /\ Len(Pending) <= 1
            BY <3>1, <3>2
          <5>3. Len(Pending) = 0
            <6>1. \A k \in Nat : k <= 1 /\ k # 1 => k = 0
              OBVIOUS
            <6> QED
              BY ONLY <5>1, <5>2, <6>1
          <5> QED
            BY <3>1, <5>3
        <4>2. stray' = FALSE
          BY <2>1, <3>6
        <4> QED
          BY <3>3, <3>4, <4>1, <4>2
      <3> QED
        BY <3>5, <3>6
    <2>3. JobsInv' /\ SeeksInv' /\ PagesInv'
      BY <1>5, <2>1, <2>2, NothingLeft
    <2>4. Shape'
      <3>1. stream' \in StreamSet /\ \A p \in Pages : Len(stream'.data[p]) <= PageSize
        BY <2>1, NoStreamType
      <3>2. TypeOK'
        BY <1>1, <1>4, <2>1, <3>1 DEF IInv, Shape, TypeOK, CallerSteps
      <3> QED
        BY <1>1, <1>4, <2>1, <3>1, <3>2 DEF IInv, Shape, AllSteps
    <2>5. CallerInv' /\ AudioInv' /\ CopyInv' /\ OutboxInv'
      BY <1>1, <1>2, <1>3, <1>4, <2>1, NoStreamType
         DEF IInv, CallerInv, AudioInv, CopyInv, OutboxInv, Loading, Cpc, Apc, Reading
    <2>6. WorkerInv'
      BY <1>1, <1>2, <1>4, <1>6, <2>1, NoStreamType DEF IInv, WorkerInv, Wpc, Cpc
    <2> QED
      BY <2>3, <2>4, <2>5, <2>6 DEF IInv
  <1> QED
    BY <1>2, <1>7, <1>8

LEMMA FinishUnloadKeeps ==
    ASSUME IInv, FinishUnload
    PROVE  IInv'
  <1> USE Numbers
  <1>1. /\ pc["caller"] = "await_free" /\ done /\ done' = FALSE /\ Goto("caller", "idle") /\ stream' = NoStream
        /\ UNCHANGED <<gate, held, queue, hand, sound, outbox, target, mapped, got, empty, looping, filling, stray>>
    BY DEF FinishUnload, jobVars, readVars, gateVars
  <1>2. gate["sound"] = "out" /\ ~stray /\ Closed
    BY <1>1 DEF IInv, CallerInv, WorkerInv, Closed, Cpc
  <1>3. Apc = "idle" /\ held = {}
    BY <1>2, BusOut
  <1>4. /\ pc' \in [Threads -> AllSteps] /\ pc'["caller"] = "idle"
        /\ pc'["audio"] = pc["audio"] /\ pc'["worker"] = pc["worker"]
    <2>1. "caller" \in Threads /\ "idle" \in AllSteps
      BY DEF Threads, AllSteps, CallerSet, CallerSteps
    <2> QED
      BY <1>1, <2>1, GotoStep DEF IInv, Threads
  <1>5. ~Loading' /\ ~LoadTold' /\ ~Freeing'
    BY <1>4 DEF Loading, LoadTold, Freeing, Cpc
  <1>6. job' = job
    BY <1>1 DEF job
  <1>7. Pending' = <<>>
    <2>1. Pending = <<>>
      BY <1>2 DEF IInv, JobsInv
    <2>2. Pending' = Pending
      BY <1>1, <1>6 DEF Pending, InHand, Posting
    <2> QED
      BY <2>1, <2>2
  <1>8. JobsInv' /\ SeeksInv' /\ PagesInv'
    BY <1>1, <1>5, <1>7, NothingLeft
  <1>9. Shape'
    <2>1. stream' \in StreamSet /\ \A p \in Pages : Len(stream'.data[p]) <= PageSize
      BY <1>1, NoStreamType
    <2>2. TypeOK'
      BY <1>1, <1>4, <2>1 DEF IInv, Shape, TypeOK, CallerSteps
    <2> QED
      BY <1>1, <1>4, <2>1, <2>2 DEF IInv, Shape, AllSteps
  <1>10. CallerInv' /\ AudioInv' /\ CopyInv' /\ OutboxInv'
    BY <1>1, <1>2, <1>3, <1>4, NoStreamType
       DEF IInv, CallerInv, AudioInv, CopyInv, OutboxInv, Loading, Cpc, Apc, Reading
  <1>11. WorkerInv'
    BY <1>1, <1>2, <1>4, <1>6 DEF IInv, WorkerInv, Wpc
  <1> QED
    BY <1>8, <1>9, <1>10, <1>11 DEF IInv

LEMMA CloseStreamKeeps ==
    ASSUME IInv, CloseStream
    PROVE  IInv'
  <1> USE Numbers
  <1>1. /\ pc["caller"] = "close" /\ Goto("caller", "post_free")
        /\ stream' = [Ordered(stream) EXCEPT !.result = "unavailable"]
        /\ outbox' = [outbox EXCEPT !["caller"] = Job("free", 0)]
        /\ UNCHANGED <<gate, held, queue, hand, sound, target, mapped, got, empty, looping, filling, done, stray>>
    BY DEF CloseStream, jobVars, readVars, gateVars
  <1>2. gate["sound"] = "out" /\ stream.result = "success" /\ ~stray /\ ~done /\ ~Closed /\ ~Loading
        /\ outbox["caller"] = NoJob
    BY <1>1 DEF IInv, CallerInv, WorkerInv, OutboxInv, Closed, Loading, Cpc
  <1>3. Apc = "idle" /\ held = {} /\ outbox["audio"] = NoJob
    BY <1>2, BusOut
  <1>4. /\ pc' \in [Threads -> AllSteps] /\ pc'["caller"] = "post_free"
        /\ pc'["audio"] = pc["audio"] /\ pc'["worker"] = pc["worker"]
    <2>1. "caller" \in Threads /\ "post_free" \in AllSteps
      BY DEF Threads, AllSteps, CallerSet, CallerSteps
    <2> QED
      BY <1>1, <2>1, GotoStep DEF IInv, Threads
  <1>5. stream \in StreamSet /\ outbox \in [Threads -> MaybeJob]
    BY DEF IInv, Shape, TypeOK, MaybeJob
  <1>6. PICK x \in JobSet : x = Job("free", 0) /\ x.kind = "free" /\ x.order = stream.counter
    <2>1. Job("free", 0) \in JobSet /\ Job("free", 0).kind = "free" /\ Job("free", 0).order = stream.counter
      BY <1>5 DEF Job, JobSet, StreamSet
    <2> QED
      BY <2>1
  <1>7. /\ outbox' \in [Threads -> MaybeJob] /\ outbox'["caller"] = x
        /\ outbox'["audio"] = NoJob /\ outbox'["worker"] = NoJob /\ x # NoJob
    BY <1>1, <1>3, <1>5, <1>6 DEF IInv, MaybeJob, Threads, OutboxInv
  <1>8. Pending' = Append(Pending, x)
    <2>1. job \in MaybeJob /\ queue \in Seq(JobSet)
      BY JobTypes DEF IInv
    <2>2. Pending = Line(job, queue, NoJob, NoJob, stray)
      BY <1>2, <1>3, PendingIsLine
    <2>3. Pending' = Line(job, queue, x, NoJob, stray)
      <3>1. Pending' = Line(job', queue', outbox'["caller"], outbox'["audio"], stray')
        BY DEF Pending, InHand, Posting, Line, job
      <3>2. job' = job
        BY <1>1 DEF job
      <3> QED
        BY <1>1, <1>7, <3>1, <3>2
    <2>4. Line(job, queue, x, NoJob, stray) = Append(Line(job, queue, NoJob, NoJob, stray), x)
      <3>1. \A h \in MaybeJob, q \in Seq(JobSet) : \A s :
               Line(h, q, x, NoJob, s) = Append(Line(h, q, NoJob, NoJob, s), x)
        BY LinePut
      <3> QED
        BY <2>1, <3>1, Zenon
    <2> QED
      BY <2>2, <2>3, <2>4
  <1>9. /\ stream' \in StreamSet /\ stream'.result = "unavailable" /\ stream'.seeks = stream.seeks /\ stream'.data = stream.data
        /\ stream'.pointer = stream.pointer /\ stream'.counter = (stream.counter + 1) % OrderLimit
    <2>1. (stream.counter + 1) % OrderLimit \in 0 .. OrderLimit - 1
      BY <1>5 DEF StreamSet
    <2>2. stream' = [stream EXCEPT !.counter = (@ + 1) % OrderLimit, !.result = "unavailable"]
      BY <1>1, <1>5 DEF Ordered, StreamSet
    <2> QED
      BY <1>5, <2>1, <2>2 DEF StreamSet
  <1>10. Wpc' = Wpc /\ stray' = stray
    BY <1>1, <1>4 DEF Wpc
  <1>11. /\ Pending' \in Seq(JobSet) /\ Len(Pending) \in Nat /\ Len(Pending') = Len(Pending) + 1
         /\ DOMAIN Pending = 1 .. Len(Pending) /\ DOMAIN Pending' = 1 .. Len(Pending) + 1
         /\ \A i \in DOMAIN Pending : i \in DOMAIN Pending' /\ Pending'[i] = Pending[i]
         /\ Pending'[Len(Pending) + 1] = x
         /\ \A i : Over(i)' = Over(i)
         /\ SeeksLeft' = SeeksLeft \union {i \in {Len(Pending) + 1} : x.kind = "seek"}
         /\ JobsInOrder'
    BY <1>2, <1>6, <1>8, <1>9, <1>10, Grows
  <1>12. Freeing' /\ ~Closed' /\ ~Loading' /\ ~LoadTold'
    BY <1>1, <1>4, <1>9 DEF Freeing, Closed, Loading, LoadTold, Cpc
  <1>13. JobsInv'
    <2>0. PICK n \in Nat : n = Len(Pending)
      BY <1>11
    <2>1. \A i \in 1 .. n + 1 : i \in 1 .. n \/ i = n + 1
      BY <2>0
    <2>2. /\ \A i \in 1 .. n : Kind(i) = "page" => Pending[i].arg \in Pages
          /\ \A i \in 1 .. n : Kind(i) = "seek" => Pending[i].arg \in Frames
          /\ \A i \in 1 .. n : Kind(i) = "load" => i = 1 /\ Over(1)
          /\ \A i \in 1 .. n : Kind(i) # "free"
      BY <1>2, <1>11, <2>0 DEF IInv, JobsInv
    <2>3. \A i \in 1 .. n : Kind(i)' = Kind(i)
      BY <1>11, <2>0 DEF Kind
    <2>4. Kind(n + 1)' = "free"
      BY <1>6, <1>11, <2>0 DEF Kind
    <2>5. DOMAIN Pending' = 1 .. n + 1 /\ Len(Pending') = n + 1 /\ n + 1 > 0
      BY <1>11, <2>0
    <2>6. \A i \in 1 .. n + 1 : Kind(i)' = "page" => Pending'[i].arg \in Pages
      BY <1>11, <2>0, <2>1, <2>2, <2>3, <2>4
    <2>7. \A i \in 1 .. n + 1 : Kind(i)' = "seek" => Pending'[i].arg \in Frames
      BY <1>11, <2>0, <2>1, <2>2, <2>3, <2>4
    <2>8. \A i \in 1 .. n + 1 : Kind(i)' = "load" => i = 1 /\ Over(1)'
      BY <1>11, <2>0, <2>1, <2>2, <2>3, <2>4
    <2>9. \A i \in 1 .. n + 1 : Kind(i)' = "free" => i = n + 1
      BY <2>1, <2>2, <2>3, <2>4
    <2>10. \A i : i = Len(Pending') => Kind(i)' = "free"
      BY <2>4, <2>5
    <2>11. Len(Pending') > 0 /\ Pending'[Len(Pending')].kind = "free"
      BY <1>6, <1>11, <2>5
    <2> QED
      BY <1>9, <1>11, <1>12, <2>5, <2>6, <2>7, <2>8, <2>9, <2>11 DEF JobsInv, LoadTold, Freeing, Kind
  <1>14. SeeksInv' /\ PagesInv'
    <2>1. SeeksLeft' = SeeksLeft
      BY <1>6, <1>11
    <2> QED
      BY <1>9, <2>1 DEF IInv, SeeksInv, PagesInv
  <1>15. Shape'
    <2>1. TypeOK'
      BY <1>1, <1>4, <1>7, <1>9 DEF IInv, Shape, TypeOK, MaybeJob, CallerSteps
    <2> QED
      BY <1>1, <1>4, <1>9, <2>1 DEF IInv, Shape, AllSteps
  <1>16. CallerInv' /\ AudioInv' /\ CopyInv' /\ OutboxInv'
    BY <1>1, <1>2, <1>3, <1>4, <1>7, <1>9 DEF CallerInv, AudioInv, CopyInv, OutboxInv, Loading, Cpc, Apc, Reading
  <1>17. WorkerInv'
    <2>1. job' = job
      BY <1>1 DEF job
    <2> QED
      BY <1>1, <1>2, <1>10, <2>1 DEF IInv, WorkerInv
  <1> QED
    BY <1>13, <1>14, <1>15, <1>16, <1>17 DEF IInv

-----------------------------------------------------------------------------
(***************************************************************************)
(* Frames are copied and unmapped.                                         *)
(***************************************************************************)
LEMMA WrapType ==
    ASSUME NEW frame \in Nat
    PROVE  Wrap(frame) \in 0 .. Total
  <1>1. Total \in Nat \ {0}
    BY Numbers
  <1>2. frame % Total \in 0 .. Total - 1
    BY <1>1
  <1>3. frame % Total \in 0 .. Total
    BY <1>1, <1>2
  <1>4. ~(frame > Total) => frame \in 0 .. Total
    BY <1>1
  <1> QED
    BY <1>3, <1>4 DEF Wrap

\* Within a page nothing but the cursor and the offset moves.
Moved ==
    /\ stream.rel + mapped < PageSize
    /\ stream'.cursor = Wrap(stream.cursor + mapped) /\ stream'.rel = stream.rel + mapped
    /\ stream'.result = stream.result /\ stream'.page = stream.page /\ stream'.decoder = stream.decoder
    /\ stream'.valid = stream.valid /\ stream'.data = stream.data
    /\ Pending' = Pending /\ Wpc' = Wpc

\* At its end the page has a job, the last of the pending ones, and the other
\* page is next.
Turned ==
    /\ stream.rel + mapped = PageSize
    /\ stream'.cursor = Wrap(stream.cursor + mapped) /\ stream'.rel = 0
    /\ stream'.result = stream.result /\ stream'.page = 1 - stream.page /\ stream'.decoder = stream.decoder
    /\ stream'.valid = [stream.valid EXCEPT ![stream.page] = FALSE]
    /\ stream'.data = [stream.data EXCEPT ![stream.page] = <<>>]
    /\ Len(Pending) \in Nat
    /\ DOMAIN Pending = 1 .. Len(Pending) /\ DOMAIN Pending' = 1 .. Len(Pending) + 1
    /\ \A i \in DOMAIN Pending : Pending'[i] = Pending[i] /\ PageJob(i)' = PageJob(i)
    /\ \A i : i = Len(Pending) + 1 => Pending'[i].arg = stream.page /\ PageJob(i)'
    /\ SeeksLeft' = SeeksLeft /\ Wpc' = Wpc

LEMMA UnmapKeeps ==
    ASSUME IInv, Unmap
    PROVE  IInv' /\ (Moved \/ Turned)
  <1> USE Numbers
  <1>1. /\ pc["audio"] = "copy" /\ mapped' = 0 /\ got' = TRUE /\ empty' = FALSE
        /\ UNCHANGED <<gate, held, queue, hand, sound, target, looping, filling, done, stray>>
    BY DEF Unmap, jobVars, gateVars
  <1>2. /\ outbox["caller"] = NoJob \/ outbox["audio"] = NoJob
        /\ stream.result = "success" /\ Cpc \notin {"post_load", "await_load", "close", "post_free", "await_free"}
        /\ Cpc \notin {"post_rewind", "restart"}
    BY <1>1, Apart DEF IInv, Apc, Reading
  <1>3. outbox["caller"] = NoJob /\ outbox["audio"] = NoJob /\ ~stray /\ ~done
    BY <1>1, <1>2 DEF IInv, OutboxInv, WorkerInv, CallerInv, Loading, Apc
  <1>4. /\ SeeksLeft = {} /\ stream.valid[stream.page]
        /\ mapped > 0 /\ stream.rel + mapped <= Len(stream.data[stream.page])
    BY <1>1 DEF IInv, CopyInv, Apc
  <1>5. stream \in StreamSet /\ outbox \in [Threads -> MaybeJob] /\ mapped \in 0 .. PageSize
    BY DEF IInv, Shape, TypeOK, MaybeJob
  <1>6. stream.page \in Pages /\ Len(stream.data[stream.page]) \in Nat /\ stream.rel + mapped <= PageSize
        /\ stream.rel \in Nat /\ stream.rel + mapped \in Nat /\ stream.cursor + mapped \in Nat
    <2>1. stream.page \in Pages /\ stream.data[stream.page] \in Seq(Frames) /\ stream.rel \in Nat /\ stream.cursor \in Nat
      BY <1>5 DEF StreamSet
    <2>2. Len(stream.data[stream.page]) \in Nat /\ Len(stream.data[stream.page]) <= PageSize
      BY <2>1 DEF IInv, Shape
    <2> QED
      BY <1>4, <1>5, <2>1, <2>2
  <1>7. Wrap(stream.cursor + mapped) \in 0 .. Total
    <2> DEFINE f == stream.cursor + mapped
    <2>1. f \in Nat
      BY <1>6
    <2> HIDE DEF f
    <2>2. Wrap(f) \in 0 .. Total
      BY <2>1, WrapType
    <2> QED
      BY <2>2 DEF f
  <1> DEFINE moved == [stream EXCEPT !.cursor = Wrap(@ + mapped), !.rel = @ + mapped]
  <1>8. moved.rel = stream.rel + mapped /\ moved.page = stream.page
    BY <1>5 DEF StreamSet
  <1>9. job' = job
    BY <1>1 DEF job
  <1>10. CASE stream.rel + mapped < PageSize
    <2>1. stream' = moved /\ Goto("audio", "more") /\ UNCHANGED outbox
      BY <1>8, <1>10 DEF Unmap
    <2>2. /\ pc' \in [Threads -> AllSteps] /\ pc'["audio"] = "more"
          /\ pc'["caller"] = pc["caller"] /\ pc'["worker"] = pc["worker"]
      <3>1. "audio" \in Threads /\ "more" \in AllSteps
        BY DEF Threads, AllSteps, AudioSet, Reading
      <3> QED
        BY <2>1, <3>1, GotoStep DEF IInv, Threads
    <2>3. /\ stream' \in StreamSet /\ stream'.data = stream.data
          /\ stream'.result = stream.result /\ stream'.seeks = stream.seeks /\ stream'.valid = stream.valid
          /\ stream'.counter = stream.counter /\ stream'.pointer = stream.pointer
          /\ stream'.cursor = Wrap(stream.cursor + mapped) /\ stream'.rel = stream.rel + mapped
          /\ stream'.page = stream.page /\ stream'.decoder = stream.decoder
      <3>1. stream.rel + mapped \in 0 .. PageSize - 1
        BY <1>6, <1>10
      <3> QED
        BY <1>5, <1>7, <2>1, <3>1 DEF StreamSet
    <2>4. Pending' = Pending
      BY <1>1, <1>9, <2>1 DEF Pending, InHand, Posting
    <2>5. Loading' = Loading /\ Closed' = Closed /\ Freeing' = Freeing /\ LoadTold' = LoadTold /\ FirstOver' = FirstOver
      BY <1>1, <2>2, <2>3 DEF Loading, Closed, Freeing, LoadTold, FirstOver, Cpc, Wpc
    <2>6. JobsInv' /\ SeeksInv' /\ PagesInv'
      BY <2>3, <2>4, <2>5, JobsSame
    <2>7. Shape'
      <3>1. mapped' \in 0 .. PageSize
        BY <1>1
      <3>2. TypeOK'
        BY <1>1, <2>1, <2>2, <2>3, <3>1 DEF IInv, Shape, TypeOK, Reading
      <3> QED
        BY <1>1, <2>2, <2>3, <3>2 DEF IInv, Shape, AllSteps
    <2>8. CallerInv' /\ OutboxInv' /\ AudioInv' /\ CopyInv'
      BY <1>1, <2>1, <2>2, <2>3 DEF IInv, CallerInv, OutboxInv, AudioInv, CopyInv, Loading, Cpc, Apc, Reading
    <2>9. WorkerInv'
      BY <1>1, <1>9, <1>3, <2>2 DEF IInv, WorkerInv, Wpc
    <2>10. Moved
      BY <1>10, <2>2, <2>3, <2>4 DEF Moved, Wpc
    <2> QED
      BY <2>6, <2>7, <2>8, <2>9, <2>10 DEF IInv
  <1>11. CASE ~(stream.rel + mapped < PageSize)
    <2>1. /\ stream' = [Ordered(moved) EXCEPT
                           !.valid[stream.page] = FALSE, !.data[stream.page] = <<>>,
                           !.rel = @ - PageSize, !.page = 1 - @]
          /\ outbox' = [outbox EXCEPT !["audio"] = Job("page", stream.page)]
          /\ Goto("audio", "post_page")
      BY <1>8, <1>11 DEF Unmap
    <2>2. /\ pc' \in [Threads -> AllSteps] /\ pc'["audio"] = "post_page"
          /\ pc'["caller"] = pc["caller"] /\ pc'["worker"] = pc["worker"]
      <3>1. "audio" \in Threads /\ "post_page" \in AllSteps
        BY DEF Threads, AllSteps, AudioSet, Reading
      <3> QED
        BY <2>1, <3>1, GotoStep DEF IInv, Threads
    <2>3. stream' = [stream EXCEPT !.cursor = Wrap(stream.cursor + mapped), !.rel = stream.rel + mapped - PageSize,
                        !.counter = (stream.counter + 1) % OrderLimit, !.page = 1 - stream.page,
                        !.valid = [stream.valid EXCEPT ![stream.page] = FALSE],
                        !.data = [stream.data EXCEPT ![stream.page] = <<>>]]
      <3>1. Ordered(moved) = [stream EXCEPT !.cursor = Wrap(stream.cursor + mapped), !.rel = stream.rel + mapped,
                                 !.counter = (stream.counter + 1) % OrderLimit]
        BY <1>5 DEF Ordered, StreamSet
      <3> DEFINE o == Ordered(moved)
      <3>2. /\ o.valid = stream.valid /\ o.data = stream.data
            /\ o.rel = stream.rel + mapped /\ o.page = stream.page
        BY <1>5, <3>1 DEF StreamSet
      <3> DEFINE R == [result : {"none", "busy", "success", "failed", "unavailable"},
                       seeks : Nat, cursor : 0 .. Total, rel : Nat, page : Pages,
                       valid : [Pages -> BOOLEAN], data : [Pages -> Seq(Frames)],
                       decoderAtEnd : BOOLEAN, decoder : 0 .. Total,
                       counter : Nat, pointer : 0 .. OrderLimit - 1]
      <3>9. o \in R
        <4>1. (stream.counter + 1) % OrderLimit \in Nat
          BY <1>5 DEF StreamSet
        <4> QED
          BY <1>5, <1>6, <1>7, <3>1, <4>1 DEF StreamSet
      <3>3. stream' = [o EXCEPT !.valid[stream.page] = FALSE, !.data[stream.page] = <<>>,
                           !.rel = @ - PageSize, !.page = 1 - @]
        BY <2>1
      <3> HIDE DEF moved, o
      <3>4. stream' = [o EXCEPT !.valid = [stream.valid EXCEPT ![stream.page] = FALSE],
                           !.data = [stream.data EXCEPT ![stream.page] = <<>>],
                           !.rel = stream.rel + mapped - PageSize, !.page = 1 - stream.page]
        <4> DEFINE v0 == [o.valid EXCEPT ![stream.page] = FALSE]
                   d0 == [o.data EXCEPT ![stream.page] = <<>>]
                   o1 == [o EXCEPT !.valid = v0]
        <4>1. o1.data = o.data
          BY <3>9
        <4>2. stream' = [o1 EXCEPT !.data = d0, !.rel = @ - PageSize, !.page = 1 - @]
          BY <3>3, <4>1
        <4>3. o1.rel = o.rel /\ o1.page = o.page
          BY <3>9
        <4>4. o1 = [o EXCEPT !.valid = v0] /\ o1 \in [DOMAIN o -> UNION {{o1[f]} : f \in DOMAIN o}]
          BY <3>9
        <4> HIDE DEF o1, v0, d0
        <4>5. stream' = [o1 EXCEPT !.data = d0, !.rel = o1.rel - PageSize, !.page = 1 - o1.page]
          BY <4>2
        <4>6. stream' = [o1 EXCEPT !.data = d0, !.rel = o.rel - PageSize, !.page = 1 - o.page]
          BY <4>3, <4>5
        <4>7. stream' = [o EXCEPT !.valid = v0, !.data = d0, !.rel = o.rel - PageSize, !.page = 1 - o.page]
          BY <4>4, <4>6
        <4>8. v0 = [stream.valid EXCEPT ![stream.page] = FALSE] /\ d0 = [stream.data EXCEPT ![stream.page] = <<>>]
          BY <3>2 DEF v0, d0
        <4> DEFINE r0 == stream.rel + mapped - PageSize
                   g0 == 1 - stream.page
        <4>9. o.rel - PageSize = r0 /\ 1 - o.page = g0
          <5>1. o.rel = stream.rel + mapped /\ o.page = stream.page
            BY <3>2
          <5>2. o.rel - PageSize = r0
            <6>1. stream.rel \in Nat /\ mapped \in Nat /\ PageSize \in Nat
              BY <1>5, PositiveSizes DEF StreamSet
            <6> QED
              BY ONLY <5>1, <6>1
          <5>3. 1 - o.page = g0
            BY ONLY <5>1, Zenon
          <5> QED
            BY ONLY <5>2, <5>3
        <4> HIDE DEF r0, g0
        <4>10. stream' = [o EXCEPT !.valid = v0, !.data = d0, !.rel = r0, !.page = g0]
          BY <4>7, <4>9
        <4> QED
          BY <4>8, <4>10, Zenon DEF r0, g0
      <3>5. o = [stream EXCEPT !.cursor = Wrap(stream.cursor + mapped), !.rel = stream.rel + mapped,
                                 !.counter = (stream.counter + 1) % OrderLimit]
        BY <3>1 DEF o
      <3> DEFINE c == Wrap(stream.cursor + mapped)
                 k == (stream.counter + 1) % OrderLimit
                 v == [stream.valid EXCEPT ![stream.page] = FALSE]
                 d == [stream.data EXCEPT ![stream.page] = <<>>]
                 r == stream.rel + mapped - PageSize
                 u == stream.rel + mapped
                 g == 1 - stream.page
      <3>6. stream' = [o EXCEPT !.valid = v, !.data = d, !.rel = r, !.page = g]
        BY <3>4
      <3>7. o = [stream EXCEPT !.cursor = c, !.rel = u, !.counter = k]
        BY <3>5
      <3> HIDE DEF c, k, v, d, r, u, g
      <3>8. stream' = [stream EXCEPT !.cursor = c, !.rel = r, !.counter = k, !.page = g, !.valid = v, !.data = d]
        BY <1>5, <3>6, <3>7 DEF StreamSet
      <3> QED
        BY <3>8 DEF c, k, v, d, r, u, g
    <2>4. /\ stream' \in StreamSet
          /\ stream'.result = stream.result /\ stream'.seeks = stream.seeks
          /\ stream'.counter = (stream.counter + 1) % OrderLimit /\ stream'.pointer = stream.pointer
          /\ stream'.valid = [stream.valid EXCEPT ![stream.page] = FALSE]
          /\ stream'.data = [stream.data EXCEPT ![stream.page] = <<>>]
          /\ stream'.cursor = Wrap(stream.cursor + mapped) /\ stream'.rel = 0
          /\ stream'.page = 1 - stream.page /\ stream'.decoder = stream.decoder
      <3>1. stream.rel + mapped - PageSize = 0 /\ 0 \in 0 .. PageSize - 1
        BY <1>5, <1>6, <1>11
      <3>2. (stream.counter + 1) % OrderLimit \in 0 .. OrderLimit - 1
        BY <1>5 DEF StreamSet
      <3>3. 1 - stream.page \in Pages
        BY <1>6 DEF Pages
      <3>4. [stream.valid EXCEPT ![stream.page] = FALSE] \in [Pages -> BOOLEAN]
        BY <1>5 DEF StreamSet
      <3>5. [stream.data EXCEPT ![stream.page] = <<>>] \in [Pages -> Seq(Frames)]
        BY <1>5 DEF StreamSet
      <3> QED
        BY <1>5, <1>7, <2>3, <3>1, <3>2, <3>3, <3>4, <3>5 DEF StreamSet
    <2>5. PICK x \in JobSet : x = Job("page", stream.page) /\ x.kind = "page" /\ x.arg = stream.page /\ x.order = stream.counter
      <3>1. Job("page", stream.page) \in JobSet
        BY <1>5 DEF Job, JobSet, StreamSet, Pages
      <3> QED
        BY <3>1 DEF Job
    <2>6. /\ outbox' \in [Threads -> MaybeJob] /\ outbox'["audio"] = x
          /\ outbox'["caller"] = NoJob /\ outbox'["worker"] = NoJob /\ x # NoJob
      BY <2>1, <1>3, <1>5, <2>5 DEF IInv, MaybeJob, Threads, OutboxInv
    <2>7. Pending' = Append(Pending, x)
      <3>1. job \in MaybeJob /\ queue \in Seq(JobSet)
        BY JobTypes DEF IInv
      <3>2. Pending = Line(job, queue, NoJob, NoJob, stray)
        BY <1>3, PendingIsLine
      <3>3. Pending' = Line(job, queue, NoJob, x, stray)
        <4>1. Pending' = Line(job', queue', outbox'["caller"], outbox'["audio"], stray')
          BY DEF Pending, InHand, Posting, Line, job
        <4> QED
          BY <1>1, <1>9, <2>6, <4>1
      <3>4. Line(job, queue, NoJob, x, stray) = Append(Line(job, queue, NoJob, NoJob, stray), x)
        <4>1. \A h \in MaybeJob, q \in Seq(JobSet) : \A s :
                 Line(h, q, NoJob, x, s) = Append(Line(h, q, NoJob, NoJob, s), x)
          BY LinePut
        <4> QED
          BY <3>1, <4>1, Zenon
      <3> QED
        BY <3>2, <3>3, <3>4
    <2>8. Wpc' = Wpc /\ stray' = stray /\ Cpc' = Cpc
      BY <1>1, <2>2 DEF Wpc, Cpc
    <2>9. /\ JobsInv'
          /\ Len(Pending) \in Nat
          /\ DOMAIN Pending = 1 .. Len(Pending) /\ DOMAIN Pending' = 1 .. Len(Pending) + 1
          /\ \A i \in DOMAIN Pending : Pending'[i] = Pending[i]
          /\ Pending'[Len(Pending) + 1] = x
          /\ \A i : Over(i)' = Over(i)
          /\ ~Over(Len(Pending) + 1)
          /\ SeeksLeft' = SeeksLeft \union {i \in {Len(Pending) + 1} : x.kind = "seek"}
      <3>1. x.arg \in Pages /\ x.kind # "seek"
        BY <1>6, <2>5
      <3> QED
        BY <1>2, <2>4, <2>5, <2>7, <2>8, <3>1, JobsGrow
    <2>10. SeeksLeft' = SeeksLeft
      BY <2>5, <2>9
    <2>11. SeeksInv'
      BY <2>4, <2>10 DEF IInv, SeeksInv
    <2>12. PagesInv'
      <3>0. PICK n \in Nat : n = Len(Pending)
        BY <2>9
      <3>1. /\ \A i \in 1 .. n : Kind(i)' = Kind(i) /\ PageJob(i)' = PageJob(i)
            /\ \A i \in 1 .. n : Pending'[i] = Pending[i]
            /\ Pending'[n + 1].arg = stream.page
        BY <2>5, <2>9, <3>0 DEF Kind, PageJob
      <3>2. /\ \A i \in 1 .. n : PageJob(i) => ~stream.valid[Pending[i].arg] /\ Pending[i].arg \in Pages
            /\ \A i, j \in 1 .. n :
                  PageJob(i) /\ PageJob(j) /\ Pending[i].arg = Pending[j].arg => i = j
        BY <1>2, <1>4, <2>9, <3>0 DEF IInv, PagesInv, JobsInv, PageJob
      <3>3. /\ stream'.valid[stream.page] = FALSE
            /\ \A p \in Pages : p # stream.page => stream'.valid[p] = stream.valid[p]
        BY <1>5, <1>6, <2>4 DEF StreamSet
      <3>4. \A i \in 1 .. n : PageJob(i) => Pending[i].arg # stream.page
        BY <1>4, <3>2
      <3>5. \A i \in 1 .. n + 1 : i \in 1 .. n \/ i = n + 1
        BY <3>0
      <3>6. \A i \in 1 .. n + 1 : PageJob(i)' => ~stream'.valid[Pending'[i].arg]
        <4> SUFFICES ASSUME NEW i \in 1 .. n + 1, PageJob(i)' PROVE ~stream'.valid[Pending'[i].arg]
          OBVIOUS
        <4>1. CASE i = n + 1
          BY <3>1, <3>3, <4>1
        <4>2. CASE i \in 1 .. n
          BY <3>1, <3>2, <3>3, <3>4, <4>2
        <4> QED
          BY <3>5, <4>1, <4>2
      <3>7. ASSUME NEW i \in 1 .. n + 1, NEW j \in 1 .. n + 1, PageJob(i)', PageJob(j)', Pending'[i].arg = Pending'[j].arg
            PROVE  i = j
        <4>1. CASE i \in 1 .. n /\ j \in 1 .. n
          BY <3>1, <3>2, <3>7, <4>1
        <4>2. CASE i \in 1 .. n /\ j = n + 1
          BY <3>1, <3>4, <3>7, <4>2
        <4>3. CASE i = n + 1 /\ j \in 1 .. n
          BY <3>1, <3>4, <3>7, <4>3
        <4> QED
          BY <3>5, <4>1, <4>2, <4>3
      <3>8. DOMAIN Pending' = 1 .. n + 1 /\ SeeksLeft' = {}
        BY <1>4, <2>9, <2>10, <3>0
      <3> QED
        BY <3>6, <3>7, <3>8 DEF PagesInv
    <2>13. Shape'
      <3>1. mapped' \in 0 .. PageSize
        BY <1>1
      <3>2. TypeOK'
        BY <1>1, <2>2, <2>4, <2>6, <3>1 DEF IInv, Shape, TypeOK, MaybeJob, Reading
      <3>3. \A p \in Pages : Len(stream'.data[p]) <= PageSize
        <4>1. stream.data \in [Pages -> Seq(Frames)] /\ Len(<<>>) <= PageSize
          BY <1>5 DEF StreamSet
        <4>2. \A p \in Pages : stream'.data[p] = <<>> \/ stream'.data[p] = stream.data[p]
          BY <2>4, <4>1
        <4> QED
          BY <4>1, <4>2 DEF IInv, Shape
      <3> QED
        BY <1>1, <2>2, <3>2, <3>3 DEF IInv, Shape, AllSteps
    <2>14. CallerInv' /\ OutboxInv' /\ AudioInv' /\ CopyInv'
      BY <1>1, <1>3, <2>2, <2>4, <2>6 DEF IInv, CallerInv, OutboxInv, AudioInv, CopyInv, Loading, Cpc, Apc, Reading
    <2>15. WorkerInv'
      BY <1>1, <1>3, <1>9, <2>8 DEF IInv, WorkerInv
    <2>16. Turned
      <3>1. stream.rel + mapped = PageSize
        BY <1>5, <1>6, <1>11
      <3>2. \A i \in DOMAIN Pending : Pending'[i] = Pending[i] /\ PageJob(i)' = PageJob(i)
        BY <2>9 DEF PageJob, Kind
      <3>3. PICK n \in Nat : n = Len(Pending)
        BY <2>9
      <3>4. PageJob(n + 1)' /\ Pending'[n + 1].arg = stream.page
        BY <2>5, <2>9, <3>3 DEF PageJob, Kind
      <3>5. \A i : i = Len(Pending) + 1 => Pending'[i].arg = stream.page /\ PageJob(i)'
        BY <3>3, <3>4
      <3> QED
        BY <2>4, <2>8, <2>9, <2>10, <3>1, <3>2, <3>5 DEF Turned
    <2> QED
      BY <2>9, <2>11, <2>12, <2>13, <2>14, <2>15, <2>16 DEF IInv
  <1> QED
    BY <1>10, <1>11

-----------------------------------------------------------------------------
(***************************************************************************)
(* The job thread takes a job.                                             *)
(***************************************************************************)
\* What the result of the stream says of the caller.
LEMMA ResultSays ==
    ASSUME IInv
    PROVE  /\ stream.result = "busy" => Loading
           /\ stream.result = "failed" => LoadTold
           /\ stream.result = "unavailable" => Cpc \in {"post_free", "await_free"}
           /\ stream.result = "none" => Closed
           /\ Loading => stream.result = "busy"
           /\ stream.result \in {"none", "busy", "success", "failed", "unavailable"}
  <1>1. Cpc \in CallerSteps
    BY DEF IInv, Shape, TypeOK, Cpc
  <1>2. stream.result \in {"none", "busy", "success", "failed", "unavailable"}
    BY DEF IInv, Shape, TypeOK, StreamSet
  <1>3. CASE Cpc \in {"idle", "start", "post_rewind", "restart", "go", "rewind", "await_detach", "close"}
    BY <1>2, <1>3 DEF IInv, CallerInv, Loading, Closed
  <1>4. CASE Cpc \in {"post_free", "await_free"}
    BY <1>2, <1>4 DEF IInv, CallerInv, Loading, Closed
  <1>5. CASE Cpc \in {"post_load", "await_load"}
    BY <1>2, <1>5 DEF IInv, CallerInv, Loading, LoadTold, Closed
  <1> QED
    BY <1>1, <1>3, <1>4, <1>5 DEF CallerSteps

\* The first of the queue is the first that is pending, and it is its turn.
LEMMA TurnFacts ==
    ASSUME IInv, NEW kind, Turn(kind)
    PROVE  /\ InTurn /\ Pending # <<>> /\ Pending[1] = Head(queue) /\ Kind(1) = kind /\ Head(queue) \in JobSet
           /\ 1 \in DOMAIN Pending /\ queue \in Seq(JobSet) /\ queue # <<>>
           /\ Wpc = "idle" /\ job = NoJob /\ stray = FALSE /\ ~Closed
  <1>1. /\ queue \in Seq(JobSet) /\ outbox["caller"] \in MaybeJob /\ outbox["audio"] \in MaybeJob
        /\ Pending \in Seq(JobSet)
    BY JobTypes DEF IInv
  <1>2. Wpc = "idle" /\ queue # <<>> /\ Head(queue).kind = kind
    BY DEF Turn, Wpc
  <1>3. job = NoJob /\ stray = FALSE
    BY <1>2 DEF IInv, WorkerInv, Shape, TypeOK
  <1>4. /\ Line(Head(queue), Tail(queue), outbox["caller"], outbox["audio"], FALSE) = Line(NoJob, queue, outbox["caller"], outbox["audio"], FALSE)
        /\ Head(queue) \in JobSet
    <2>1. \A q \in Seq(JobSet), c \in MaybeJob, a \in MaybeJob : q # <<>> =>
             /\ Line(Head(q), Tail(q), c, a, FALSE) = Line(NoJob, q, c, a, FALSE)
             /\ Head(q) \in JobSet
      BY LineTake
    <2> QED
      BY <1>1, <1>2, <2>1
  <1>5. Pending = Line(Head(queue), Tail(queue), outbox["caller"], outbox["audio"], FALSE)
    BY <1>3, <1>4, PendingIsLine
  <1>6. Pending # <<>> /\ Pending[1] = Head(queue)
    <2>1. \A h \in JobSet, q \in Seq(JobSet), c \in MaybeJob, a \in MaybeJob :
             Line(h, q, c, a, FALSE) # <<>> /\ Line(h, q, c, a, FALSE)[1] = h
      BY LineFinish
    <2>2. Tail(queue) \in Seq(JobSet)
      BY <1>1, <1>2
    <2> QED
      BY <1>1, <1>4, <1>5, <2>1, <2>2
  <1>7. ~Closed
    BY <1>6 DEF IInv, JobsInv
  <1>8. 1 \in DOMAIN Pending
    BY <1>1, <1>6
  <1>9. InTurn
    <2>1. Pending[1].order = (stream.pointer + 1 - 1) % OrderLimit
      BY <1>7, <1>8 DEF IInv, JobsInv, JobsInOrder
    <2>2. stream.pointer \in 0 .. OrderLimit - 1 /\ OrderLimit \in Nat \ {0}
      BY Numbers DEF IInv, Shape, TypeOK, StreamSet
    <2>3. (stream.pointer + 1 - 1) % OrderLimit = stream.pointer
      <3>1. \A p \in 0 .. OrderLimit - 1 : (p + 1 - 1) % OrderLimit = p
        <4> SUFFICES ASSUME NEW p \in 0 .. OrderLimit - 1 PROVE (p + 1 - 1) % OrderLimit = p
          OBVIOUS
        <4>1. p + 1 - 1 = OrderLimit * 0 + p
          BY <2>2
        <4>2. (OrderLimit * 0 + p) % OrderLimit = p
          BY <2>2, OneRemainder
        <4> QED
          BY <4>1, <4>2
      <3> QED
        BY <2>2, <3>1
    <2> QED
      BY <1>6, <2>1, <2>3 DEF InTurn
  <1>10. Kind(1) = kind
    BY <1>2, <1>6 DEF Kind
  <1> QED
    BY <1>1, <1>2, <1>3, <1>4, <1>6, <1>7, <1>8, <1>9, <1>10

\* It goes from the queue to the hand, and the line stays.
LEMMA GetFacts ==
    ASSUME IInv, NEW kind, Turn(kind), Fifo!Get("worker"), UNCHANGED <<outbox, stray>>
    PROVE  /\ Pending' = Pending /\ job' = Head(queue) /\ queue' \in Seq(JobSet)
           /\ hand' \in [{"worker"} -> JobSet \union {NoJob}]
  <1>1. /\ Pending # <<>> /\ Pending[1] = Head(queue) /\ Head(queue) \in JobSet
        /\ queue \in Seq(JobSet) /\ queue # <<>> /\ job = NoJob /\ stray = FALSE
    BY TurnFacts
  <1>2. hand' = [hand EXCEPT !["worker"] = Head(queue)] /\ queue' = Tail(queue)
    BY DEF Fifo!Get
  <1>3. hand' \in [{"worker"} -> JobSet \union {NoJob}] /\ job' = Head(queue)
    BY <1>1, <1>2 DEF IInv, Shape, job
  <1>4. queue' \in Seq(JobSet)
    BY <1>1, <1>2
  <1>5. Pending' = Pending
    <2>1. outbox["caller"] \in MaybeJob /\ outbox["audio"] \in MaybeJob
      BY JobTypes DEF IInv
    <2>2. Pending' = Line(job', queue', outbox'["caller"], outbox'["audio"], stray')
      BY DEF Pending, InHand, Posting, Line, job
    <2>3. Pending' = Line(Head(queue), Tail(queue), outbox["caller"], outbox["audio"], FALSE)
      BY <1>1, <1>2, <1>3, <2>2
    <2>4. Pending = Line(NoJob, queue, outbox["caller"], outbox["audio"], FALSE)
      BY <1>1, PendingIsLine
    <2>5. \A q \in Seq(JobSet), c \in MaybeJob, a \in MaybeJob : q # <<>> =>
             Line(Head(q), Tail(q), c, a, FALSE) = Line(NoJob, q, c, a, FALSE)
      BY LineTake
    <2> QED
      BY <1>1, <2>1, <2>3, <2>4, <2>5
  <1> QED
    BY <1>3, <1>4, <1>5

\* The first that is pending is over: it counts no more.
LEMMA JobsOver ==
    ASSUME IInv, Pending' = Pending, Pending # <<>>, FirstOver', ~FirstOver
    PROVE  /\ \A i : Kind(i)' = Kind(i)
           /\ \A i : Over(i)' <=> i = 1
           /\ \A i : ~Over(i)
           /\ SeeksLeft' = SeeksLeft \ {1}
           /\ \A i : PageJob(i)' <=> PageJob(i) /\ i # 1
  <1>1. \A i : Kind(i)' = Kind(i)
    BY DEF Kind
  <1>2. \A i : (Over(i)' <=> i = 1) /\ ~Over(i)
    BY DEF Over, FirstOver
  <1>3. SeeksLeft' \subseteq SeeksLeft \ {1}
    BY <1>1, <1>2 DEF SeeksLeft
  <1>4. SeeksLeft \ {1} \subseteq SeeksLeft'
    BY <1>1, <1>2 DEF SeeksLeft
  <1>5. \A i : PageJob(i)' <=> PageJob(i) /\ i # 1
    BY <1>1, <1>2 DEF PageJob
  <1> QED
    BY <1>1, <1>2, <1>3, <1>4, <1>5

\* A page or a seek that is over keeps the line in order.
LEMMA JobsInvOver ==
    ASSUME IInv, Pending' = Pending, Pending # <<>>, FirstOver', ~FirstOver, Kind(1) \in {"page", "seek"},
           stream'.result = stream.result, stream'.counter = stream.counter, stream'.pointer = stream.pointer,
           Cpc' = Cpc, done' = done
    PROVE  JobsInv' /\ ~Loading /\ ~LoadTold
  <1>1. /\ \A i : Kind(i)' = Kind(i)
        /\ \A i : Over(i)' <=> i = 1
    BY JobsOver
  <1>2. ~Loading
    BY DEF IInv, JobsInv
  <1>3. ~LoadTold
    <2>1. Pending \in Seq(JobSet)
      BY JobTypes DEF IInv
    <2>2. Len(Pending) \in Nat /\ Len(Pending) # 0
      BY <2>1
    <2>3. LoadTold => Len(Pending) <= 1 /\ (Len(Pending) = 1 => Kind(1) = "load")
      BY DEF IInv, JobsInv, LoadTold
    <2>4. LoadTold => Len(Pending) # 1
      BY <2>3
    <2>5. \A k \in Nat : k # 0 /\ k # 1 => ~(k <= 1)
      OBVIOUS
    <2>6. LoadTold => Len(Pending) <= 1
      BY <2>3
    <2> QED
      BY <2>2, <2>4, <2>5, <2>6
  <1>4. JobsInOrder' /\ Closed' = Closed
    <2>1. Closed' = Closed
      BY DEF Closed, Cpc
    <2> QED
      BY <2>1 DEF IInv, JobsInv, JobsInOrder
  <1>5. ~Loading' /\ ~LoadTold' /\ Freeing' = Freeing
    <2>1. Loading' = Loading /\ LoadTold' = LoadTold /\ Freeing' = Freeing
      BY DEF Loading, LoadTold, Freeing
    <2> QED
      BY <1>2, <1>3, <2>1
  <1>6. JobsInv'
    BY <1>1, <1>2, <1>4, <1>5 DEF IInv, JobsInv, LoadTold, Freeing
  <1> QED
    BY <1>2, <1>3, <1>6

\* What the job thread does to no other thread.
LEMMA WorkerGoes ==
    ASSUME IInv, NEW where \in WorkerSet, Goto("worker", where)
    PROVE  /\ pc' \in [Threads -> AllSteps] /\ Wpc' = where /\ Cpc' = Cpc /\ Apc' = Apc
           /\ pc'["worker"] = where /\ pc'["caller"] = pc["caller"] /\ pc'["audio"] = pc["audio"]
           /\ where \in Processing \union {"idle"}
  <1>1. "worker" \in Threads /\ where \in AllSteps
    BY DEF Threads, AllSteps
  <1>2. /\ pc' \in [Threads -> AllSteps] /\ pc'["worker"] = where
        /\ \A u \in Threads \ {"worker"} : pc'[u] = pc[u]
    BY <1>1, GotoStep DEF IInv
  <1> QED
    BY <1>2 DEF Threads, Wpc, Cpc, Apc, WorkerSet

LEMMA OthersKeep ==
    ASSUME IInv, Cpc' = Cpc, Apc' = Apc, UNCHANGED <<gate, held, sound, outbox, target, done>>,
           stream'.result = stream.result
    PROVE  CallerInv' /\ OutboxInv' /\ AudioInv'
  BY DEF IInv, CallerInv, OutboxInv, AudioInv, Loading

BeginStep == BeginLoad \/ BeginPage \/ BeginSeek \/ BeginFree

LEMMA BeginKeeps ==
    ASSUME IInv, BeginStep
    PROVE  IInv'
  <1> USE Numbers
  <1>1. PICK kind \in {"load", "page", "seek", "free"} :
           /\ Turn(kind)
           /\ kind = "load" => BeginLoad
           /\ kind = "page" => BeginPage
           /\ kind = "seek" => BeginSeek
           /\ kind = "free" => BeginFree
    BY DEF BeginStep, BeginLoad, BeginPage, BeginSeek, BeginFree, Turn
  <1>2. /\ InTurn /\ Pending # <<>> /\ Pending[1] = Head(queue) /\ Kind(1) = kind /\ Head(queue) \in JobSet
        /\ 1 \in DOMAIN Pending
        /\ Wpc = "idle" /\ job = NoJob /\ stray = FALSE /\ ~Closed
    BY <1>1, TurnFacts
  <1>3. /\ Fifo!Get("worker")
        /\ UNCHANGED <<gate, held, sound, outbox, target, mapped, got, empty, looping, stray, done>>
    BY <1>1, <1>2 DEF BeginLoad, BeginPage, BeginSeek, BeginFree, gateVars, readVars
  <1>4. /\ Pending' = Pending /\ job' = Head(queue) /\ queue' \in Seq(JobSet)
        /\ hand' \in [{"worker"} -> JobSet \union {NoJob}]
    BY <1>1, <1>3, GetFacts
  <1>5. /\ Head(queue).kind = kind /\ Head(queue) # NoJob
        /\ kind = "page" => Head(queue).arg \in Pages
        /\ kind = "seek" => Head(queue).arg \in Frames
    <2>1. Kind(1) = "page" => Pending[1].arg \in Pages
      BY <1>2 DEF IInv, JobsInv
    <2>2. Kind(1) = "seek" => Pending[1].arg \in Frames
      BY <1>2 DEF IInv, JobsInv
    <2>3. Head(queue).kind = kind
      BY <1>2 DEF Kind
    <2> QED
      BY <1>2, <2>1, <2>2, <2>3
  <1>6. PICK where \in {"decode", "fail", "advance", "free"} :
           /\ Goto("worker", where)
           /\ where = "decode" => kind # "free" /\ (kind = "page" => filling' = Head(queue).arg)
           /\ where = "fail" => kind = "load"
           /\ where = "free" => kind = "free"
           /\ where = "advance" => kind \in {"page", "seek"} /\ stream.result # "success"
    <2>1. CASE kind = "load"
      BY <1>1, <1>2, <2>1 DEF BeginLoad
    <2>2. CASE kind = "page"
      BY <1>1, <1>2, <2>2 DEF BeginPage
    <2>3. CASE kind = "seek"
      BY <1>1, <1>2, <2>3 DEF BeginSeek
    <2>4. CASE kind = "free"
      BY <1>1, <1>2, <2>4 DEF BeginFree
    <2> QED
      BY <2>1, <2>2, <2>3, <2>4
  <1>7. /\ pc' \in [Threads -> AllSteps] /\ Wpc' = where /\ Cpc' = Cpc /\ Apc' = Apc
        /\ pc'["worker"] = where /\ pc'["caller"] = pc["caller"] /\ pc'["audio"] = pc["audio"]
        /\ where \in Processing \union {"idle"}
    <2>1. where \in WorkerSet
      BY DEF WorkerSet, Processing
    <2> QED
      BY <1>6, <2>1, WorkerGoes
  <1>8. filling' \in Pages
    <2>1. 0 \in Pages /\ filling \in Pages
      BY DEF Pages, IInv, Shape, TypeOK
    <2> QED
      BY <1>1, <1>2, <1>5, <2>1 DEF BeginLoad, BeginPage, BeginSeek, BeginFree
  <1>9. /\ stream' \in StreamSet /\ stream'.data = stream.data
        /\ stream'.result = stream.result /\ stream'.seeks = stream.seeks /\ stream'.valid = stream.valid
        /\ stream'.counter = stream.counter /\ stream'.pointer = stream.pointer
        /\ stream'.page = stream.page /\ stream'.rel = stream.rel
    <2>1. stream \in StreamSet
      BY DEF IInv, Shape, TypeOK
    <2>2. CASE UNCHANGED stream
      BY <2>1, <2>2
    <2>3. CASE kind = "seek" /\ stream' = [stream EXCEPT !.decoder = Head(queue).arg]
      <3>1. Head(queue).arg \in 0 .. Total
        BY <1>5, <2>3 DEF Frames
      <3> QED
        BY <2>1, <2>3, <3>1 DEF StreamSet
    <2> QED
      BY <1>1, <1>2, <2>2, <2>3 DEF BeginLoad, BeginPage, BeginSeek, BeginFree
  <1>10. Loading' = Loading /\ Closed' = Closed /\ Freeing' = Freeing /\ LoadTold' = LoadTold /\ ~FirstOver
    BY <1>2, <1>3, <1>7, <1>9 DEF Loading, Closed, Freeing, LoadTold, FirstOver
  <1>11. JobsInv' /\ SeeksInv' /\ PagesInv' /\ (SeeksLeft = {} => SeeksLeft' = {})
    <2>1. CASE where # "advance"
      <3>1. FirstOver' = FirstOver
        BY <1>7, <1>10, <2>1 DEF FirstOver
      <3> QED
        BY <1>4, <1>9, <1>10, <3>1, JobsSame
    <2>2. CASE where = "advance"
      <3>1. FirstOver' /\ Kind(1) \in {"page", "seek"} /\ stream.result # "success"
        BY <1>2, <1>3, <1>6, <1>7, <2>2 DEF FirstOver
      <3>2. JobsInv' /\ ~Loading /\ ~LoadTold
        BY <1>2, <1>3, <1>4, <1>7, <1>9, <1>10, <3>1, JobsInvOver
      <3>3. SeeksLeft' = SeeksLeft \ {1}
        BY <1>2, <1>4, <1>10, <3>1, JobsOver
      <3>4. stream.result = "unavailable"
        BY <1>2, <3>1, <3>2, ResultSays
      <3>5. SeeksInv'
        <4>1. Cardinality(SeeksLeft') <= Cardinality(SeeksLeft) /\ Cardinality(SeeksLeft') \in Nat
          <5>1. IsFiniteSet(SeeksLeft) /\ SeeksLeft' \subseteq SeeksLeft
            BY <3>3, SeeksCount DEF IInv
          <5> QED
            BY <5>1, FS_Subset, FS_CardinalityType
        <4>2. Cardinality(SeeksLeft) \in Nat /\ Cardinality(SeeksLeft) <= stream.seeks /\ stream.seeks \in Nat
          BY SeeksCount DEF IInv, SeeksInv, Shape, TypeOK, StreamSet
        <4>3. Cardinality(SeeksLeft') <= stream.seeks
          BY <4>1, <4>2
        <4> QED
          BY <1>9, <3>4, <4>3 DEF SeeksInv
      <3>6. PagesInv'
        BY <1>9, <3>4 DEF PagesInv
      <3> QED
        BY <3>2, <3>3, <3>5, <3>6
    <2> QED
      BY <2>1, <2>2
  <1>12. CallerInv' /\ OutboxInv' /\ AudioInv'
    BY <1>3, <1>7, <1>9, OthersKeep
  <1>13. WorkerInv'
    BY <1>2, <1>3, <1>4, <1>5, <1>6, <1>7 DEF WorkerInv
  <1>14. CopyInv'
    BY <1>3, <1>7, <1>9, <1>11 DEF IInv, CopyInv
  <1>15. Shape'
    <2>1. TypeOK'
      BY <1>3, <1>4, <1>7, <1>8, <1>9 DEF IInv, Shape, TypeOK
    <2> QED
      BY <1>3, <1>4, <1>7, <1>9, <2>1 DEF IInv, Shape, AllSteps
  <1> QED
    BY <1>11, <1>12, <1>13, <1>14, <1>15 DEF IInv

-----------------------------------------------------------------------------
(***************************************************************************)
(* The job thread fills pages.                                             *)
(***************************************************************************)
\* While pages are filled the job in hand is the first that is pending, and
\* not yet over; it is a load, a seek, or the job of the page.
LEMMA FillFacts ==
    ASSUME IInv, Wpc \in {"decode", "validate", "sought", "succeed", "fail"}
    PROVE  /\ stray = FALSE /\ Pending # <<>> /\ Pending[1] = job /\ 1 \in DOMAIN Pending
           /\ job.kind = Kind(1) /\ ~FirstOver /\ ~Closed /\ \A i : ~Over(i)
           /\ Kind(1) = "load" => Loading /\ Len(Pending) = 1 /\ stream.result = "busy"
           /\ Kind(1) = "seek" => 1 \in SeeksLeft
           /\ Wpc \in {"decode", "validate"} /\ Kind(1) = "page" => filling = Pending[1].arg /\ PageJob(1)
           /\ Kind(1) \in {"load", "page", "seek"}
  <1>1. stray = FALSE
    BY DEF IInv, WorkerInv, Shape, TypeOK
  <1>2. Pending # <<>> /\ Pending[1] = job /\ job \in JobSet
    BY <1>1, HandFirst
  <1>3. 1 \in DOMAIN Pending
    BY <1>2, JobTypes DEF IInv
  <1>4. ~FirstOver /\ ~Closed /\ \A i : ~Over(i)
    BY <1>2 DEF FirstOver, Over, IInv, JobsInv
  <1>5. job.kind = Kind(1)
    BY <1>2 DEF Kind
  <1>6. Kind(1) = "load" => Loading /\ Len(Pending) = 1 /\ stream.result = "busy"
    <2>1. Kind(1) = "load" => Loading
      BY <1>3, <1>4 DEF IInv, JobsInv
    <2> QED
      BY <2>1, ResultSays DEF IInv, JobsInv
  <1>7. Kind(1) = "seek" => 1 \in SeeksLeft
    BY <1>3, <1>4 DEF SeeksLeft
  <1>8. Wpc \in {"decode", "validate"} /\ Kind(1) = "page" => filling = Pending[1].arg /\ PageJob(1)
    BY <1>2, <1>4, <1>5 DEF IInv, WorkerInv, PageJob
  <1>9. Kind(1) \in {"load", "page", "seek"}
    BY <1>2, <1>5 DEF IInv, WorkerInv, JobSet
  <1> QED
    BY <1>1, <1>2, <1>3, <1>4, <1>5, <1>6, <1>7, <1>8, <1>9

\* The page that is copied from is not the page that is filled.
LEMMA FillApart ==
    ASSUME IInv, Apc = "copy", Wpc \in {"decode", "validate", "sought", "succeed", "fail"}
    PROVE  /\ Kind(1) = "page" /\ stream.result = "success"
           /\ Wpc \in {"decode", "validate"} => filling # stream.page
  <1>1. stream.result = "success" /\ SeeksLeft = {} /\ stream.valid[stream.page]
    BY Apart DEF IInv, CopyInv
  <1>2. Kind(1) = "page"
    BY <1>1, FillFacts
  <1>3. Wpc \in {"decode", "validate"} => ~stream.valid[filling]
    BY <1>1, <1>2, FillFacts DEF IInv, PagesInv
  <1> QED
    BY <1>1, <1>2, <1>3

LEMMA DecodeKeeps ==
    ASSUME IInv, Decode
    PROVE  IInv'
  <1> USE Numbers
  <1>1. /\ pc["worker"] = "decode" /\ Goto("worker", "validate")
        /\ stream' = [stream EXCEPT
                         !.data[filling] = Decoded,
                         !.decoder = IF Decoded = <<>> THEN @ ELSE Last(Decoded) + 1,
                         !.decoderAtEnd = @ \/ Len(Decoded) < PageSize]
        /\ UNCHANGED <<gate, held, queue, hand, sound, outbox, target, mapped, got, empty, looping, filling, done, stray>>
    BY DEF Decode, gateVars, jobVars, readVars
  <1>2. Wpc = "decode"
    BY <1>1 DEF Wpc
  <1>3. stray = FALSE /\ ~FirstOver /\ job.kind = Kind(1)
    BY <1>2, FillFacts
  <1>4. /\ pc' \in [Threads -> AllSteps] /\ Wpc' = "validate" /\ Cpc' = Cpc /\ Apc' = Apc
        /\ pc'["worker"] = "validate" /\ pc'["caller"] = pc["caller"] /\ pc'["audio"] = pc["audio"]
        /\ "validate" \in Processing \union {"idle"}
    <2>1. "validate" \in WorkerSet
      BY DEF WorkerSet, Processing
    <2> QED
      BY <1>1, <2>1, WorkerGoes
  <1>5. stream \in StreamSet /\ filling \in Pages
    BY DEF IInv, Shape, TypeOK
  <1>6. /\ Decoded \in Seq(Frames) /\ Len(Decoded) <= PageSize
        /\ Decoded # <<>> => Last(Decoded) \in Frames
    BY DecodedType DEF IInv, Shape
  <1>7. /\ stream' \in StreamSet /\ stream'.data = [stream.data EXCEPT ![filling] = Decoded]
        /\ stream'.result = stream.result /\ stream'.seeks = stream.seeks /\ stream'.valid = stream.valid
        /\ stream'.counter = stream.counter /\ stream'.pointer = stream.pointer
        /\ stream'.page = stream.page /\ stream'.rel = stream.rel
    <2> DEFINE d == Decoded
               u == IF d = <<>> THEN stream.decoder ELSE Last(d) + 1
               e == stream.decoderAtEnd \/ Len(d) < PageSize
    <2>1. u \in 0 .. Total
      <3>1. d # <<>> => Last(d) + 1 \in 0 .. Total
        BY <1>6 DEF Frames
      <3>2. stream.decoder \in 0 .. Total
        BY <1>5 DEF StreamSet
      <3> QED
        BY <3>1, <3>2
    <2>2. e \in BOOLEAN
      BY <1>5 DEF StreamSet
    <2>3. stream' = [stream EXCEPT !.data[filling] = d, !.decoder = u, !.decoderAtEnd = e]
      BY <1>1, <1>5 DEF StreamSet
    <2>4. d \in Seq(Frames)
      BY <1>6
    <2> HIDE DEF d, u, e
    <2>5. [stream.data EXCEPT ![filling] = d] \in [Pages -> Seq(Frames)]
      BY <1>5, <2>4 DEF StreamSet
    <2>6. stream' = [stream EXCEPT !.data = [stream.data EXCEPT ![filling] = d], !.decoder = u, !.decoderAtEnd = e]
      BY <1>5, <2>3 DEF StreamSet
    <2>7. /\ stream' \in StreamSet /\ stream'.data = [stream.data EXCEPT ![filling] = d]
          /\ stream'.result = stream.result /\ stream'.seeks = stream.seeks /\ stream'.valid = stream.valid
          /\ stream'.counter = stream.counter /\ stream'.pointer = stream.pointer
          /\ stream'.page = stream.page /\ stream'.rel = stream.rel
      BY <1>5, <2>1, <2>2, <2>5, <2>6 DEF StreamSet
    <2> QED
      BY <2>7 DEF d
  <1>8. job' = job /\ Pending' = Pending
    BY <1>1 DEF Pending, InHand, Posting, job
  <1>9. Loading' = Loading /\ Closed' = Closed /\ Freeing' = Freeing /\ LoadTold' = LoadTold /\ FirstOver' = FirstOver
    BY <1>1, <1>2, <1>4, <1>7 DEF Loading, Closed, Freeing, LoadTold, FirstOver
  <1>10. JobsInv' /\ SeeksInv' /\ PagesInv' /\ SeeksLeft' = SeeksLeft
    BY <1>7, <1>8, <1>9, JobsSame
  <1>11. CallerInv' /\ OutboxInv' /\ AudioInv'
    BY <1>1, <1>4, <1>7, OthersKeep
  <1>12. WorkerInv'
    BY <1>1, <1>2, <1>3, <1>4, <1>8 DEF IInv, WorkerInv
  <1>13. CopyInv'
    <2>1. ASSUME Apc = "copy" PROVE stream'.data[stream.page] = stream.data[stream.page]
      <3>1. filling # stream.page
        BY <1>2, <2>1, FillApart
      <3>2. stream.page \in Pages /\ stream.data \in [Pages -> Seq(Frames)]
        BY <1>5 DEF StreamSet
      <3> QED
        BY <1>7, <3>1, <3>2
    <2> QED
      BY <1>1, <1>4, <1>7, <1>10, <2>1 DEF IInv, CopyInv
  <1>14. Shape'
    <2>1. TypeOK'
      BY <1>1, <1>4, <1>7 DEF IInv, Shape, TypeOK
    <2>2. \A p \in Pages : Len(stream'.data[p]) <= PageSize
      <3>1. stream.data \in [Pages -> Seq(Frames)]
        BY <1>5 DEF StreamSet
      <3>2. \A p \in Pages : stream'.data[p] = Decoded \/ stream'.data[p] = stream.data[p]
        BY <1>7, <3>1
      <3> QED
        BY <1>6, <3>2 DEF IInv, Shape
    <2> QED
      BY <1>1, <1>4, <2>1, <2>2 DEF IInv, Shape, AllSteps
  <1> QED
    BY <1>10, <1>11, <1>12, <1>13, <1>14 DEF IInv

LEMMA ValidateKeeps ==
    ASSUME IInv, Validate
    PROVE  IInv'
  <1> USE Numbers
  <1>1. /\ pc["worker"] = "validate"
        /\ stream' = [stream EXCEPT !.valid[filling] = TRUE]
        /\ UNCHANGED <<gate, held, queue, hand, sound, outbox, target, mapped, got, empty, looping, done, stray>>
    BY DEF Validate, gateVars, jobVars, readVars
  <1>2. Wpc = "validate"
    BY <1>1 DEF Wpc
  <1>3. /\ stray = FALSE /\ Pending # <<>> /\ Pending[1] = job /\ 1 \in DOMAIN Pending
        /\ job.kind = Kind(1) /\ ~FirstOver /\ ~Closed /\ \A i : ~Over(i)
        /\ Kind(1) = "load" => Loading /\ Len(Pending) = 1 /\ stream.result = "busy"
        /\ Kind(1) = "seek" => 1 \in SeeksLeft
        /\ Kind(1) = "page" => filling = Pending[1].arg /\ PageJob(1)
        /\ Kind(1) \in {"load", "page", "seek"}
    BY <1>2, FillFacts
  <1>4. PICK where \in {"decode", "succeed", "sought", "advance"} :
           /\ Goto("worker", where) /\ filling' \in Pages
           /\ where \in {"decode", "sought"} => Kind(1) # "page"
           /\ where = "succeed" => Kind(1) = "load"
           /\ where = "sought" => Kind(1) = "seek"
           /\ where = "advance" => Kind(1) = "page"
    BY <1>3 DEF Validate, Pages
  <1>5. /\ pc' \in [Threads -> AllSteps] /\ Wpc' = where /\ Cpc' = Cpc /\ Apc' = Apc
        /\ pc'["worker"] = where /\ pc'["caller"] = pc["caller"] /\ pc'["audio"] = pc["audio"]
        /\ where \in Processing \union {"idle"}
    <2>1. where \in WorkerSet
      BY DEF WorkerSet, Processing
    <2> QED
      BY <1>4, <2>1, WorkerGoes
  <1>6. stream \in StreamSet /\ filling \in Pages
    BY DEF IInv, Shape, TypeOK
  <1>7. /\ stream' \in StreamSet /\ stream'.data = stream.data
        /\ stream'.result = stream.result /\ stream'.seeks = stream.seeks
        /\ stream'.counter = stream.counter /\ stream'.pointer = stream.pointer
        /\ stream'.page = stream.page /\ stream'.rel = stream.rel
        /\ stream'.valid = [stream.valid EXCEPT ![filling] = TRUE]
    <2> DEFINE v == [stream.valid EXCEPT ![filling] = TRUE]
    <2>1. v \in [Pages -> BOOLEAN]
      BY <1>6 DEF StreamSet
    <2>2. stream' = [stream EXCEPT !.valid = v]
      BY <1>1, <1>6 DEF StreamSet
    <2> HIDE DEF v
    <2>3. /\ stream' \in StreamSet /\ stream'.data = stream.data
          /\ stream'.result = stream.result /\ stream'.seeks = stream.seeks
          /\ stream'.counter = stream.counter /\ stream'.pointer = stream.pointer
          /\ stream'.page = stream.page /\ stream'.rel = stream.rel
          /\ stream'.valid = v
      BY <1>6, <2>1, <2>2 DEF StreamSet
    <2> QED
      BY <2>3 DEF v
  <1>8. job' = job /\ Pending' = Pending
    BY <1>1 DEF Pending, InHand, Posting, job
  <1>9. Loading' = Loading /\ Closed' = Closed /\ Freeing' = Freeing /\ LoadTold' = LoadTold
    BY <1>1, <1>5, <1>7 DEF Loading, Closed, Freeing, LoadTold
  <1>10. JobsInv' /\ SeeksLeft' = SeeksLeft /\ PagesInv'
    <2>1. CASE where # "advance"
      <3>1. FirstOver' = FirstOver
        BY <1>3, <1>5, <2>1 DEF FirstOver
      <3>2. \A i : Kind(i)' = Kind(i) /\ Over(i)' = Over(i)
        BY <1>8, <3>1 DEF Kind, Over, FirstOver
      <3>3. SeeksLeft' = SeeksLeft
        BY <1>8, <3>2 DEF SeeksLeft
      <3>4. JobsInv'
        <4>1. JobsInOrder'
          BY <1>7, <1>8, <1>9 DEF IInv, JobsInv, JobsInOrder
        <4> QED
          BY <1>7, <1>8, <1>9, <3>2, <4>1 DEF IInv, JobsInv, Freeing, LoadTold
      <3>5. PagesInv'
        <4>1. \A i : PageJob(i)' = PageJob(i)
          BY <3>2 DEF PageJob
        <4>2. Kind(1) = "load" \/ Kind(1) = "seek"
          BY <1>3, <1>4, <2>1
        <4>3. stream'.result = "success" => SeeksLeft # {}
          BY <1>3, <1>7, <4>2
        <4> QED
          BY <1>7, <1>8, <3>3, <4>1, <4>3 DEF IInv, PagesInv
      <3> QED
        BY <3>3, <3>4, <3>5
    <2>2. CASE where = "advance"
      <3>1. FirstOver' /\ Kind(1) = "page"
        BY <1>1, <1>3, <1>4, <1>5, <2>2 DEF FirstOver
      <3>2. JobsInv'
        BY <1>1, <1>3, <1>5, <1>7, <1>8, <3>1, JobsInvOver
      <3>3. SeeksLeft' = SeeksLeft \ {1} /\ \A i : PageJob(i)' <=> PageJob(i) /\ i # 1
        BY <1>3, <1>8, <3>1, JobsOver
      <3>4. SeeksLeft' = SeeksLeft
        BY <3>1, <3>3 DEF SeeksLeft
      <3>5. PagesInv'
        <4> SUFFICES ASSUME stream.result = "success", SeeksLeft = {} \/ SeeksLeft # {}
                     PROVE  /\ SeeksLeft # {} =>
                                 \A i \in DOMAIN Pending : PageJob(i)' => \E k \in SeeksLeft : i < k
                            /\ SeeksLeft = {} =>
                                 /\ \A i \in DOMAIN Pending : PageJob(i)' => ~stream'.valid[Pending[i].arg]
                                 /\ \A i, j \in DOMAIN Pending :
                                       PageJob(i)' /\ PageJob(j)' /\ Pending[i].arg = Pending[j].arg => i = j
          BY <1>7, <1>8, <3>4 DEF PagesInv
        <4>1. CASE SeeksLeft # {}
          BY <3>3, <4>1 DEF IInv, PagesInv
        <4>2. CASE SeeksLeft = {}
          <5>1. /\ \A i \in DOMAIN Pending : PageJob(i) => ~stream.valid[Pending[i].arg]
                /\ \A i, j \in DOMAIN Pending :
                      PageJob(i) /\ PageJob(j) /\ Pending[i].arg = Pending[j].arg => i = j
            BY <4>2 DEF IInv, PagesInv
          <5>2. ASSUME NEW i \in DOMAIN Pending, PageJob(i)' PROVE ~stream'.valid[Pending[i].arg]
            <6>1. PageJob(i) /\ i # 1
              BY <3>3, <5>2
            <6>2. PageJob(1) /\ filling = Pending[1].arg
              BY <1>3, <3>1
            <6>3. Pending[i].arg # filling /\ ~stream.valid[Pending[i].arg]
              BY <1>3, <5>1, <6>1, <6>2
            <6>4. Pending[i].arg \in Pages
              BY <6>1 DEF IInv, JobsInv, PageJob
            <6>5. stream.valid \in [Pages -> BOOLEAN]
              BY <1>6 DEF StreamSet
            <6> QED
              BY <1>7, <6>3, <6>4, <6>5
          <5> QED
            BY <3>3, <4>2, <5>1, <5>2
        <4> QED
          BY <4>1, <4>2
      <3> QED
        BY <3>2, <3>4, <3>5
    <2> QED
      BY <2>1, <2>2
  <1>11. SeeksInv'
    BY <1>7, <1>10 DEF IInv, SeeksInv
  <1>12. CallerInv' /\ OutboxInv' /\ AudioInv'
    BY <1>1, <1>5, <1>7, OthersKeep
  <1>13. WorkerInv'
    BY <1>1, <1>2, <1>3, <1>4, <1>5, <1>8 DEF IInv, WorkerInv
  <1>14. CopyInv'
    <2>1. stream.page \in Pages /\ stream.valid \in [Pages -> BOOLEAN]
      BY <1>6 DEF StreamSet
    <2>2. stream.valid[stream.page] => stream'.valid[stream.page]
      BY <1>6, <1>7, <2>1
    <2> QED
      BY <1>1, <1>5, <1>7, <1>10, <2>2 DEF IInv, CopyInv
  <1>15. Shape'
    <2>1. TypeOK'
      BY <1>1, <1>4, <1>5, <1>7 DEF IInv, Shape, TypeOK
    <2> QED
      BY <1>1, <1>5, <1>7, <2>1 DEF IInv, Shape, AllSteps
  <1> QED
    BY <1>10, <1>11, <1>12, <1>13, <1>14, <1>15 DEF IInv

LEMMA EndSeekKeeps ==
    ASSUME IInv, EndSeek
    PROVE  IInv'
  <1> USE Numbers
  <1>1. /\ pc["worker"] = "sought" /\ Goto("worker", "advance")
        /\ stream' = [stream EXCEPT !.seeks = @ - 1]
        /\ UNCHANGED <<gate, held, queue, hand, sound, outbox, target, mapped, got, empty, looping, filling, done, stray>>
    BY DEF EndSeek, gateVars, jobVars, readVars
  <1>2. Wpc = "sought"
    BY <1>1 DEF Wpc
  <1>3. /\ stray = FALSE /\ Pending # <<>> /\ Pending[1] = job /\ 1 \in DOMAIN Pending
        /\ job.kind = Kind(1) /\ ~FirstOver
        /\ Kind(1) = "seek" => 1 \in SeeksLeft
    BY <1>2, FillFacts
  <1>4. Kind(1) = "seek" /\ 1 \in SeeksLeft
    BY <1>2, <1>3 DEF IInv, WorkerInv
  <1>5. /\ pc' \in [Threads -> AllSteps] /\ Wpc' = "advance" /\ Cpc' = Cpc /\ Apc' = Apc
        /\ pc'["worker"] = "advance" /\ pc'["caller"] = pc["caller"] /\ pc'["audio"] = pc["audio"]
        /\ "advance" \in Processing \union {"idle"}
    <2>1. "advance" \in WorkerSet
      BY DEF WorkerSet, Processing
    <2> QED
      BY <1>1, <2>1, WorkerGoes
  <1>6. job' = job /\ Pending' = Pending
    BY <1>1 DEF Pending, InHand, Posting, job
  <1>7. FirstOver'
    BY <1>1, <1>3, <1>5 DEF FirstOver
  <1>8. SeeksLeft' = SeeksLeft \ {1} /\ \A i : PageJob(i)' <=> PageJob(i) /\ i # 1
    BY <1>3, <1>6, <1>7, JobsOver
  <1>9. /\ Cardinality(SeeksLeft) \in Nat /\ Cardinality(SeeksLeft) >= 1
        /\ Cardinality(SeeksLeft') = Cardinality(SeeksLeft) - 1
    <2>1. IsFiniteSet(SeeksLeft) /\ Cardinality(SeeksLeft) \in Nat
      BY SeeksCount DEF IInv
    <2>2. \A S, y : IsFiniteSet(S) /\ y \in S => Cardinality(S \ {y}) = Cardinality(S) - 1
      BY FS_RemoveElement
    <2>3. Cardinality(SeeksLeft') = Cardinality(SeeksLeft) - 1
      BY <1>4, <1>8, <2>1, <2>2
    <2>4. Cardinality(SeeksLeft) # 0
      BY <1>4, <2>1, FS_EmptySet
    <2> DEFINE c == Cardinality(SeeksLeft)
    <2>5. c \in Nat /\ c # 0
      BY <2>1, <2>4
    <2> HIDE DEF c
    <2>6. c >= 1
      BY <2>5
    <2> QED
      BY <2>1, <2>3, <2>6 DEF c
  <1>10. Cardinality(SeeksLeft) <= stream.seeks /\ stream.seeks \in Nat
    BY DEF IInv, SeeksInv, Shape, TypeOK, StreamSet
  <1>11. /\ stream' \in StreamSet /\ stream'.data = stream.data /\ stream'.valid = stream.valid
         /\ stream'.result = stream.result /\ stream'.seeks = stream.seeks - 1
         /\ stream'.counter = stream.counter /\ stream'.pointer = stream.pointer
         /\ stream'.page = stream.page /\ stream'.rel = stream.rel
    <2> DEFINE c == Cardinality(SeeksLeft)
    <2>1. c \in Nat /\ c >= 1 /\ c <= stream.seeks
      BY <1>9, <1>10
    <2> HIDE DEF c
    <2>2. stream.seeks - 1 \in Nat
      BY <1>10, <2>1
    <2>3. stream \in StreamSet
      BY DEF IInv, Shape, TypeOK
    <2> QED
      BY <1>1, <2>2, <2>3 DEF StreamSet
  <1>12. JobsInv'
    BY <1>1, <1>3, <1>4, <1>5, <1>6, <1>7, <1>11, JobsInvOver
  <1>13. SeeksInv'
    <2> DEFINE c == Cardinality(SeeksLeft)
               d == Cardinality(SeeksLeft')
    <2>1. c \in Nat /\ d = c - 1 /\ c <= stream.seeks /\ stream.seeks \in Nat
      BY <1>9, <1>10
    <2>2. stream.result # "unavailable" => stream.seeks = c
      BY DEF IInv, SeeksInv
    <2> HIDE DEF c, d
    <2>3. d <= stream.seeks - 1 /\ (stream.result # "unavailable" => stream.seeks - 1 = d)
      BY <2>1, <2>2
    <2> QED
      BY <1>11, <2>3 DEF SeeksInv, d
  <1>14. PagesInv'
    <2> SUFFICES ASSUME stream.result = "success"
                 PROVE  \A i \in DOMAIN Pending : PageJob(i)' => \E k \in SeeksLeft' : i < k
      BY <1>6, <1>11 DEF PagesInv
    <2>1. \A i \in DOMAIN Pending : PageJob(i) => \E k \in SeeksLeft : i < k
      BY <1>4 DEF IInv, PagesInv
    <2>2. DOMAIN Pending \subseteq Nat /\ 0 \notin DOMAIN Pending
      BY JobTypes DEF IInv
    <2>3. \A i \in DOMAIN Pending : ~(i < 1)
      BY <2>2
    <2> QED
      BY <1>8, <2>1, <2>3
  <1>15. CallerInv' /\ OutboxInv' /\ AudioInv'
    BY <1>1, <1>5, <1>11, OthersKeep
  <1>16. WorkerInv'
    BY <1>1, <1>2, <1>3, <1>4, <1>5, <1>6 DEF IInv, WorkerInv
  <1>17. CopyInv'
    BY <1>4, <1>5 DEF IInv, CopyInv
  <1>18. Shape'
    <2>1. TypeOK'
      BY <1>1, <1>5, <1>11 DEF IInv, Shape, TypeOK
    <2> QED
      BY <1>1, <1>5, <1>11, <2>1 DEF IInv, Shape, AllSteps
  <1> QED
    BY <1>12, <1>13, <1>14, <1>15, <1>16, <1>17, <1>18 DEF IInv

\* While the caller is about to post a job, the job in hand is not the only
\* one: the caller waits for the job that is.
LEMMA CallerWaits ==
    ASSUME IInv, Wpc # "idle", stray = FALSE, Len(Pending) = 1
    PROVE  Cpc \notin {"post_load", "post_free", "post_rewind"}
  <1> SUFFICES ASSUME outbox["caller"] # NoJob PROVE FALSE
    BY DEF IInv, OutboxInv
  <1>1. /\ job \in MaybeJob /\ queue \in Seq(JobSet)
        /\ outbox["caller"] \in MaybeJob /\ outbox["audio"] \in MaybeJob
    BY JobTypes DEF IInv
  <1>2. PICK h \in JobSet, c \in JobSet : h = job /\ c = outbox["caller"] /\ h # NoJob /\ c # NoJob
    BY <1>1 DEF IInv, WorkerInv, MaybeJob
  <1>3. Pending = (<<h>> \o queue) \o (<<c>> \o Known(outbox["audio"]))
    <2>1. h \in MaybeJob /\ c \in MaybeJob
      BY <1>2 DEF MaybeJob
    <2>2. Known(h) = <<h>> /\ Known(c) = <<c>>
      BY <1>2, <2>1, KnownType
    <2> QED
      BY <1>2, <2>2 DEF Pending, InHand, Posting
  <1> DEFINE k == Known(outbox["audio"])
  <1>4. k \in Seq(JobSet)
    BY <1>1, KnownType
  <1> HIDE DEF k
  <1>5. \A q \in Seq(JobSet), a \in Seq(JobSet) : Len((<<h>> \o q) \o (<<c>> \o a)) = 2 + Len(q) + Len(a)
    OBVIOUS
  <1>6. Len(Pending) = 2 + Len(queue) + Len(k)
    BY <1>1, <1>3, <1>4, <1>5 DEF k
  <1> DEFINE n == Len(queue)
             m == Len(k)
  <1>7. n \in Nat /\ m \in Nat /\ 2 + n + m = 1
    BY <1>1, <1>4, <1>6
  <1> HIDE DEF n, m
  <1> QED
    BY <1>7

LEMMA EndLoadKeeps ==
    ASSUME IInv, EndLoad
    PROVE  IInv'
  <1> USE Numbers
  <1>1. /\ pc["worker"] \in {"succeed", "fail"} /\ Goto("worker", "advance") /\ done' = TRUE
        /\ stream' = [stream EXCEPT !.result = IF pc["worker"] = "succeed" THEN "success" ELSE "failed"]
        /\ UNCHANGED <<gate, held, queue, hand, sound, outbox, target, mapped, got, empty, looping, filling, stray>>
    BY DEF EndLoad, gateVars, jobVars, readVars
  <1>2. Wpc \in {"succeed", "fail"}
    BY <1>1 DEF Wpc
  <1>3. /\ stray = FALSE /\ Pending # <<>> /\ Pending[1] = job /\ 1 \in DOMAIN Pending
        /\ job.kind = Kind(1) /\ ~FirstOver /\ ~Closed
        /\ Kind(1) = "load" => Loading /\ Len(Pending) = 1 /\ stream.result = "busy"
    BY <1>2, FillFacts
  <1>4. Kind(1) = "load" /\ Loading /\ Len(Pending) = 1 /\ stream.result = "busy"
    BY <1>2, <1>3 DEF IInv, WorkerInv
  <1>5. Cpc = "await_load" /\ gate["sound"] = "out"
    <2>1. Cpc \notin {"post_load", "post_free", "post_rewind"}
      BY <1>2, <1>3, <1>4, CallerWaits
    <2> QED
      BY <1>4, <2>1 DEF Loading, IInv, CallerInv
  <1>6. Apc = "idle" /\ held = {}
    BY <1>5, BusOut
  <1>7. /\ pc' \in [Threads -> AllSteps] /\ Wpc' = "advance" /\ Cpc' = Cpc /\ Apc' = Apc
        /\ pc'["worker"] = "advance" /\ pc'["caller"] = pc["caller"] /\ pc'["audio"] = pc["audio"]
        /\ "advance" \in Processing \union {"idle"}
    <2>1. "advance" \in WorkerSet
      BY DEF WorkerSet, Processing
    <2> QED
      BY <1>1, <2>1, WorkerGoes
  <1>8. job' = job /\ Pending' = Pending
    BY <1>1 DEF Pending, InHand, Posting, job
  <1>9. /\ stream' \in StreamSet /\ stream'.data = stream.data /\ stream'.valid = stream.valid
        /\ stream'.result \in {"success", "failed"} /\ stream'.seeks = stream.seeks
        /\ stream'.counter = stream.counter /\ stream'.pointer = stream.pointer
    <2>1. stream \in StreamSet
      BY DEF IInv, Shape, TypeOK
    <2> QED
      BY <1>1, <2>1 DEF StreamSet
  <1>10. FirstOver' /\ ~Loading' /\ LoadTold' /\ ~Freeing' /\ ~Closed'
    BY <1>1, <1>3, <1>5, <1>7, <1>9 DEF FirstOver, Loading, LoadTold, Freeing, Closed, Cpc
  <1>11. /\ \A i : Kind(i)' = Kind(i)
         /\ \A i : Over(i)' <=> i = 1
         /\ SeeksLeft' = SeeksLeft \ {1}
    BY <1>3, <1>8, <1>10, JobsOver
  <1>12. DOMAIN Pending = {1} /\ Pending \in Seq(JobSet)
    <2>1. Pending \in Seq(JobSet)
      BY JobTypes DEF IInv
    <2> QED
      BY <1>4, <2>1
  <1>13. JobsInv'
    <2>1. JobsInOrder'
      BY <1>3, <1>8, <1>9 DEF IInv, JobsInv, JobsInOrder
    <2>2. \A i \in {1} : Kind(i)' = "load"
      BY <1>4, <1>11
    <2>3. Len(Pending) <= 1
      BY <1>4
    <2> QED
      BY <1>4, <1>8, <1>10, <1>11, <1>12, <2>1, <2>2, <2>3 DEF JobsInv, LoadTold, Freeing
  <1>14. SeeksInv' /\ PagesInv'
    <2>1. SeeksLeft = {} /\ SeeksLeft' = {}
      BY <1>4, <1>11, <1>12 DEF SeeksLeft
    <2>2. \A i \in DOMAIN Pending : ~PageJob(i)'
      BY <1>4, <1>11, <1>12 DEF PageJob
    <2>3. SeeksInv'
      <3>1. stream.seeks = 0 /\ Cardinality(SeeksLeft') = 0
        BY <1>4, <2>1, SeeksCount, FS_EmptySet DEF IInv
      <3> QED
        BY <1>9, <3>1 DEF SeeksInv
    <2> QED
      BY <1>8, <2>1, <2>2, <2>3 DEF PagesInv
  <1>15. CallerInv' /\ OutboxInv' /\ AudioInv' /\ CopyInv'
    BY <1>1, <1>5, <1>6, <1>7, <1>9 DEF IInv, CallerInv, OutboxInv, AudioInv, CopyInv, Loading, Reading
  <1>16. WorkerInv'
    BY <1>1, <1>2, <1>3, <1>4, <1>7, <1>8 DEF IInv, WorkerInv
  <1>17. Shape'
    <2>1. TypeOK'
      BY <1>1, <1>7, <1>9 DEF IInv, Shape, TypeOK
    <2> QED
      BY <1>1, <1>7, <1>9, <2>1 DEF IInv, Shape, AllSteps
  <1> QED
    BY <1>13, <1>14, <1>15, <1>16, <1>17 DEF IInv

-----------------------------------------------------------------------------
(***************************************************************************)
(* A job is over.                                                          *)
(***************************************************************************)
LEMMA FinishFacts ==
    ASSUME IInv, Fifo!Finish("worker"), UNCHANGED outbox, stray' = FALSE
    PROVE  /\ job \in JobSet /\ Wpc # "idle" /\ job' = NoJob /\ queue' = queue
           /\ hand' \in [{"worker"} -> JobSet \union {NoJob}]
           /\ stray = TRUE => Pending' = Pending
           /\ stray = FALSE => Pending # <<>> /\ Pending[1] = job /\ Pending' = Tail(Pending)
  <1>1. /\ job \in MaybeJob /\ queue \in Seq(JobSet)
        /\ outbox["caller"] \in MaybeJob /\ outbox["audio"] \in MaybeJob
    BY JobTypes DEF IInv
  <1>2. hand["worker"] # NoJob /\ hand' = [hand EXCEPT !["worker"] = NoJob] /\ queue' = queue
    BY DEF Fifo!Finish
  <1>3. job \in JobSet /\ Wpc # "idle"
    BY <1>1, <1>2 DEF job, MaybeJob, IInv, WorkerInv
  <1>4. job' = NoJob /\ hand' \in [{"worker"} -> JobSet \union {NoJob}]
    BY <1>2 DEF IInv, Shape, job
  <1>5. Pending' = Line(NoJob, queue, outbox["caller"], outbox["audio"], FALSE)
    <2>1. Pending' = Line(job', queue', outbox'["caller"], outbox'["audio"], stray')
      BY DEF Pending, InHand, Posting, Line, job
    <2> QED
      BY <1>2, <1>4, <2>1
  <1>6. Pending = Line(job, queue, outbox["caller"], outbox["audio"], stray)
    BY PendingIsLine
  <1>7. \A h \in JobSet, q \in Seq(JobSet), c \in MaybeJob, a \in MaybeJob :
           /\ Line(h, q, c, a, FALSE) # <<>> /\ Line(h, q, c, a, FALSE)[1] = h
           /\ Line(NoJob, q, c, a, FALSE) = Tail(Line(h, q, c, a, FALSE))
           /\ Line(h, q, c, a, TRUE) = Line(NoJob, q, c, a, FALSE)
    BY LineFinish
  <1> DEFINE c == outbox["caller"]
             a == outbox["audio"]
  <1>8. /\ Line(job, queue, c, a, FALSE) # <<>> /\ Line(job, queue, c, a, FALSE)[1] = job
        /\ Line(NoJob, queue, c, a, FALSE) = Tail(Line(job, queue, c, a, FALSE))
        /\ Line(job, queue, c, a, TRUE) = Line(NoJob, queue, c, a, FALSE)
    BY <1>1, <1>3, <1>7
  <1> QED
    BY <1>2, <1>3, <1>4, <1>5, <1>6, <1>8

LEMMA FreeKeeps ==
    ASSUME IInv, Free
    PROVE  IInv'
  <1> USE Numbers
  <1>1. /\ pc["worker"] = "free" /\ Fifo!Finish("worker") /\ Goto("worker", "idle") /\ done' = TRUE
        /\ UNCHANGED <<gate, held, sound, stream, outbox, target, mapped, got, empty, looping, filling, stray>>
    BY DEF Free, gateVars, readVars
  <1>2. Wpc = "free" /\ stray = FALSE /\ job.kind = "free"
    BY <1>1 DEF Wpc, IInv, WorkerInv, Shape, TypeOK
  <1>3. /\ job \in JobSet /\ job' = NoJob /\ queue' = queue
        /\ hand' \in [{"worker"} -> JobSet \union {NoJob}]
        /\ Pending # <<>> /\ Pending[1] = job /\ Pending' = Tail(Pending)
    BY <1>1, <1>2, FinishFacts
  <1>4. 1 \in DOMAIN Pending /\ Pending \in Seq(JobSet) /\ Kind(1) = "free"
    BY <1>2, <1>3, JobTypes DEF IInv, Kind
  <1>5. Len(Pending) = 1 /\ stream.result = "unavailable"
    BY <1>4 DEF IInv, JobsInv
  <1>6. Pending' = <<>>
    <2>1. ASSUME NEW s \in Seq(JobSet), Len(s) = 1 PROVE Tail(s) = <<>>
      <3>1. Tail(s) \in Seq(JobSet) /\ Len(Tail(s)) = 0
        BY <2>1
      <3> DEFINE t == Tail(s)
      <3> HIDE DEF t
      <3>2. t \in Seq(JobSet) /\ Len(t) = 0 => t = <<>>
        OBVIOUS
      <3> QED
        BY <3>1, <3>2 DEF t
    <2> QED
      BY <1>3, <1>4, <1>5, <2>1
  <1>7. Cpc = "await_free" /\ gate["sound"] = "out"
    <2>1. Cpc \in {"post_free", "await_free"}
      BY <1>5, ResultSays
    <2>2. Cpc # "post_free"
      BY <1>2, <1>5, CallerWaits
    <2> QED
      BY <2>1, <2>2 DEF IInv, CallerInv
  <1>8. Apc = "idle" /\ held = {}
    BY <1>7, BusOut
  <1>9. /\ pc' \in [Threads -> AllSteps] /\ Wpc' = "idle" /\ Cpc' = Cpc /\ Apc' = Apc
        /\ pc'["worker"] = "idle" /\ pc'["caller"] = pc["caller"] /\ pc'["audio"] = pc["audio"]
    <2>1. "idle" \in WorkerSet
      BY DEF WorkerSet
    <2> QED
      BY <1>1, <2>1, WorkerGoes
  <1>10. Closed' /\ ~Loading' /\ ~LoadTold' /\ ~Freeing'
    BY <1>1, <1>7, <1>9 DEF Closed, Loading, LoadTold, Freeing, Cpc
  <1>11. JobsInv'
    BY <1>6, <1>10 DEF JobsInv, JobsInOrder, LoadTold, Freeing
  <1>12. SeeksInv' /\ PagesInv'
    <2>1. SeeksLeft' = {}
      BY <1>6 DEF SeeksLeft
    <2>2. Cardinality(SeeksLeft') = 0
      BY <2>1, FS_EmptySet
    <2>3. stream.seeks \in Nat
      BY DEF IInv, Shape, TypeOK, StreamSet
    <2> QED
      BY <1>1, <1>5, <2>2, <2>3 DEF SeeksInv, PagesInv
  <1>13. CallerInv' /\ OutboxInv' /\ AudioInv' /\ CopyInv'
    BY <1>1, <1>5, <1>7, <1>8, <1>9 DEF IInv, CallerInv, OutboxInv, AudioInv, CopyInv, Loading, Reading
  <1>14. WorkerInv'
    BY <1>1, <1>2, <1>3, <1>9 DEF WorkerInv
  <1>15. Shape'
    <2>1. TypeOK'
      BY <1>1, <1>3, <1>9 DEF IInv, Shape, TypeOK
    <2> QED
      BY <1>1, <1>3, <1>9, <2>1 DEF IInv, Shape, AllSteps
  <1> QED
    BY <1>11, <1>12, <1>13, <1>14, <1>15 DEF IInv

\* A set of numbers that is moved down by one keeps its size.
LEMMA MovedDown ==
    ASSUME NEW S \in SUBSET Nat, IsFiniteSet(S), NEW T \in SUBSET Nat,
           \A i \in Nat : i \in T <=> i + 1 \in S, 0 \notin S
    PROVE  Cardinality(T) = Cardinality(S)
  <1> DEFINE f == [k \in S |-> k - 1]
  <1>1. \A k \in S : k - 1 \in T
    <2> SUFFICES ASSUME NEW k \in S PROVE k - 1 \in T
      OBVIOUS
    <2>1. k \in Nat /\ k # 0
      OBVIOUS
    <2>2. k - 1 \in Nat /\ (k - 1) + 1 = k
      BY <2>1
    <2> QED
      BY <2>2
  <1>2. f \in [S -> T]
    BY <1>1
  <1>3. \A a, b \in S : f[a] = f[b] => a = b
    OBVIOUS
  <1>4. \A t \in T : \E k \in S : f[k] = t
    <2> SUFFICES ASSUME NEW t \in T PROVE \E k \in S : f[k] = t
      OBVIOUS
    <2>1. t + 1 \in S /\ (t + 1) - 1 = t
      OBVIOUS
    <2> QED
      BY <2>1
  <1>5. f \in Bijection(S, T)
    BY <1>2, <1>3, <1>4 DEF Bijection, Injection, Surjection, IsInjective
  <1>6. ExistsBijection(S, T)
    BY <1>5 DEF ExistsBijection
  <1> QED
    BY <1>6, FS_Bijection

\* Every job that is pending moves up by one.
MovedUp ==
    /\ Len(Pending) \in Nat \ {0}
    /\ DOMAIN Pending = 1 .. Len(Pending) /\ DOMAIN Pending' = 1 .. Len(Pending) - 1
    /\ \A i \in DOMAIN Pending' : Pending'[i] = Pending[i + 1] /\ (PageJob(i)' <=> PageJob(i + 1))
    /\ ~PageJob(1)
    /\ SeeksLeft \subseteq 2 .. Len(Pending)
    /\ \A i \in Nat : i \in SeeksLeft' <=> i + 1 \in SeeksLeft
    /\ SeeksLeft = {} <=> SeeksLeft' = {}

\* An increment that is stray is lost unless memory is handed out again.
LEMMA AdvanceHits ==
    ASSUME Advance, stray => ~Reuse
    PROVE  stream' = IF stray THEN stream ELSE [stream EXCEPT !.pointer = (@ + 1) % OrderLimit]
  BY DEF Advance

LEMMA AdvanceKeeps ==
    ASSUME IInv, Advance, stray => ~Reuse
    PROVE  IInv' /\ (stray = FALSE => MovedUp) /\ (stray = TRUE => Pending' = Pending)
  <1> USE Numbers
  <1>1. /\ pc["worker"] = "advance" /\ Fifo!Finish("worker") /\ Goto("worker", "idle") /\ stray' = FALSE
        /\ stream' = IF stray THEN stream ELSE [stream EXCEPT !.pointer = (@ + 1) % OrderLimit]
        /\ UNCHANGED <<gate, held, sound, outbox, target, mapped, got, empty, looping, filling, done>>
    BY AdvanceHits DEF Advance, gateVars, readVars
  <1>2. Wpc = "advance" /\ stray \in BOOLEAN /\ job.kind # "free"
    BY <1>1 DEF Wpc, IInv, WorkerInv, Shape, TypeOK
  <1>3. /\ job \in JobSet /\ job' = NoJob /\ queue' = queue
        /\ hand' \in [{"worker"} -> JobSet \union {NoJob}]
        /\ stray = TRUE => Pending' = Pending
        /\ stray = FALSE => Pending # <<>> /\ Pending[1] = job /\ Pending' = Tail(Pending)
    BY <1>1, FinishFacts
  <1>4. /\ pc' \in [Threads -> AllSteps] /\ Wpc' = "idle" /\ Cpc' = Cpc /\ Apc' = Apc
        /\ pc'["worker"] = "idle" /\ pc'["caller"] = pc["caller"] /\ pc'["audio"] = pc["audio"]
    <2>1. "idle" \in WorkerSet
      BY DEF WorkerSet
    <2> QED
      BY <1>1, <2>1, WorkerGoes
  <1>5. /\ stream' \in StreamSet /\ stream'.data = stream.data /\ stream'.valid = stream.valid
        /\ stream'.result = stream.result /\ stream'.seeks = stream.seeks
        /\ stream'.counter = stream.counter /\ stream'.page = stream.page /\ stream'.rel = stream.rel
        /\ stream'.pointer = IF stray THEN stream.pointer ELSE (stream.pointer + 1) % OrderLimit
    <2>1. stream \in StreamSet
      BY DEF IInv, Shape, TypeOK
    <2>2. (stream.pointer + 1) % OrderLimit \in 0 .. OrderLimit - 1
      BY <2>1 DEF StreamSet
    <2> QED
      BY <1>1, <2>1, <2>2 DEF StreamSet
  <1>6. Loading' = Loading /\ Closed' = Closed /\ Freeing' = Freeing /\ LoadTold' = LoadTold /\ FirstOver' = FALSE
    BY <1>1, <1>4, <1>5 DEF Loading, Closed, Freeing, LoadTold, FirstOver, Cpc
  <1>7. CallerInv' /\ OutboxInv' /\ AudioInv'
    BY <1>1, <1>4, <1>5, OthersKeep
  <1>8. WorkerInv'
    BY <1>1, <1>3, <1>4 DEF WorkerInv
  <1>9. Shape'
    <2>1. TypeOK'
      BY <1>1, <1>3, <1>4, <1>5 DEF IInv, Shape, TypeOK
    <2> QED
      BY <1>1, <1>3, <1>4, <1>5, <2>1 DEF IInv, Shape, AllSteps
  <1>10. CASE stray = TRUE
    <2>1. FirstOver' = FirstOver
      BY <1>2, <1>6, <1>10 DEF FirstOver
    <2>2. stream'.pointer = stream.pointer
      BY <1>5, <1>10
    <2>3. JobsInv' /\ SeeksInv' /\ PagesInv' /\ SeeksLeft' = SeeksLeft
      BY <1>3, <1>5, <1>6, <1>10, <2>1, <2>2, JobsSame
    <2>4. CopyInv'
      BY <1>1, <1>4, <1>5, <2>3 DEF IInv, CopyInv
    <2> QED
      BY <1>3, <1>7, <1>8, <1>9, <1>10, <2>3, <2>4 DEF IInv
  <1>11. CASE stray = FALSE
    <2>1. Pending \in Seq(JobSet) /\ Pending # <<>> /\ Pending[1] = job /\ Pending' = Tail(Pending)
      BY <1>3, <1>11, JobTypes DEF IInv
    <2>2. PICK n \in Nat : n = Len(Pending) /\ n # 0 /\ DOMAIN Pending = 1 .. n
      BY <2>1
    <2>3. /\ Pending' \in Seq(JobSet) /\ Len(Pending') = n - 1 /\ DOMAIN Pending' = 1 .. n - 1
          /\ n - 1 \in Nat
      BY <2>1, <2>2
    <2>4. \A i \in 1 .. n - 1 : i + 1 \in 1 .. n /\ Pending'[i] = Pending[i + 1]
      BY <2>1, <2>2
    <2>5. \A i : (Over(i) <=> i = 1) /\ ~Over(i)'
      BY <1>2, <1>4, <1>11 DEF Over
    <2>6. ~Closed /\ Kind(1) = job.kind
      BY <2>1 DEF IInv, JobsInv, Kind
    <2>7. \A i \in 1 .. n - 1 : Kind(i)' = Kind(i + 1)
      BY <2>4 DEF Kind
    <2>8. SeeksLeft \subseteq 2 .. n
      <3>1. \A i \in SeeksLeft : i \in 1 .. n /\ i # 1
        BY <2>2, <2>5 DEF SeeksLeft
      <3> QED
        BY <3>1
    <2>9. SeeksLeft' \in SUBSET Nat /\ \A i \in Nat : i \in SeeksLeft' <=> i + 1 \in SeeksLeft
      <3>1. SeeksLeft' \subseteq 1 .. n - 1
        BY <2>3 DEF SeeksLeft
      <3>2. ASSUME NEW i \in 1 .. n - 1 PROVE i \in SeeksLeft' <=> i + 1 \in SeeksLeft
        <4>1. i + 1 \in 1 .. n /\ i + 1 # 1
          BY <2>2
        <4>2. i \in SeeksLeft' <=> Kind(i)' = "seek"
          BY <2>3, <2>5 DEF SeeksLeft
        <4>3. i + 1 \in SeeksLeft <=> Kind(i + 1) = "seek"
          BY <2>2, <2>5, <4>1 DEF SeeksLeft
        <4> QED
          BY <2>7, <4>2, <4>3
      <3>3. ASSUME NEW i \in Nat, i + 1 \in SeeksLeft PROVE i \in 1 .. n - 1
        BY <2>2, <2>8, <3>3
      <3> QED
        BY <3>1, <3>2, <3>3
    <2>10. JobsInOrder'
      <3>1. /\ \A i \in 1 .. n : Pending[i].order = (stream.pointer + i - 1) % OrderLimit
            /\ stream.counter = (stream.pointer + n) % OrderLimit
        BY <2>2, <2>6 DEF IInv, JobsInv, JobsInOrder
      <3>2. stream.pointer \in Nat
        BY DEF IInv, Shape, TypeOK, StreamSet
      <3>3. \A k \in Int : (stream'.pointer + k) % OrderLimit = (stream.pointer + 1 + k) % OrderLimit
        <4> SUFFICES ASSUME NEW k \in Int PROVE (stream'.pointer + k) % OrderLimit = (stream.pointer + 1 + k) % OrderLimit
          OBVIOUS
        <4> DEFINE p == stream.pointer + 1
        <4>1. p \in Int /\ stream'.pointer = p % OrderLimit
          BY <1>5, <1>11, <3>2
        <4>2. OrderLimit \in Nat \ {0}
          OBVIOUS
        <4> HIDE DEF p
        <4>3. ((p % OrderLimit) + k) % OrderLimit = (p + k) % OrderLimit
          BY ONLY <4>1, <4>2, k \in Int, ModAdd
        <4> QED
          BY <4>1, <4>3 DEF p
      <3>4. \A i \in 1 .. n - 1 : Pending'[i].order = (stream'.pointer + i - 1) % OrderLimit
        <4> SUFFICES ASSUME NEW i \in 1 .. n - 1 PROVE Pending'[i].order = (stream'.pointer + i - 1) % OrderLimit
          OBVIOUS
        <4>1. Pending'[i].order = (stream.pointer + (i + 1) - 1) % OrderLimit
          BY <2>4, <3>1
        <4>2. (stream'.pointer + (i - 1)) % OrderLimit = (stream.pointer + 1 + (i - 1)) % OrderLimit
          BY <3>3
        <4>3. stream.pointer + 1 + (i - 1) = stream.pointer + (i + 1) - 1
          BY <3>2
        <4>4. stream'.pointer \in Nat
          BY <1>5 DEF StreamSet
        <4>5. stream'.pointer + (i - 1) = stream'.pointer + i - 1
          BY <4>4
        <4> QED
          BY <4>1, <4>2, <4>3, <4>5
      <3>5. stream'.counter = (stream'.pointer + Len(Pending')) % OrderLimit
        <4>1. (stream'.pointer + (n - 1)) % OrderLimit = (stream.pointer + 1 + (n - 1)) % OrderLimit
          BY <2>2, <3>3
        <4>2. stream.pointer + 1 + (n - 1) = stream.pointer + n
          BY <2>2, <3>2
        <4> QED
          BY <1>5, <2>3, <3>1, <4>1, <4>2
      <3> QED
        BY <2>3, <3>4, <3>5 DEF JobsInOrder
    <2>11. JobsInv'
      <3>1. /\ \A i \in 1 .. n : Kind(i) = "page" => Pending[i].arg \in Pages
            /\ \A i \in 1 .. n : Kind(i) = "seek" => Pending[i].arg \in Frames
            /\ \A i \in 1 .. n : Kind(i) = "load" => i = 1
            /\ \A i \in 1 .. n : Kind(i) = "free" => i = n /\ stream.result = "unavailable"
        BY <2>2 DEF IInv, JobsInv
      <3>2. ~Loading
        BY <2>5 DEF IInv, JobsInv
      <3>3. LoadTold => n - 1 = 0
        <4>1. LoadTold => n <= 1
          BY <2>2 DEF IInv, JobsInv, LoadTold
        <4>2. n <= 1 => n - 1 = 0
          BY <2>2
        <4> QED
          BY <4>1, <4>2
      <3>4. Freeing => n - 1 > 0 /\ Kind(n) = "free"
        <4>1. Freeing => Kind(n) = "free"
          BY <2>2 DEF IInv, JobsInv, Freeing
        <4>2. Kind(n) = "free" => n # 1
          BY <1>2, <2>6
        <4>3. n # 1 => n - 1 > 0
          BY <2>2
        <4> QED
          BY <4>1, <4>2, <4>3
      <3>5. \A i \in 1 .. n - 1 : Kind(i)' = "page" => Pending'[i].arg \in Pages
        BY <2>4, <2>7, <3>1
      <3>6. \A i \in 1 .. n - 1 : Kind(i)' = "seek" => Pending'[i].arg \in Frames
        BY <2>4, <2>7, <3>1
      <3>7. \A i \in 1 .. n - 1 : Kind(i)' # "load"
        <4>1. \A i \in 1 .. n - 1 : i + 1 # 1
          OBVIOUS
        <4> QED
          BY <2>4, <2>7, <3>1, <4>1
      <3>8. \A i \in 1 .. n - 1 : Kind(i)' = "free" => i = n - 1 /\ stream.result = "unavailable"
        <4>1. \A i \in 1 .. n - 1 : i + 1 = n => i = n - 1
          OBVIOUS
        <4> QED
          BY <2>4, <2>7, <3>1, <4>1
      <3>9. Freeing => n - 1 > 0 /\ Pending'[n - 1].kind = "free"
        <4>1. n - 1 > 0 => n - 1 \in 1 .. n - 1 /\ (n - 1) + 1 = n
          BY <2>2
        <4>2. Kind(n) = Pending[n].kind
          BY DEF Kind
        <4> QED
          BY <2>4, <3>4, <4>1, <4>2
      <3>10. LoadTold => Len(Pending') <= 1 /\ Len(Pending') # 1
        BY <2>3, <3>3
      <3>11. ~Loading' /\ ~Closed'
        BY <1>6, <2>6, <3>2
      <3>12. Cpc = "await_load" /\ done => Len(Pending') <= 1 /\ Len(Pending') # 1
        BY <3>10 DEF LoadTold
      <3>13. Cpc = "post_free" \/ (Cpc = "await_free" /\ ~done) =>
                Len(Pending') > 0 /\ Pending'[Len(Pending')].kind = "free"
        BY <2>3, <3>9 DEF Freeing
      <3>14. Kind(Len(Pending))' = Pending'[Len(Pending')].kind
        BY DEF Kind
      <3> QED
        BY <1>1, <1>4, <1>5, <2>3, <2>10, <3>5, <3>6, <3>7, <3>8, <3>11, <3>12, <3>13, <3>14 DEF JobsInv
    <2>12. SeeksInv'
      <3>1. IsFiniteSet(SeeksLeft) /\ SeeksLeft \in SUBSET Nat /\ 0 \notin SeeksLeft
        BY <2>2, <2>8, SeeksCount DEF IInv
      <3>2. Cardinality(SeeksLeft') = Cardinality(SeeksLeft)
        BY <2>9, <3>1, MovedDown
      <3> QED
        BY <1>5, <3>2 DEF IInv, SeeksInv
    <2>13. \A i \in 1 .. n - 1 : PageJob(i)' <=> PageJob(i + 1)
      <3> SUFFICES ASSUME NEW i \in 1 .. n - 1 PROVE PageJob(i)' <=> PageJob(i + 1)
        OBVIOUS
      <3>1. i + 1 # 1
        OBVIOUS
      <3> QED
        BY <2>5, <2>7, <3>1 DEF PageJob
    <2>14. SeeksLeft = {} <=> SeeksLeft' = {}
      <3>1. SeeksLeft = {} => SeeksLeft' = {}
        BY <2>9
      <3>2. ASSUME SeeksLeft # {} PROVE SeeksLeft' # {}
        <4>1. PICK k \in SeeksLeft : TRUE
          BY <3>2
        <4>2. k \in 2 .. n
          BY <2>8
        <4>3. k - 1 \in Nat /\ (k - 1) + 1 = k
          BY <2>2, <4>2
        <4> QED
          BY <2>9, <4>3
      <3> QED
        BY <3>1, <3>2
    <2>15. PagesInv'
      <3> SUFFICES ASSUME stream.result = "success"
                   PROVE  /\ SeeksLeft # {} =>
                                \A i \in 1 .. n - 1 : PageJob(i)' => \E k \in SeeksLeft' : i < k
                          /\ SeeksLeft = {} =>
                                /\ \A i \in 1 .. n - 1 : PageJob(i)' => ~stream.valid[Pending'[i].arg]
                                /\ \A i, j \in 1 .. n - 1 :
                                      PageJob(i)' /\ PageJob(j)' /\ Pending'[i].arg = Pending'[j].arg => i = j
        BY <1>5, <2>3, <2>14 DEF PagesInv
      <3>1. ASSUME SeeksLeft # {}, NEW i \in 1 .. n - 1, PageJob(i)' PROVE \E k \in SeeksLeft' : i < k
        <4>1. PICK k \in SeeksLeft : i + 1 < k
          BY <2>2, <2>4, <2>13, <3>1 DEF IInv, PagesInv
        <4>2. k \in 2 .. n
          BY <2>8
        <4>3. k - 1 \in Nat /\ (k - 1) + 1 = k /\ i < k - 1
          BY <2>2, <4>1, <4>2
        <4> QED
          BY <2>9, <4>3
      <3>2. ASSUME SeeksLeft = {}, NEW i \in 1 .. n - 1, PageJob(i)' PROVE ~stream.valid[Pending'[i].arg]
        BY <2>2, <2>4, <2>13, <3>2 DEF IInv, PagesInv
      <3>3. ASSUME SeeksLeft = {}, NEW i \in 1 .. n - 1, NEW j \in 1 .. n - 1,
                   PageJob(i)', PageJob(j)', Pending'[i].arg = Pending'[j].arg
            PROVE  i = j
        <4>1. i + 1 = j + 1
          BY <2>2, <2>4, <2>13, <3>3 DEF IInv, PagesInv
        <4> QED
          BY <4>1
      <3> QED
        BY <3>1, <3>2, <3>3
    <2>16. CopyInv'
      BY <1>1, <1>4, <1>5, <2>14 DEF IInv, CopyInv
    <2>17. MovedUp
      <3>1. ~PageJob(1)
        BY <2>5 DEF PageJob
      <3> QED
        BY <2>2, <2>3, <2>4, <2>8, <2>9, <2>13, <2>14, <3>1 DEF MovedUp
    <2> QED
      BY <1>7, <1>8, <1>9, <1>11, <2>11, <2>12, <2>15, <2>16, <2>17 DEF IInv
  <1> QED
    BY <1>2, <1>10, <1>11

-----------------------------------------------------------------------------
(***************************************************************************)
(* Every step keeps the invariant.                                         *)
(***************************************************************************)
LEMMA StutterKeeps ==
    ASSUME IInv, UNCHANGED vars
    PROVE  IInv'
  <1>1. /\ UNCHANGED <<queue, hand, outbox, stream, stray, done, filling>> /\ UNCHANGED pc
        /\ UNCHANGED <<gate, held, sound, target, mapped, got, empty, looping>>
    BY DEF vars, gateVars, jobVars, readVars
  <1>2. WorkerInv' /\ JobsInv' /\ SeeksInv' /\ PagesInv' /\ SeeksLeft' = SeeksLeft
    BY <1>1, JobsQuiet
  <1>3. CallerInv' /\ OutboxInv' /\ AudioInv'
    BY <1>1, OthersKeep DEF Cpc, Apc
  <1>4. CopyInv'
    BY <1>1, <1>2 DEF IInv, CopyInv, Apc
  <1>5. Shape'
    BY <1>1 DEF IInv, Shape, TypeOK
  <1> QED
    BY <1>2, <1>3, <1>4, <1>5 DEF IInv

\* The increment of the job of a failed load touches no other stream: files can
\* be opened, or memory is not handed out again at once.
StrayHarmless == MayFail = FALSE \/ Reuse = FALSE

\* What only a load that fails brings about.
FailInv == stray \/ Wpc = "fail" \/ stream.result = "failed" => MayFail

LEMMA FailInit == Init => FailInv
  BY DEF Init, FailInv, NoStream, FreshStream, Wpc, Threads

LEMMA StepKeeps ==
    ASSUME StrayHarmless
    PROVE  IInv /\ FailInv /\ [Next]_vars => IInv'
  <1> SUFFICES ASSUME IInv, FailInv, [Next]_vars PROVE IInv'
    OBVIOUS
  <1>0. stray => ~Reuse
    BY DEF FailInv, StrayHarmless
  <1>1. CASE UNCHANGED vars
    BY <1>1, StutterKeeps
  <1>2. CASE Command
    <2>1. CASE Load
      BY <2>1, LoadKeeps
    <2>2. CASE CallerQuiet
      BY <2>2, CallerQuietKeeps
    <2> QED
      BY <1>2, <2>1, <2>2 DEF Command, CallerQuiet
  <1>3. CASE CallerWork
    <2>1. CASE FinishLoad
      BY <2>1, FinishLoadKeeps
    <2>2. CASE CloseStream
      BY <2>2, CloseStreamKeeps
    <2>3. CASE FinishUnload
      BY <2>3, FinishUnloadKeeps
    <2>4. CASE PostStep
      BY <2>4, PostKeeps
    <2>5. CASE CallerQuiet
      BY <2>5, CallerQuietKeeps
    <2>6. CASE SeekStep
      BY <2>6, SeekStepKeeps
    <2>7. Start => CallerQuiet \/ SeekStep
      BY DEF CallerQuiet, SeekStep
    <2> QED
      BY <1>3, <2>1, <2>2, <2>3, <2>4, <2>5, <2>6, <2>7 DEF CallerWork, PostStep, CallerQuiet
  <1>4. CASE Audio
    <2>1. CASE Unmap
      BY <2>1, UnmapKeeps
    <2>2. CASE PostStep
      BY <2>2, PostKeeps
    <2>3. CASE AudioQuiet
      BY <2>3, AudioQuietKeeps
    <2>4. CASE SeekStep
      BY <2>4, SeekStepKeeps
    <2>5. SeekToTarget \/ EndOfRange => AudioQuiet \/ SeekStep
      BY DEF AudioQuiet, SeekStep
    <2> QED
      BY <1>4, <2>1, <2>2, <2>3, <2>4, <2>5 DEF Audio, PostStep, AudioQuiet
  <1>5. CASE Worker
    <2>1. CASE BeginStep
      BY <2>1, BeginKeeps
    <2> QED
      BY <1>0, <1>5, <2>1, FreeKeeps, DecodeKeeps, ValidateKeeps, EndSeekKeeps, EndLoadKeeps, AdvanceKeeps DEF Worker, BeginStep
  <1> QED
    BY <1>1, <1>2, <1>3, <1>4, <1>5 DEF Next

LEMMA FailKeeps == IInv /\ FailInv /\ [Next]_vars => FailInv'
  <1> SUFFICES ASSUME IInv, FailInv, [Next]_vars PROVE FailInv'
    OBVIOUS
  <1> DEFINE Goes(t) == UNCHANGED pc \/ \E where : Goto(t, where)
             Same == UNCHANGED stray /\ stream'.result = stream.result
  <1>1. stream \in StreamSet /\ pc \in [Threads -> AllSteps]
    BY DEF IInv, Shape, TypeOK, AllSteps
  <1>2. ASSUME Same, Wpc' = "fail" => Wpc = "fail" PROVE FailInv'
    BY <1>2 DEF FailInv
  <1>3. ASSUME Goes("caller") \/ Goes("audio") PROVE Wpc' = Wpc
    BY <1>1, <1>3 DEF Goto, Wpc, Threads
  <1>4. ASSUME NEW t, NEW frame, NEW post, NEW skip, SeekStream(t, frame, post, skip)
        PROVE  stream'.result = stream.result /\ Goes(t)
    BY <1>1, <1>4 DEF SeekStream, Ordered, StreamSet
  <1>5. ASSUME NEW t \in {"caller", "audio"}, NEW from, NEW to, Post(t, from, to) PROVE Same /\ Wpc' = Wpc
    BY <1>3, <1>5 DEF Post
  <1>6. CASE UNCHANGED vars
    BY <1>2, <1>3, <1>6 DEF vars
  <1>7. CASE Command
    <2>1. CASE Load
      BY <1>3, <2>1 DEF Load, Ordered, FreshStream, FailInv
    <2>2. CASE ~Load
      <3>1. Same /\ Goes("caller")
        BY <1>7, <2>2 DEF Command, Unload, Play, Pause, Stop, Seek, SetLoop
      <3> QED
        BY <1>2, <1>3, <3>1
    <2> QED
      BY <2>1, <2>2
  <1>8. CASE CallerWork
    <2>1. CASE FinishLoad
      <3>1. Wpc' = Wpc /\ stream.result \in {"success", "failed"}
        BY <1>3, <2>1 DEF FinishLoad, IInv, CallerInv, Cpc
      <3> QED
        BY <2>1, <3>1 DEF FinishLoad, FailInv, NoStream, FreshStream
    <2>2. CASE CloseStream
      <3>1. Wpc' = Wpc /\ stream'.result = "unavailable" /\ UNCHANGED stray
        BY <1>1, <1>3, <2>2 DEF CloseStream, Ordered, StreamSet
      <3> QED
        BY <3>1 DEF FailInv
    <2>3. CASE FinishUnload
      BY <1>3, <2>3 DEF FinishUnload, FailInv, NoStream, FreshStream
    <2>4. CASE FinishDetach \/ Restart \/ Go \/ Rewind
      <3>1. Same /\ Goes("caller")
        BY <2>4 DEF FinishDetach, Restart, Go, Rewind
      <3> QED
        BY <1>2, <1>3, <3>1
    <2>5. CASE Start
      <3>1. Same /\ Goes("caller")
        BY <1>4, <2>5 DEF Start
      <3> QED
        BY <1>2, <1>3, <3>1
    <2> QED
      BY <1>2, <1>5, <1>8, <2>1, <2>2, <2>3, <2>4, <2>5 DEF CallerWork
  <1>9. CASE Audio
    <2>1. CASE Unmap
      <3>1. Same /\ Goes("audio")
        BY <1>1, <2>1 DEF Unmap, Ordered, StreamSet
      <3> QED
        BY <1>2, <1>3, <3>1
    <2>2. CASE SeekToTarget \/ EndOfRange
      <3>1. Same /\ Goes("audio")
        BY <1>4, <2>2 DEF SeekToTarget, EndOfRange
      <3> QED
        BY <1>2, <1>3, <3>1
    <2>3. CASE BeginPass \/ CheckState \/ CheckEnd \/ StopAtEnd \/ LoadTarget \/ ClearTarget \/ BeginRead
      <3>1. Same /\ Goes("audio")
        BY <2>3 DEF BeginPass, CheckState, CheckEnd, StopAtEnd, LoadTarget, ClearTarget, BeginRead
      <3> QED
        BY <1>2, <1>3, <3>1
    <2>4. CASE Map \/ CheckDecoder \/ MarkEnd \/ ReadMore \/ HaveEnough \/ EndPass
      <3>1. Same /\ Goes("audio")
        BY <2>4 DEF Map, CheckDecoder, MarkEnd, ReadMore, HaveEnough, EndPass
      <3> QED
        BY <1>2, <1>3, <3>1
    <2> QED
      BY <1>2, <1>5, <1>9, <2>1, <2>2, <2>3, <2>4 DEF Audio
  <1>10. CASE Worker
    <2>0. ASSUME NEW where, Goto("worker", where), Same, where # "fail" PROVE FailInv'
      <3>1. Wpc' = where
        BY <1>1, <2>0 DEF Goto, Wpc, Threads
      <3> QED
        BY <1>2, <2>0, <3>1
    <2>1. CASE BeginLoad
      <3>1. Same
        BY <2>1 DEF BeginLoad, PutBack
      <3>2. UNCHANGED pc \/ \E next \in IF MayFail THEN {"decode", "fail"} ELSE {"decode"} : Goto("worker", next)
        BY <2>1 DEF BeginLoad, PutBack
      <3>3. CASE UNCHANGED pc
        BY <1>2, <3>1, <3>3 DEF Wpc
      <3>4. CASE MayFail
        BY <3>4 DEF FailInv
      <3> QED
        BY <2>0, <3>1, <3>2, <3>3, <3>4
    <2>2. CASE BeginPage \/ BeginSeek \/ BeginFree
      <3>1. Same
        BY <1>1, <2>2 DEF BeginPage, BeginSeek, BeginFree, PutBack, StreamSet
      <3>2. UNCHANGED pc \/ \E where \in {"decode", "advance", "free"} : Goto("worker", where)
        BY <2>2 DEF BeginPage, BeginSeek, BeginFree, PutBack
      <3>3. CASE UNCHANGED pc
        BY <1>2, <3>1, <3>3 DEF Wpc
      <3> QED
        BY <2>0, <3>1, <3>2, <3>3
    <2>3. CASE Free \/ Decode \/ Validate \/ EndSeek
      <3>1. Same
        BY <1>1, <2>3 DEF Free, Decode, Validate, EndSeek, StreamSet
      <3>2. \E where \in {"idle", "validate", "decode", "succeed", "sought", "advance"} : Goto("worker", where)
        BY <2>3 DEF Free, Decode, Validate, EndSeek
      <3> QED
        BY <2>0, <3>1, <3>2
    <2>4. CASE EndLoad
      <3>1. Wpc' = "advance" /\ UNCHANGED stray
        BY <1>1, <2>4 DEF EndLoad, Goto, Wpc, Threads
      <3>2. stream'.result = "failed" => Wpc = "fail"
        BY <1>1, <2>4 DEF EndLoad, Wpc, StreamSet
      <3> QED
        BY <3>1, <3>2 DEF FailInv
    <2>5. CASE Advance
      <3>1. stream'.result = stream.result /\ stray' = FALSE
        BY <1>1, <2>5 DEF Advance, StreamSet
      <3>2. Wpc' = "idle"
        BY <1>1, <2>5 DEF Advance, Goto, Wpc, Threads
      <3> QED
        BY <3>1, <3>2 DEF FailInv
    <2> QED
      BY <1>10, <2>1, <2>2, <2>3, <2>4, <2>5 DEF Worker
  <1> QED
    BY <1>6, <1>7, <1>8, <1>9, <1>10 DEF Next

\* What holds of the threads, the line of jobs and the pages in every state.
THEOREM Invariant ==
    ASSUME StrayHarmless
    PROVE  Spec => []IInv
  <1>1. Init => IInv /\ FailInv
    BY InitIInv, FailInit
  <1>2. IInv /\ FailInv /\ [Next]_vars => IInv' /\ FailInv'
    BY StepKeeps, FailKeeps
  <1> QED
    BY <1>1, <1>2, PTL DEF Spec

LEMMA FailuresKnown ==
    ASSUME StrayHarmless
    PROVE  Spec => []FailInv
  <1>1. Init => IInv /\ FailInv
    BY InitIInv, FailInit
  <1>2. IInv /\ FailInv /\ [Next]_vars => IInv' /\ FailInv'
    BY StepKeeps, FailKeeps
  <1> QED
    BY <1>1, <1>2, PTL DEF Spec

-----------------------------------------------------------------------------
(***************************************************************************)
(* What follows from it.                                                   *)
(***************************************************************************)
\* The node of the sound, its stream and the jobs keep their shape: cursor and
\* decoder stay in the file, and the offset in its page.
THEOREM TypeCorrect ==
    ASSUME StrayHarmless
    PROVE  Spec => []TypeOK
  <1>1. IInv => TypeOK
    BY DEF IInv, Shape
  <1> QED
    BY <1>1, Invariant, PTL

\* When the files that are loaded can be opened, a stream that is closed or
\* given back is used by no thread: the sound is out of the node graph before
\* it is closed, and its last job is the one that gives it back.
THEOREM OnlyOpenStreams ==
    ASSUME MayFail = FALSE
    PROVE  Spec => []StreamOpenInUse
  <1>1. IInv /\ FailInv => StreamOpenInUse
    <2> SUFFICES ASSUME IInv, FailInv PROVE StreamOpenInUse
      OBVIOUS
    <2>0. ~stray
      BY DEF FailInv
    <2>1. pc["audio"] \in Reading => stream.result = "success"
      BY Apart DEF IInv, Apc, Reading
    <2>2. pc["worker"] \in Processing => stream.result # "none" /\ ~stray
      <3> SUFFICES ASSUME pc["worker"] \in Processing PROVE stream.result # "none"
        BY <2>0
      <3>1. Pending # <<>>
        BY <2>0, HandFirst DEF Wpc, Processing
      <3>2. ~Closed
        BY <3>1 DEF IInv, JobsInv
      <3> QED
        BY <3>2 DEF Closed
    <2>3. pc["worker"] = "free" => stream.result = "unavailable"
      <3> SUFFICES ASSUME pc["worker"] = "free" PROVE stream.result = "unavailable"
        OBVIOUS
      <3>1. Wpc = "free" /\ ~stray /\ job.kind = "free"
        BY DEF Wpc, IInv, WorkerInv
      <3>2. Pending # <<>> /\ Pending[1] = job
        BY <3>1, HandFirst
      <3>3. 1 \in DOMAIN Pending /\ Kind(1) = "free"
        BY <3>1, <3>2, JobTypes DEF IInv, Kind
      <3> QED
        BY <3>3 DEF IInv, JobsInv
    <2> QED
      BY <2>1, <2>2, <2>3 DEF StreamOpenInUse
  <1>2. StrayHarmless
    BY DEF StrayHarmless
  <1> QED
    BY <1>1, <1>2, Invariant, FailuresKnown, PTL

\* The caller seeks to the beginning only while the audio thread keeps away
\* from the stream, with no lock but the mark at the end of the sound.
THEOREM CallerSeeksAlone ==
    ASSUME StrayHarmless
    PROVE  Spec => []RewindAlone
  <1>1. IInv => RewindAlone
    BY Apart DEF IInv, RewindAlone, Cpc, Apc
  <1> QED
    BY <1>1, Invariant, PTL

\* The jobs that are pending are numbered one after the other from the number
\* the stream waits for, modulo any limit: none is ever put back.
THEOREM OrderKept ==
    ASSUME StrayHarmless
    PROVE  Spec => []JobsInOrder
  <1>1. IInv => JobsInOrder
    BY DEF IInv, JobsInv
  <1> QED
    BY <1>1, Invariant, PTL

\* The count of seeks is the number of seek jobs to come.
THEOREM SeeksMatch ==
    ASSUME StrayHarmless
    PROVE  Spec => []SeeksCounted
  <1>1. IInv => SeeksCounted
    <2> SUFFICES ASSUME IInv, stream.result = "success"
                 PROVE  stream.seeks = Cardinality({i \in DOMAIN Pending :
                           Pending[i].kind = "seek" /\ ~(pc["worker"] = "advance" /\ i = 1)})
      BY DEF SeeksCounted
    <2>1. ~stray
      BY ResultSays DEF IInv, WorkerInv
    <2>2. SeeksLeft = {i \in DOMAIN Pending :
                         Pending[i].kind = "seek" /\ ~(pc["worker"] = "advance" /\ i = 1)}
      BY <2>1 DEF SeeksLeft, Kind, Over, Wpc
    <2> QED
      BY <2>2 DEF IInv, SeeksInv
  <1> QED
    BY <1>1, Invariant, PTL

\* The page that is copied from is not the page that is being filled, and the
\* frames that are mapped are in it.
THEOREM CopyAlone ==
    ASSUME StrayHarmless
    PROVE  Spec => []NoFillWhileCopied
  <1>1. IInv => NoFillWhileCopied
    <2> SUFFICES ASSUME IInv, pc["audio"] = "copy" PROVE NoFillWhileCopied
      BY DEF NoFillWhileCopied
    <2>1. Apc = "copy"
      BY DEF Apc
    <2>2. pc["worker"] \in {"decode", "validate"} => filling # stream.page
      BY <2>1, FillApart DEF Wpc
    <2> QED
      BY <2>1, <2>2 DEF IInv, CopyInv, NoFillWhileCopied
  <1> QED
    BY <1>1, Invariant, PTL
=============================================================================
