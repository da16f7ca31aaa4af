--------------------------- MODULE HomeJobsProofs ---------------------------
(***************************************************************************)
(* Theorems about HomeJobs, for every value of its constants.              *)
(*                                                                         *)
(* The argument.  Whatever a statement other than an insert does to a row, *)
(* it keeps what identifies the row and makes nothing actionable that was  *)
(* not (Kept), and a lease that runs afterwards is new or runs on (Timed). *)
(* Such steps preserve uniqueness of keys and of exclusive work, so what   *)
(* is left is the insert of AdmitNew: AdmissionLeasesLive says that no job *)
(* that is running looks abandoned to it.                                  *)
(***************************************************************************)
EXTENDS HomeJobs, TLAPS

-----------------------------------------------------------------------------
(* What each statement makes of a row. *)

\* Assigning a column keeps a row well formed.
LEMMA SetField ==
    ASSUME NEW r \in JobRow
    PROVE  /\ \A v \in Statuses : [r EXCEPT !.status = v] \in JobRow
           /\ \A v \in Payloads \cup {"none"} : [r EXCEPT !.payload = v] \in JobRow
           /\ \A v \in Nat : /\ [r EXCEPT !.priority = v] \in JobRow
                             /\ [r EXCEPT !.attempts = v] \in JobRow
                             /\ [r EXCEPT !.max = v] \in JobRow
                             /\ [r EXCEPT !.claims = v] \in JobRow
                             /\ [r EXCEPT !.token = v] \in JobRow
           /\ \A v \in Int : /\ [r EXCEPT !.due = v] \in JobRow
                             /\ [r EXCEPT !.left = v] \in JobRow
<1>1. \A v \in Statuses : [r EXCEPT !.status = v] \in JobRow
  BY SMT DEF JobRow
<1>2. \A v \in Payloads \cup {"none"} : [r EXCEPT !.payload = v] \in JobRow
  BY SMT DEF JobRow
<1>3. \A v \in Nat : [r EXCEPT !.priority = v] \in JobRow
  BY SMT DEF JobRow
<1>4. \A v \in Nat : [r EXCEPT !.attempts = v] \in JobRow
  BY SMT DEF JobRow
<1>5. \A v \in Nat : [r EXCEPT !.max = v] \in JobRow
  BY SMT DEF JobRow
<1>6. \A v \in Nat : [r EXCEPT !.claims = v] \in JobRow
  BY SMT DEF JobRow
<1>7. \A v \in Nat : [r EXCEPT !.token = v] \in JobRow
  BY SMT DEF JobRow
<1>8. \A v \in Int : [r EXCEPT !.due = v] \in JobRow
  BY SMT DEF JobRow
<1>9. \A v \in Int : [r EXCEPT !.left = v] \in JobRow
  BY SMT DEF JobRow
<1> QED
  BY <1>1, <1>2, <1>3, <1>4, <1>5, <1>6, <1>7, <1>8, <1>9


LEMMA CallType ==
    /\ Idle \in Call
    /\ \A st \in {"insert", "reconcile"}, s \in Scopes, t \in Types, g \in Gens,
          p \in Payloads, d \in Demand : Request(st, s, t, g, p, d) \in Call
<1>1. 0 \in Ages
  BY TimeAssumption, SMT DEF Ages
<1> QED
  BY <1>1 DEF Call, Idle, Request

LEMMA ClosedRow ==
    ASSUME NEW r \in JobRow, NEW st \in Statuses
    PROVE  /\ Closed(r, st) \in JobRow
           /\ Closed(r, st).status = st
           /\ Closed(r, st).token = 0 /\ Closed(r, st).left = 0
           /\ Closed(r, st).scope = r.scope /\ Closed(r, st).type = r.type
           /\ Closed(r, st).gen = r.gen /\ Closed(r, st).salt = r.salt
           /\ Closed(r, st).attempts = r.attempts
           /\ Closed(r, st).max = r.max /\ Closed(r, st).claims = r.claims
<1>0. 0 \in Int
  OBVIOUS
<1>1. PICK q1 \in JobRow : q1 = [r EXCEPT !.status = st]
  BY SetField
<1>2. PICK q2 \in JobRow : q2 = [q1 EXCEPT !.token = 0]
  BY SetField
<1>3. PICK q3 \in JobRow : q3 = [q2 EXCEPT !.left = 0]
  BY <1>0, SetField
<1>4. PICK q4 \in JobRow : q4 = [q3 EXCEPT !.due = 0]
  BY <1>0, SetField
<1>5. Closed(r, st) = q4
  BY <1>1, <1>2, <1>3, <1>4 DEF Closed
<1> QED
  BY <1>5, SMT DEF Closed, JobRow

LEMMA RequeuedRow ==
    ASSUME NEW r \in JobRow, NEW due \in Int
    PROVE  /\ Requeued(r, due) \in JobRow
           /\ Requeued(r, due).status = "retry"
           /\ Requeued(r, due).token = 0 /\ Requeued(r, due).left = 0
           /\ Requeued(r, due).attempts = r.attempts
           /\ Requeued(r, due).max = r.max
           /\ Requeued(r, due).claims = r.claims
           /\ Requeued(r, due).scope = r.scope
           /\ Requeued(r, due).type = r.type
           /\ Requeued(r, due).gen = r.gen /\ Requeued(r, due).salt = r.salt
<1>0. 0 \in Int /\ "retry" \in Statuses
  BY DEF Statuses
<1>1. PICK q1 \in JobRow : q1 = [r EXCEPT !.status = "retry"]
  BY <1>0, SetField
<1>2. PICK q2 \in JobRow : q2 = [q1 EXCEPT !.due = due]
  BY SetField
<1>3. PICK q3 \in JobRow : q3 = [q2 EXCEPT !.token = 0]
  BY SetField
<1>4. PICK q4 \in JobRow : q4 = [q3 EXCEPT !.left = 0]
  BY <1>0, SetField
<1>5. Requeued(r, due) = q4
  BY <1>1, <1>2, <1>3, <1>4 DEF Requeued
<1> QED
  BY <1>5, SMT DEF Requeued, JobRow

LEMMA LeasedRow ==
    ASSUME NEW r \in JobRow, NEW a \in Ages
    PROVE  /\ Leased(r, a) \in JobRow
           /\ Leased(r, a).status = "running"
           /\ Leased(r, a).token = r.claims + 1
           /\ Leased(r, a).claims = r.claims + 1
           /\ Leased(r, a).attempts = r.attempts + 1
           /\ Leased(r, a).max = r.max
           /\ Leased(r, a).left = Lease - a
           /\ Leased(r, a).scope = r.scope /\ Leased(r, a).type = r.type
           /\ Leased(r, a).gen = r.gen /\ Leased(r, a).salt = r.salt
<1>1. Lease - a \in Int
  BY TimeAssumption DEF Ages
<1>2. r.attempts + 1 \in Nat /\ r.claims + 1 \in Nat
  BY DEF JobRow
<1>3. PICK q1 \in JobRow : q1 = [r EXCEPT !.status = "running"]
  BY SetField DEF Statuses
<1>4. PICK q2 \in JobRow : q2 = [q1 EXCEPT !.attempts = r.attempts + 1]
  BY <1>2, SetField
<1>5. PICK q3 \in JobRow : q3 = [q2 EXCEPT !.claims = r.claims + 1]
  BY <1>2, SetField
<1>6. PICK q4 \in JobRow : q4 = [q3 EXCEPT !.token = r.claims + 1]
  BY <1>2, SetField
<1>7. PICK q5 \in JobRow : q5 = [q4 EXCEPT !.left = Lease - a]
  BY <1>1, SetField
<1>8. Leased(r, a) = q5
  BY <1>3, <1>4, <1>5, <1>6, <1>7 DEF Leased
<1> QED
  BY <1>1, <1>2, <1>8, SMT DEF Leased, JobRow

LEMMA AgedRow ==
    ASSUME NEW r \in JobRow
    PROVE  /\ Aged(r) \in JobRow
           /\ Aged(r).status = r.status /\ Aged(r).token = r.token
           /\ Aged(r).claims = r.claims
           /\ Aged(r).attempts = r.attempts /\ Aged(r).max = r.max
           /\ Aged(r).priority = r.priority
           /\ Aged(r).scope = r.scope /\ Aged(r).type = r.type
           /\ Aged(r).gen = r.gen /\ Aged(r).salt = r.salt
           /\ ~Running(r) => Aged(r).left = r.left
           /\ Running(r) => Aged(r).left = Greater(r.left - 1, -Skew)
<1> DEFINE due == IF Actionable(r) THEN Greater(r.due - 1, -Skew) ELSE r.due
           left == IF Running(r) THEN Greater(r.left - 1, -Skew) ELSE r.left
<1>1. due \in Int /\ left \in Int
  BY TimeAssumption DEF JobRow, Greater
<1>2. PICK q1 \in JobRow : q1 = [r EXCEPT !.due = due]
  <2> HIDE DEF due
  <2> QED BY <1>1, SetField
<1>3. PICK q2 \in JobRow : q2 = [q1 EXCEPT !.left = left]
  <2> HIDE DEF left
  <2> QED BY <1>1, SetField
<1>4. Aged(r) = q2
  BY <1>2, <1>3 DEF Aged
<1>5. Aged(r) = [r EXCEPT !.due = due, !.left = left]
  BY DEF Aged
<1>6. /\ Aged(r).status = r.status /\ Aged(r).token = r.token
      /\ Aged(r).claims = r.claims
      /\ Aged(r).attempts = r.attempts /\ Aged(r).max = r.max
      /\ Aged(r).priority = r.priority
      /\ Aged(r).scope = r.scope /\ Aged(r).type = r.type
      /\ Aged(r).gen = r.gen /\ Aged(r).salt = r.salt
      /\ Aged(r).left = left
  <2> HIDE DEF due, left
  <2> QED BY <1>5, SMT DEF JobRow
<1> QED
  BY <1>4, <1>6

LEMMA NewRowRow ==
    ASSUME NEW s \in Scopes, NEW t \in Types, NEW g \in Gens,
           NEW salt \in JobIds \cup {0}, NEW p \in Payloads,
           NEW d \in Demand, NEW a \in Ages
    PROVE  /\ NewRow(s, t, g, salt, p, d, a) \in JobRow
           /\ NewRow(s, t, g, salt, p, d, a).status = "pending"
           /\ NewRow(s, t, g, salt, p, d, a).attempts = 0
           /\ NewRow(s, t, g, salt, p, d, a).max = MaxAttempts[t]
           /\ NewRow(s, t, g, salt, p, d, a).claims = 0
           /\ NewRow(s, t, g, salt, p, d, a).token = 0
           /\ NewRow(s, t, g, salt, p, d, a).left = 0
           /\ NewRow(s, t, g, salt, p, d, a).scope = s
           /\ NewRow(s, t, g, salt, p, d, a).type = t
           /\ NewRow(s, t, g, salt, p, d, a).gen = g
           /\ NewRow(s, t, g, salt, p, d, a).salt = salt
<1>1. a \in Int /\ MaxAttempts[t] \in Nat
  BY TimeAssumption, DemandAssumption DEF Ages
<1> QED
  BY <1>1, SMT DEF NewRow, JobRow, Statuses, Demand

\* A request in the admit step, as AdmitJoin and AdmitNew find it.
LEMMA AdmitType ==
    ASSUME NEW q \in Call, q.step = "admit"
    PROVE  /\ q.scope \in Scopes /\ q.type \in Types /\ q.gen \in Gens
           /\ q.payload \in Payloads /\ q.demand \in Demand /\ q.age \in Ages
           /\ q.age \in Int /\ MaxAttempts[q.type] \in Nat \ {0}
           /\ q.demand.priority \in Nat /\ q.demand.due \in Nat
<1>1. /\ q.scope \in Scopes /\ q.type \in Types /\ q.gen \in Gens
      /\ q.payload \in Payloads /\ q.demand \in Demand /\ q.age \in Ages
  BY DEF Call, Idle
<1>2. q.age \in Int /\ MaxAttempts[q.type] \in Nat \ {0}
  BY <1>1, TimeAssumption, DemandAssumption DEF Ages
<1> QED
  BY <1>1, <1>2 DEF Demand

LEMMA ExpeditedRow ==
    ASSUME NEW r \in JobRow, NEW q \in Call, q.step = "admit"
    PROVE  /\ Expedited(r, q) \in JobRow
           /\ Expedited(r, q).status = r.status
           /\ Expedited(r, q).token = r.token
           /\ Expedited(r, q).claims = r.claims
           /\ Expedited(r, q).left = r.left
           /\ Expedited(r, q).attempts = r.attempts
           /\ Expedited(r, q).max \in Nat /\ Expedited(r, q).max >= r.max
           /\ Expedited(r, q).scope = r.scope
           /\ Expedited(r, q).type = r.type
           /\ Expedited(r, q).gen = r.gen /\ Expedited(r, q).salt = r.salt
<1> DEFINE
      max == IF r.priority < q.demand.priority /\ ~Running(r)
             THEN Greater(r.max, r.attempts + MaxAttempts[q.type]) ELSE r.max
      priority == Greater(r.priority, q.demand.priority)
      due == IF Running(r) THEN r.due
             ELSE Lesser(r.due, q.demand.due - q.age)
<1>1. q.demand.due \in Nat /\ q.age \in Int /\ q.payload \in Payloads
      /\ MaxAttempts[q.type] \in Nat /\ q.demand.priority \in Nat
  BY AdmitType
<1>2. /\ r.max \in Nat /\ r.priority \in Nat /\ r.attempts \in Nat
      /\ r.due \in Int
  BY DEF JobRow
<1>3. max \in Nat /\ max >= r.max
  BY <1>1, <1>2 DEF Greater
<1>4. priority \in Nat /\ due \in Int
  BY <1>1, <1>2 DEF Greater, Lesser
<1>5. Expedited(r, q) =
        [r EXCEPT !.max = max, !.priority = priority, !.due = due,
                  !.payload = IF Running(r) THEN r.payload ELSE q.payload]
  BY DEF Expedited
<1> HIDE DEF max, priority, due
<1>6. PICK q1 \in JobRow : q1 = [r EXCEPT !.max = max]
  BY <1>3, SetField
<1>7. PICK q2 \in JobRow : q2 = [q1 EXCEPT !.priority = priority]
  BY <1>4, SetField
<1>8. PICK q3 \in JobRow : q3 = [q2 EXCEPT !.due = due]
  BY <1>4, SetField
<1>9. PICK q4 \in JobRow :
        q4 = [q3 EXCEPT !.payload = IF Running(r) THEN r.payload ELSE q.payload]
  <2>1. r.payload \in Payloads \cup {"none"}
    BY DEF JobRow
  <2>2. (IF Running(r) THEN r.payload ELSE q.payload) \in Payloads \cup {"none"}
    BY <2>1, <1>1
  <2> QED
    BY <2>2, SetField
<1>10. Expedited(r, q) = q4
  BY <1>5, <1>6, <1>7, <1>8, <1>9
<1> QED
  BY <1>3, <1>5, <1>10, SMT DEF JobRow
LEMMA ComposeFirstRow ==
    ASSUME NEW r \in JobRow
    PROVE  /\ ComposeFirst(r) \in JobRow
           /\ ComposeFirst(r).status = r.status
           /\ ComposeFirst(r).token = r.token
           /\ ComposeFirst(r).claims = r.claims
           /\ ComposeFirst(r).left = r.left
           /\ ComposeFirst(r).attempts = r.attempts
           /\ ComposeFirst(r).max = r.max
           /\ ComposeFirst(r).scope = r.scope
           /\ ComposeFirst(r).type = r.type
           /\ ComposeFirst(r).gen = r.gen /\ ComposeFirst(r).salt = r.salt
<1>1. [r EXCEPT !.priority = 100] \in JobRow
  <2>1. 100 \in Nat
    OBVIOUS
  <2> QED
    BY <2>1, SetField
<1> QED
  BY <1>1, SMT DEF ComposeFirst, JobRow

LEMMA ReturnedRow ==
    ASSUME NEW r \in JobRow, NEW preserve \in BOOLEAN,
           NEW p \in Payloads \cup {"none"}
    PROVE  /\ Returned(r, preserve, p) \in JobRow
           /\ Returned(r, preserve, p).status = r.status
           /\ Returned(r, preserve, p).max = r.max
           /\ Returned(r, preserve, p).claims = r.claims
           /\ Returned(r, preserve, p).attempts <= r.attempts
           /\ ~preserve => Returned(r, preserve, p).attempts = r.attempts
           /\ Returned(r, preserve, p).scope = r.scope
           /\ Returned(r, preserve, p).type = r.type
           /\ Returned(r, preserve, p).gen = r.gen
           /\ Returned(r, preserve, p).salt = r.salt
<1>1. /\ Spent(r, preserve) \in Nat /\ Spent(r, preserve) <= r.attempts
      /\ ~preserve => Spent(r, preserve) = r.attempts
  BY DEF Spent, Greater, JobRow
<1>2. PICK q1 \in JobRow : q1 = [r EXCEPT !.attempts = Spent(r, preserve)]
  BY <1>1, SetField
<1>3. PICK q2 \in JobRow : q2 = [q1 EXCEPT !.payload = p]
  BY SetField
<1>4. Returned(r, preserve, p) = q2
  BY <1>2, <1>3 DEF Returned
<1> QED
  BY <1>1, <1>4, SMT DEF Returned, JobRow

-----------------------------------------------------------------------------
(* Every statement except an insert keeps what identifies a row, keeps it   *)
(* well formed, and makes no row actionable that was not.                   *)

Kept(r, q) ==
    /\ q \in JobRow /\ RowOK(q)
    /\ q.scope = r.scope /\ q.type = r.type
    /\ q.gen = r.gen /\ q.salt = r.salt
    /\ Exists(q) => Exists(r)
    /\ Actionable(q) => Actionable(r)

\* A lease that runs is new, or runs on as it did.
Timed(r, q) == Running(q) => q.left > 0 \/ (Running(r) /\ q.left = r.left)

LEMMA KeptSelf ==
    ASSUME NEW r \in JobRow, RowOK(r)
    PROVE  Kept(r, r) /\ Timed(r, r)
  BY DEF Kept, Timed

LEMMA KeptClosed ==
    ASSUME NEW r \in JobRow, RowOK(r), Exists(r),
           NEW st \in {"succeeded", "failed", "cancelled", "deleted"}
    PROVE  Kept(r, Closed(r, st)) /\ Timed(r, Closed(r, st))
<1>1. st \in Statuses
  BY DEF Statuses
<1>2. Closed(r, st).status = st
  BY <1>1, ClosedRow
<1>3. ~Actionable(Closed(r, st))
  BY <1>2 DEF Actionable, Waiting, Running
<1>4. RowOK(Closed(r, st))
  BY <1>1, <1>3, ClosedRow DEF RowOK, Budgeted, Actionable, Exists
<1> QED
  BY <1>1, <1>3, <1>4, ClosedRow DEF Kept, Timed, Actionable

LEMMA KeptRequeued ==
    ASSUME NEW r \in JobRow, RowOK(r), Exists(r), NEW due \in Int,
           Actionable(r), r.attempts < r.max
    PROVE  Kept(r, Requeued(r, due)) /\ Timed(r, Requeued(r, due))
<1>1. Requeued(r, due).status = "retry"
  BY RequeuedRow
<1>2. /\ Waiting(Requeued(r, due)) /\ ~Running(Requeued(r, due))
      /\ Exists(Requeued(r, due))
  BY <1>1 DEF Waiting, Running, Exists
<1>3. RowOK(Requeued(r, due))
  BY <1>2, RequeuedRow DEF RowOK, Budgeted
<1> QED
  BY <1>2, <1>3, RequeuedRow DEF Kept, Timed

LEMMA KeptLeased ==
    ASSUME NEW r \in JobRow, RowOK(r), Actionable(r), r.attempts < r.max,
           NEW a \in Ages
    PROVE  Kept(r, Leased(r, a)) /\ Timed(r, Leased(r, a))
<1>1. Leased(r, a).status = "running"
  BY LeasedRow
<1>2. /\ ~Waiting(Leased(r, a)) /\ Running(Leased(r, a)) /\ Exists(r)
      /\ Exists(Leased(r, a))
  BY <1>1 DEF Waiting, Running, Exists, Actionable
<1>3. r.claims + 1 # 0
  BY DEF JobRow
<1>4. Leased(r, a).left > 0
  BY LeasedRow, TimeAssumption DEF Ages
<1>5. RowOK(Leased(r, a))
  <2>1. Budgeted(Leased(r, a))
    BY LeasedRow DEF RowOK, Budgeted, JobRow
  <2> QED
    BY <1>2, <1>3, <2>1, LeasedRow DEF RowOK
<1> QED
  BY <1>2, <1>4, <1>5, LeasedRow DEF Kept, Timed

LEMMA KeptExpedited ==
    ASSUME NEW r \in JobRow, RowOK(r), NEW q \in Call, q.step = "admit"
    PROVE  Kept(r, Expedited(r, q)) /\ Timed(r, Expedited(r, q))
<1>1. Expedited(r, q).status = r.status
  BY ExpeditedRow
<1>2. /\ Waiting(Expedited(r, q)) <=> Waiting(r)
      /\ Running(Expedited(r, q)) <=> Running(r)
      /\ Exists(Expedited(r, q)) <=> Exists(r)
  BY <1>1 DEF Waiting, Running, Exists
<1>3. r.attempts < r.max => Expedited(r, q).attempts < Expedited(r, q).max
  BY ExpeditedRow DEF JobRow
<1>4. RowOK(Expedited(r, q))
  <2>1. Budgeted(Expedited(r, q))
    BY ExpeditedRow DEF RowOK, Budgeted, JobRow
  <2> QED
    BY <1>2, <1>3, <2>1, ExpeditedRow DEF RowOK
<1> QED
  BY <1>2, <1>4, ExpeditedRow DEF Kept, Timed, Actionable

LEMMA KeptComposeFirst ==
    ASSUME NEW r \in JobRow, RowOK(r)
    PROVE  Kept(r, ComposeFirst(r)) /\ Timed(r, ComposeFirst(r))
<1>1. ComposeFirst(r).status = r.status
  BY ComposeFirstRow
<1>2. /\ Waiting(ComposeFirst(r)) <=> Waiting(r)
      /\ Running(ComposeFirst(r)) <=> Running(r)
      /\ Exists(ComposeFirst(r)) <=> Exists(r)
  BY <1>1 DEF Waiting, Running, Exists
<1>3. RowOK(ComposeFirst(r))
  BY <1>2, ComposeFirstRow DEF RowOK, Budgeted
<1> QED
  BY <1>2, <1>3, ComposeFirstRow DEF Kept, Timed, Actionable

LEMMA KeptAged ==
    ASSUME NEW r \in JobRow, RowOK(r)
    PROVE  /\ Kept(r, Aged(r)) /\ Aged(r).status = r.status
           /\ Running(r) => Aged(r).left = Greater(r.left - 1, -Skew)
<1>1. Aged(r).status = r.status
  BY AgedRow
<1>2. /\ Waiting(Aged(r)) <=> Waiting(r)
      /\ Running(Aged(r)) <=> Running(r)
      /\ Exists(Aged(r)) <=> Exists(r)
  BY <1>1 DEF Waiting, Running, Exists
<1>3. RowOK(Aged(r))
  BY <1>2, AgedRow DEF RowOK, Budgeted
<1> QED
  BY <1>1, <1>2, <1>3, AgedRow DEF Kept, Actionable

LEMMA KeptRenewed ==
    ASSUME NEW r \in JobRow, RowOK(r), Running(r), NEW a \in Ages
    PROVE  /\ Kept(r, [r EXCEPT !.left = Lease - a])
           /\ Timed(r, [r EXCEPT !.left = Lease - a])
<1> DEFINE q == [r EXCEPT !.left = Lease - a]
<1>1. Lease - a \in Int /\ Lease - a > 0
  BY TimeAssumption DEF Ages
<1>2. q \in JobRow
  BY <1>1, SetField
<1>3. /\ q.status = r.status /\ q.token = r.token /\ q.claims = r.claims
      /\ q.attempts = r.attempts /\ q.max = r.max /\ q.scope = r.scope
      /\ q.type = r.type /\ q.gen = r.gen /\ q.salt = r.salt
      /\ q.left = Lease - a
  BY SMT DEF JobRow
<1> HIDE DEF q
<1>4. Running(q) /\ ~Waiting(q) /\ Exists(q) /\ Exists(r) /\ Actionable(r)
  BY <1>3 DEF Waiting, Running, Exists, Actionable
<1>5. RowOK(q)
  BY <1>3, <1>4 DEF RowOK, Budgeted
<1>6. Kept(r, q) /\ Timed(r, q)
  BY <1>1, <1>2, <1>3, <1>4, <1>5 DEF Kept, Timed
<1> QED
  BY <1>6 DEF q

LEMMA KeptRetried ==
    ASSUME NEW r \in JobRow, RowOK(r), Running(r), NEW due \in Int,
           NEW preserve \in BOOLEAN, preserve => r.type = "artwork",
           NEW p \in Payloads \cup {"none"}
    PROVE  LET u == Returned(r, preserve, p)
               q == IF u.attempts >= u.max THEN Closed(u, "failed")
                    ELSE Requeued(u, due)
           IN  Kept(r, q) /\ Timed(r, q)
<1> DEFINE u == Returned(r, preserve, p)
<1>1. /\ u \in JobRow /\ u.status = r.status
      /\ u.max = r.max /\ u.scope = r.scope /\ u.type = r.type
      /\ u.gen = r.gen /\ u.salt = r.salt /\ u.claims = r.claims
      /\ u.attempts <= r.attempts /\ (~preserve => u.attempts = r.attempts)
  BY ReturnedRow
<1> HIDE DEF u
<1>0. Budgeted(u)
  BY <1>1 DEF RowOK, Budgeted, JobRow
<1>2. Exists(r) /\ Actionable(r) /\ r.scope \in Scopes /\ r.type \in Types
  BY DEF Running, Exists, Actionable, RowOK
<1>3. CASE u.attempts >= u.max
  <2>1. "failed" \in Statuses
    BY DEF Statuses
  <2>2. Closed(u, "failed").status = "failed"
    BY <1>1, <2>1, ClosedRow
  <2>3. /\ ~Waiting(Closed(u, "failed")) /\ ~Running(Closed(u, "failed"))
    BY <2>2 DEF Waiting, Running
  <2>4. RowOK(Closed(u, "failed"))
    BY <1>0, <1>1, <1>2, <2>1, <2>3, ClosedRow DEF RowOK, Budgeted
  <2>5. Kept(r, Closed(u, "failed")) /\ Timed(r, Closed(u, "failed"))
    BY <1>1, <1>2, <2>1, <2>3, <2>4, ClosedRow DEF Kept, Timed, Actionable
  <2> QED
    BY <1>3, <2>5 DEF u
<1>4. CASE ~(u.attempts >= u.max)
  <2>1. u.attempts < u.max
    BY <1>1, <1>4 DEF JobRow
  <2>2. Requeued(u, due).status = "retry"
    BY <1>1, RequeuedRow
  <2>3. Waiting(Requeued(u, due)) /\ ~Running(Requeued(u, due))
    BY <2>2 DEF Waiting, Running
  <2>4. RowOK(Requeued(u, due))
    BY <1>0, <1>1, <1>2, <2>1, <2>3, RequeuedRow DEF RowOK, Budgeted
  <2>5. Kept(r, Requeued(u, due)) /\ Timed(r, Requeued(u, due))
    BY <1>1, <1>2, <2>3, <2>4, RequeuedRow DEF Kept, Timed
  <2> QED
    BY <1>4, <2>5 DEF u
<1> QED
  BY <1>3, <1>4

-----------------------------------------------------------------------------
(* Tables. *)

\* Every row is well formed; a salt is the id of the row it is on.
RowsOK(rows) ==
    /\ rows \in [JobIds -> JobRow]
    /\ \A j \in JobIds : RowOK(rows[j]) /\ rows[j].salt \in {0, j}

Unique(rows) == \A i, j \in JobIds : SameKey(rows[i], rows[j]) => i = j

Single(rows) == \A i, j \in JobIds : SameSingleton(rows[i], rows[j]) => i = j

\* Every row of new is the row of rows, kept.
KeptTable(rows, new) ==
    /\ new \in [JobIds -> JobRow]
    /\ \A j \in JobIds : Kept(rows[j], new[j]) /\ Timed(rows[j], new[j])

LEMMA KeptTableOK ==
    ASSUME NEW rows, NEW new, RowsOK(rows), new \in [JobIds -> JobRow],
           \A j \in JobIds : Kept(rows[j], new[j])
    PROVE  /\ RowsOK(new)
           /\ Unique(rows) => Unique(new)
           /\ Single(rows) => Single(new)
<1>1. RowsOK(new)
  BY DEF RowsOK, Kept
<1>2. Unique(rows) => Unique(new)
  BY DEF Unique, SameKey, Kept
<1>3. Single(rows) => Single(new)
  BY DEF Single, SameSingleton, Kept
<1> QED
  BY <1>1, <1>2, <1>3

LEMMA KeptTableSelf ==
    ASSUME NEW rows, RowsOK(rows)
    PROVE  KeptTable(rows, rows)
  BY KeptSelf DEF KeptTable, RowsOK

LEMMA KeptTableTrans ==
    ASSUME NEW rows, NEW mid, NEW new, KeptTable(rows, mid), KeptTable(mid, new)
    PROVE  KeptTable(rows, new)
  BY DEF KeptTable, Kept, Timed

LEMMA KeptExcept ==
    ASSUME NEW rows, RowsOK(rows), NEW j \in JobIds, NEW q,
           Kept(rows[j], q), Timed(rows[j], q)
    PROVE  KeptTable(rows, [rows EXCEPT ![j] = q])
<1>1. q \in JobRow
  BY DEF Kept
<1>2. [rows EXCEPT ![j] = q] \in [JobIds -> JobRow]
  BY <1>1 DEF RowsOK
<1>3. ASSUME NEW i \in JobIds
      PROVE  /\ Kept(rows[i], [rows EXCEPT ![j] = q][i])
             /\ Timed(rows[i], [rows EXCEPT ![j] = q][i])
  <2>1. CASE i = j
    BY <2>1 DEF RowsOK
  <2>2. CASE i # j
    <3>1. [rows EXCEPT ![j] = q][i] = rows[i]
      BY <2>2 DEF RowsOK
    <3>2. rows[i] \in JobRow /\ RowOK(rows[i])
      BY DEF RowsOK
    <3> QED
      BY <3>1, <3>2, KeptSelf
  <2> QED
    BY <2>1, <2>2
<1> QED
  BY <1>2, <1>3 DEF KeptTable

LEMMA FailExhaustedKept ==
    ASSUME RowsOK(jobs), NEW a \in Ages
    PROVE  KeptTable(jobs, FailExhausted(a))
<1>1. ASSUME NEW j \in JobIds
      PROVE  /\ Kept(jobs[j], FailExhausted(a)[j])
             /\ Timed(jobs[j], FailExhausted(a)[j])
  <2>1. jobs[j] \in JobRow /\ RowOK(jobs[j])
    BY DEF RowsOK
  <2>2. CASE Expired(jobs[j], a) /\ jobs[j].attempts >= jobs[j].max
    <3>1. Exists(jobs[j])
      BY <2>2 DEF Expired, Running, Exists
    <3>2. FailExhausted(a)[j] = Closed(jobs[j], "failed")
      BY <2>2 DEF FailExhausted
    <3> QED
      BY <2>1, <3>1, <3>2, KeptClosed
  <2>3. CASE ~(Expired(jobs[j], a) /\ jobs[j].attempts >= jobs[j].max)
    <3>1. FailExhausted(a)[j] = jobs[j]
      BY <2>3 DEF FailExhausted
    <3> QED
      BY <2>1, <3>1, KeptSelf
  <2> QED
    BY <2>2, <2>3
<1>2. \A j \in JobIds : FailExhausted(a)[j] \in JobRow
  BY <1>1 DEF Kept
<1>3. FailExhausted(a) \in [JobIds -> JobRow]
  BY <1>2 DEF FailExhausted
<1> QED
  BY <1>1, <1>3 DEF KeptTable

\* reconcile_expired leaves no lease that has expired by its timestamp.
LEMMA ReconciledKept ==
    ASSUME RowsOK(jobs), NEW a \in Ages
    PROVE  /\ KeptTable(jobs, Reconciled(a))
           /\ \A j \in JobIds :
                 Running(Reconciled(a)[j]) => Reconciled(a)[j].left > -a
<1>1. ASSUME NEW j \in JobIds
      PROVE  /\ Kept(jobs[j], Reconciled(a)[j])
             /\ Timed(jobs[j], Reconciled(a)[j])
             /\ Running(Reconciled(a)[j]) => Reconciled(a)[j].left > -a
  <2>1. jobs[j] \in JobRow /\ RowOK(jobs[j])
    BY DEF RowsOK
  <2>2. a \in Int /\ -a \in Int /\ jobs[j].left \in Int
    BY <2>1, TimeAssumption DEF Ages, JobRow
  <2>3. CASE ~Expired(jobs[j], a)
    <3>1. Reconciled(a)[j] = jobs[j]
      BY <2>3 DEF Reconciled
    <3>2. Running(jobs[j]) => jobs[j].left > -a
      BY <2>2, <2>3 DEF Expired
    <3> QED
      BY <2>1, <3>1, <3>2, KeptSelf
  <2>4. CASE Expired(jobs[j], a) /\ jobs[j].attempts >= jobs[j].max
    <3>1. Exists(jobs[j])
      BY <2>4 DEF Expired, Running, Exists
    <3>2. Reconciled(a)[j] = Closed(jobs[j], "failed")
      BY <2>4 DEF Reconciled
    <3>3. ~Running(Closed(jobs[j], "failed"))
      BY <2>1, ClosedRow DEF Running, Statuses
    <3> QED
      BY <2>1, <3>1, <3>2, <3>3, KeptClosed
  <2>5. CASE Expired(jobs[j], a) /\ ~(jobs[j].attempts >= jobs[j].max)
    <3>1. Exists(jobs[j]) /\ Actionable(jobs[j])
      BY <2>5 DEF Expired, Running, Exists, Actionable
    <3>2. Reconciled(a)[j] = Requeued(jobs[j], -a)
      BY <2>5 DEF Reconciled
    <3>3. ~Running(Requeued(jobs[j], -a))
      BY <2>1, <2>2, RequeuedRow DEF Running
    <3>4. jobs[j].attempts < jobs[j].max
      BY <2>1, <2>5 DEF JobRow
    <3> QED
      BY <2>1, <2>2, <3>1, <3>2, <3>3, <3>4, KeptRequeued
  <2> QED
    BY <2>3, <2>4, <2>5
<1>2. \A j \in JobIds : Reconciled(a)[j] \in JobRow
  BY <1>1 DEF Kept
<1>3. Reconciled(a) \in [JobIds -> JobRow]
  BY <1>2 DEF Reconciled
<1> QED
  BY <1>1, <1>3 DEF KeptTable

LEMMA CancelledKept ==
    ASSUME NEW rows, RowsOK(rows), NEW js
    PROVE  KeptTable(rows, Cancelled(rows, js))
<1>1. ASSUME NEW j \in JobIds
      PROVE  /\ Kept(rows[j], Cancelled(rows, js)[j])
             /\ Timed(rows[j], Cancelled(rows, js)[j])
  <2>1. rows[j] \in JobRow /\ RowOK(rows[j])
    BY DEF RowsOK
  <2>2. CASE j \in js /\ Waiting(rows[j])
    <3>1. Exists(rows[j])
      BY <2>2 DEF Waiting, Exists
    <3>2. Cancelled(rows, js)[j] = Closed(rows[j], "cancelled")
      BY <2>2 DEF Cancelled
    <3> QED
      BY <2>1, <3>1, <3>2, KeptClosed
  <2>3. CASE ~(j \in js /\ Waiting(rows[j]))
    <3>1. Cancelled(rows, js)[j] = rows[j]
      BY <2>3 DEF Cancelled
    <3> QED
      BY <2>1, <3>1, KeptSelf
  <2> QED
    BY <2>2, <2>3
<1>2. \A j \in JobIds : Cancelled(rows, js)[j] \in JobRow
  BY <1>1 DEF Kept
<1>3. Cancelled(rows, js) \in [JobIds -> JobRow]
  BY <1>2 DEF Cancelled
<1> QED
  BY <1>1, <1>3 DEF KeptTable

LEMMA RetryDelayType ==
    ASSUME NEW n \in Nat
    PROVE  RetryDelay(n) \in Nat
<1>1. Greater(n, 1) \in Nat /\ Greater(n, 1) >= 1
  BY DEF Greater
<1>2. ASSUME Greater(n, 1) <= Len(BackoffSteps)
      PROVE  BackoffSteps[Greater(n, 1)] \in Nat
  <2>1. Greater(n, 1) \in 1 .. Len(BackoffSteps)
    BY <1>1, <1>2, DelayAssumption
  <2> HIDE DEF Greater
  <2> QED
    BY <2>1, DelayAssumption
<1> QED
  BY <1>2, DelayAssumption DEF RetryDelay, Lesser

-----------------------------------------------------------------------------
(* The inductive invariant. *)

\* A request is made after startup; the singleton types are admitted, the
\* others inserted.
CallOK ==
    \A c \in Schedulers :
        /\ call[c] # Idle => booted
        /\ call[c].step = "insert" => call[c].type \notin SingletonTypes
        /\ call[c].step \in {"reconcile", "admit"} => call[c].type \in SingletonTypes

\* What startup finds.
LegacyTable ==
    \A i, j \in JobIds :
        SameSingleton(jobs[i], jobs[j]) =>
          \/ i = j
          \/ jobs[i].type \in RefreshTypes
             /\ ~(Running(jobs[i]) /\ Running(jobs[j]))
          \/ LegacyCompose(jobs[i]) \/ LegacyCompose(jobs[j])

IInv ==
    /\ TypeOK
    /\ RowsOK(jobs)
    /\ Unique(jobs)
    /\ CallOK
    /\ AdmissionLeasesLive
    /\ IF booted THEN Single(jobs) ELSE LegacyTable

LEMMA Initially == Init => IInv
<1> SUFFICES ASSUME Init PROVE IInv
  OBVIOUS
<1>1. InitialTable(jobs) /\ ~booted /\ booted \in BOOLEAN
      /\ call = [c \in Schedulers |-> Idle]
  BY TablesAssumption DEF Init
<1>2. TypeOK
  BY <1>1, CallType DEF TypeOK, InitialTable
<1>3. RowsOK(jobs) /\ Unique(jobs) /\ LegacyTable
  BY <1>1 DEF InitialTable, RowsOK, Unique, LegacyTable
<1>4. Idle.step \notin {"admit", "insert", "reconcile"}
  BY DEF Idle
<1>5. CallOK /\ AdmissionLeasesLive
  BY <1>1, <1>4 DEF CallOK, AdmissionLeasesLive
<1> QED
  BY <1>1, <1>2, <1>3, <1>5 DEF IInv

\* A step that keeps the table and, but for ending calls, the calls.
LEMMA KeptStep ==
    ASSUME IInv, booted, booted' = booted, KeptTable(jobs, jobs'),
           call' \in [Schedulers -> Call],
           \A c \in Schedulers : call'[c] = call[c] \/ call'[c] = Idle
    PROVE  IInv'
<1>1. \A j \in JobIds : Kept(jobs[j], jobs'[j]) /\ Timed(jobs[j], jobs'[j])
  BY DEF KeptTable
<1>2. RowsOK(jobs') /\ Unique(jobs') /\ Single(jobs')
  BY <1>1, KeptTableOK DEF IInv, KeptTable
<1>3. TypeOK'
  BY <1>2 DEF IInv, TypeOK, RowsOK
<1>4. Idle.step \notin {"admit", "insert", "reconcile"}
  BY DEF Idle
<1>5. CallOK'
  BY <1>4 DEF IInv, CallOK
<1>6. AdmissionLeasesLive'
  <2> SUFFICES ASSUME NEW c \in Schedulers, call'[c].step = "admit",
                      NEW j \in JobIds, Running(jobs'[j])
               PROVE  jobs'[j].left > -call'[c].age
    BY DEF AdmissionLeasesLive
  <2>1. call'[c] = call[c] /\ call[c].step = "admit" /\ call[c] \in Call
    BY <1>4 DEF IInv, TypeOK
  <2>2. call[c].age \in Ages
    BY <2>1, AdmitType
  <2>3. jobs'[j].left \in Int
    BY <1>2 DEF RowsOK, JobRow
  <2>4. CASE jobs'[j].left > 0
    BY <2>1, <2>2, <2>3, <2>4, TimeAssumption DEF Ages
  <2>5. CASE Running(jobs[j]) /\ jobs'[j].left = jobs[j].left
    BY <2>1, <2>5 DEF IInv, AdmissionLeasesLive
  <2> QED
    BY <1>1, <2>4, <2>5 DEF Timed
<1> QED
  BY <1>2, <1>3, <1>5, <1>6 DEF IInv

LEMMA LeasingStep ==
    ASSUME IInv, Leasing
    PROVE  IInv'
<1>1. RowsOK(jobs) /\ call \in [Schedulers -> Call]
  BY DEF IInv, TypeOK
<1>2. ASSUME NEW j \in JobIds, NEW k, Owns(j, k)
      PROVE  jobs[j] \in JobRow /\ RowOK(jobs[j]) /\ Running(jobs[j])
  BY <1>1, <1>2 DEF RowsOK, Owns
<1>3. ASSUME NEW L \in Lanes, NEW a \in Ages, ClaimNothing(L, a)
      PROVE  KeptTable(jobs, jobs')
  BY <1>1, <1>3, FailExhaustedKept DEF ClaimNothing
<1>4. ASSUME NEW L \in Lanes, NEW a \in Ages, NEW j \in JobIds,
             Claim(j, L, a)
      PROVE  KeptTable(jobs, jobs')
  <2> DEFINE rows == FailExhausted(a)
  <2>1. KeptTable(jobs, rows)
    BY <1>1, FailExhaustedKept
  <2>2. RowsOK(rows)
    BY <1>1, <2>1, KeptTableOK DEF KeptTable
  <2>3. jobs' = [rows EXCEPT ![j] = Leased(rows[j], a)]
    BY <1>4 DEF Claim
  <2>4. Due(rows[j], a) \/ Expired(rows[j], a)
    BY <1>4 DEF Claim, Claimable
  <2> HIDE DEF rows
  <2>5. Actionable(rows[j]) /\ rows[j] \in JobRow /\ RowOK(rows[j])
    BY <2>2, <2>4 DEF Due, Expired, Actionable, RowsOK
  <2>8. rows[j].attempts < rows[j].max
    BY <1>4 DEF Claim, Claimable, rows
  <2>6. Kept(rows[j], Leased(rows[j], a)) /\ Timed(rows[j], Leased(rows[j], a))
    BY <2>5, <2>8, KeptLeased
  <2>7. KeptTable(rows, jobs')
    BY <2>2, <2>3, <2>6, KeptExcept
  <2> QED
    BY <2>1, <2>7, KeptTableTrans
<1>5. ASSUME NEW j \in JobIds, NEW k, NEW a \in Ages, Renew(j, k, a)
      PROVE  KeptTable(jobs, jobs')
  <2>1. jobs[j] \in JobRow /\ RowOK(jobs[j]) /\ Running(jobs[j])
    BY <1>2, <1>5 DEF Renew
  <2>2. jobs' = [jobs EXCEPT ![j] = [jobs[j] EXCEPT !.left = Lease - a]]
    BY <1>5 DEF Renew
  <2> QED
    BY <1>1, <2>1, <2>2, KeptRenewed, KeptExcept
<1>6. ASSUME NEW j \in JobIds, NEW k, NEW a \in Ages, NEW delay \in Int,
             NEW preserve \in BOOLEAN, NEW p \in Payloads \cup {"none"},
             preserve => jobs[j].type = "artwork",
             Retry(j, k, delay, preserve, p, a)
      PROVE  KeptTable(jobs, jobs')
  <2> DEFINE u == Returned(jobs[j], preserve, p)
             q == IF u.attempts >= u.max THEN Closed(u, "failed")
                  ELSE Requeued(u, delay - a)
  <2>1. jobs[j] \in JobRow /\ RowOK(jobs[j]) /\ Running(jobs[j])
    BY <1>2, <1>6 DEF Retry
  <2>2. delay - a \in Int
    BY TimeAssumption DEF Ages
  <2>3. jobs' = [jobs EXCEPT ![j] = q]
    BY <1>6 DEF Retry
  <2>4. Kept(jobs[j], q) /\ Timed(jobs[j], q)
    BY <1>6, <2>1, <2>2, KeptRetried
  <2> HIDE DEF q
  <2> QED
    BY <1>1, <2>3, <2>4, KeptExcept
<1>7. ASSUME NEW j \in JobIds, NEW k, NEW a \in Ages, RetryAs(j, k, a)
      PROVE  KeptTable(jobs, jobs')
  <2>1. PICK preserve \in BOOLEAN, p \in Payloads \cup {jobs[j].payload} :
          /\ preserve => jobs[j].type = "artwork"
          /\ \E delay \in Delays \cup {RetryDelay(Spent(jobs[j], preserve))} :
               Retry(j, k, delay, preserve, p, a)
    BY <1>7 DEF RetryAs
  <2>2. PICK delay \in Delays \cup {RetryDelay(Spent(jobs[j], preserve))} :
             Retry(j, k, delay, preserve, p, a)
    BY <2>1
  <2>3. jobs[j] \in JobRow
    BY <1>1 DEF RowsOK
  <2>4. preserve \in BOOLEAN /\ p \in Payloads \cup {"none"}
    BY <2>1, <2>3 DEF JobRow
  <2>5. Spent(jobs[j], preserve) \in Nat
    BY <2>3, <2>4 DEF Spent, Greater, JobRow
  <2>6. delay \in Int
    BY <2>2, <2>5, RetryDelayType, DelayAssumption
  <2> QED
    BY <1>6, <2>1, <2>2, <2>4, <2>6
<1>8. ASSUME NEW j \in JobIds, NEW k, NEW st \in {"succeeded", "failed"},
             Finish(j, k, st)
      PROVE  KeptTable(jobs, jobs')
  <2>1. jobs[j] \in JobRow /\ RowOK(jobs[j]) /\ Running(jobs[j])
    BY <1>2, <1>8 DEF Finish
  <2>2. Exists(jobs[j])
    BY <2>1 DEF Running, Exists
  <2>3. jobs' = [jobs EXCEPT ![j] = Closed(jobs[j], st)]
    BY <1>8 DEF Finish
  <2> QED
    BY <1>1, <2>1, <2>2, <2>3, KeptClosed, KeptExcept
<1>9. KeptTable(jobs, jobs')
  BY <1>3, <1>4, <1>5, <1>7, <1>8 DEF Leasing
<1> QED
  BY <1>1, <1>9, KeptStep DEF Leasing

\* An insert whose key is new, for work nobody is doing if it is exclusive.
LEMMA InsertOK ==
    ASSUME NEW rows, RowsOK(rows), Unique(rows), Single(rows),
           NEW s \in Scopes, NEW t \in Types, NEW g \in Gens,
           NEW salted \in BOOLEAN, NEW p \in Payloads, NEW d \in Demand,
           NEW a \in Ages,
           Insert(rows, s, t, g, salted, p, d, a),
           salted \/ \A i \in JobIds : ~HasKey(rows[i], s, t, g),
           t \in SingletonTypes =>
             \A i \in JobIds : ~(Actionable(rows[i]) /\ Of(rows[i], s, t))
    PROVE  /\ RowsOK(jobs') /\ Unique(jobs') /\ Single(jobs')
           /\ \A i \in JobIds : Running(jobs'[i]) => jobs'[i] = rows[i]
<1> DEFINE new(j) == NewRow(s, t, g, IF salted THEN j ELSE 0, p, d, a)
<1>1. PICK j \in JobIds : /\ rows[j].status = "absent"
                          /\ jobs' = [rows EXCEPT ![j] = new(j)]
  BY DEF Insert
<1>2. j # 0 /\ \A i \in JobIds : rows[i] \in JobRow
  BY JobIdsAssumption DEF RowsOK
<1>3. /\ new(j) \in JobRow /\ new(j).status = "pending"
      /\ new(j).attempts = 0 /\ new(j).max = MaxAttempts[t]
      /\ new(j).claims = 0
      /\ new(j).token = 0 /\ new(j).left = 0 /\ new(j).scope = s
      /\ new(j).type = t /\ new(j).gen = g
      /\ new(j).salt = IF salted THEN j ELSE 0
  BY NewRowRow
<1>4. MaxAttempts[t] \in Nat \ {0}
  BY DemandAssumption
<1> HIDE DEF new
<1>5. /\ Waiting(new(j)) /\ ~Running(new(j)) /\ Exists(new(j))
      /\ Actionable(new(j))
  BY <1>3 DEF Waiting, Running, Exists, Actionable
<1>6. RowOK(new(j))
  BY <1>3, <1>4, <1>5 DEF RowOK, Budgeted
<1>7. jobs'[j] = new(j) /\ \A i \in JobIds \ {j} : jobs'[i] = rows[i]
  BY <1>1 DEF RowsOK
<1>8. jobs' \in [JobIds -> JobRow]
  BY <1>1, <1>3 DEF RowsOK
<1>9. RowsOK(jobs')
  BY <1>3, <1>6, <1>7, <1>8 DEF RowsOK
<1>10. ASSUME NEW i \in JobIds, i # j
       PROVE  ~SameKey(rows[i], new(j)) /\ ~SameKey(new(j), rows[i])
  <2>1. CASE salted
    <3>1. rows[i].salt # j
      BY <1>2, <1>10 DEF RowsOK
    <3> QED
      BY <1>3, <2>1, <3>1 DEF SameKey
  <2>2. CASE ~salted
    BY <1>3, <2>2 DEF SameKey, HasKey, Of
  <2> QED
    BY <2>1, <2>2
<1>11. Unique(jobs')
  BY <1>7, <1>10 DEF Unique
<1>12. ASSUME NEW i \in JobIds, i # j
       PROVE  ~SameSingleton(rows[i], new(j)) /\ ~SameSingleton(new(j), rows[i])
  <2>1. Actionable(rows[i]) => Exists(rows[i])
    BY DEF Actionable, Waiting, Running, Exists
  <2> QED
    BY <1>3, <2>1 DEF SameSingleton, Of
<1>13. Single(jobs')
  BY <1>7, <1>12 DEF Single
<1>14. \A i \in JobIds : Running(jobs'[i]) => jobs'[i] = rows[i]
  BY <1>5, <1>7
<1> QED
  BY <1>9, <1>11, <1>13, <1>14

\* The calls after a step that inserts: as they were, or over.
LEMMA InsertStep ==
    ASSUME IInv, booted, booted' = booted,
           RowsOK(jobs'), Unique(jobs'), Single(jobs'),
           \A i \in JobIds :
             Running(jobs'[i]) => Running(jobs[i]) /\ jobs'[i].left = jobs[i].left,
           call' \in [Schedulers -> Call],
           \A c \in Schedulers : call'[c] = call[c] \/ call'[c] = Idle
    PROVE  IInv'
<1>1. Idle.step \notin {"admit", "insert", "reconcile"}
  BY DEF Idle
<1>2. TypeOK' /\ CallOK'
  BY <1>1 DEF IInv, TypeOK, RowsOK, CallOK
<1>3. AdmissionLeasesLive'
  BY <1>1 DEF IInv, AdmissionLeasesLive
<1> QED
  BY <1>2, <1>3 DEF IInv

\* enqueue of a row of a type that may have several.
LEMMA EnqueueStep ==
    ASSUME IInv, booted, booted' = booted,
           NEW s \in Scopes, NEW t \in Types \ SingletonTypes, NEW g \in Gens,
           NEW p \in Payloads, NEW d \in Demand, NEW a \in Ages,
           Enqueue(s, t, g, p, d, a), call' \in [Schedulers -> Call],
           \A c \in Schedulers : call'[c] = call[c] \/ call'[c] = Idle
    PROVE  IInv'
<1>1. RowsOK(jobs) /\ Unique(jobs) /\ Single(jobs)
  BY DEF IInv
<1>2. CASE jobs' = jobs
  BY <1>1, <1>2, InsertStep
<1>3. CASE jobs' # jobs
  <2>1. /\ Insert(jobs, s, t, g, FALSE, p, d, a)
        /\ \A i \in JobIds : ~HasKey(jobs[i], s, t, g)
    BY <1>3 DEF Enqueue
  <2>2. /\ RowsOK(jobs') /\ Unique(jobs') /\ Single(jobs')
        /\ \A i \in JobIds : Running(jobs'[i]) => jobs'[i] = jobs[i]
    BY <1>1, <2>1, InsertOK
  <2> QED
    BY <2>2, InsertStep
<1> QED
  BY <1>2, <1>3

-----------------------------------------------------------------------------
(* The two transactions of enqueue_singleton. *)

LEMMA CallAges ==
    ASSUME NEW q \in Call, q.step # "idle", NEW a \in Ages
    PROVE  /\ [q EXCEPT !.age = a] \in Call
           /\ [q EXCEPT !.age = a].step = q.step
           /\ [q EXCEPT !.age = a].type = q.type
           /\ [q EXCEPT !.age = a].age = a
  BY SMT DEF Call, Idle

LEMMA CallAdmits ==
    ASSUME NEW q \in Call, q.step = "reconcile", NEW a \in Ages
    PROVE  /\ [q EXCEPT !.step = "admit", !.age = a] \in Call
           /\ [q EXCEPT !.step = "admit", !.age = a].step = "admit"
           /\ [q EXCEPT !.step = "admit", !.age = a].age = a
           /\ [q EXCEPT !.step = "admit", !.age = a].type = q.type
           /\ [q EXCEPT !.step = "admit", !.age = a] # Idle
<1>1. /\ [q EXCEPT !.step = "admit"] \in Call
      /\ [q EXCEPT !.step = "admit"].step = "admit"
      /\ [q EXCEPT !.step = "admit"].type = q.type
  BY SMT DEF Call, Idle
<1>2. PICK m \in Call : m = [q EXCEPT !.step = "admit"] /\ m.step = "admit" /\ m.type = q.type
  BY <1>1
<1>3. [q EXCEPT !.step = "admit", !.age = a] = [m EXCEPT !.age = a]
  BY <1>2
<1> QED
  BY <1>2, <1>3, CallAges DEF Idle

LEMMA ReconcileBeforeAdmitStep ==
    ASSUME IInv, NEW c \in Schedulers, NEW a \in Ages,
           ReconcileBeforeAdmit(c, a)
    PROVE  IInv'
<1>1. RowsOK(jobs) /\ call \in [Schedulers -> Call] /\ jobs' = Reconciled(a)
  BY DEF IInv, TypeOK, ReconcileBeforeAdmit
<1>2. /\ KeptTable(jobs, jobs')
      /\ \A j \in JobIds : Running(jobs'[j]) => jobs'[j].left > -a
  BY <1>1, ReconciledKept
<1>3. booted /\ booted' = booted
  BY DEF IInv, CallOK, ReconcileBeforeAdmit, Idle
<1>4. call[c] \in Call /\ call[c].step = "reconcile"
  BY <1>1 DEF ReconcileBeforeAdmit
<1> DEFINE q == [call[c] EXCEPT !.step = "admit", !.age = a]
<1>5. q \in Call /\ q.step = "admit" /\ q.age = a /\ q # Idle /\ q.type = call[c].type
  BY <1>4, CallAdmits
<1>6. call' = [call EXCEPT ![c] = q]
  BY DEF ReconcileBeforeAdmit
<1> HIDE DEF q
<1>7. /\ call' \in [Schedulers -> Call] /\ call'[c] = q
      /\ \A b \in Schedulers \ {c} : call'[b] = call[b]
  BY <1>1, <1>5, <1>6
<1>8. RowsOK(jobs') /\ Unique(jobs') /\ Single(jobs')
  BY <1>2, <1>3, KeptTableOK DEF IInv, KeptTable
<1>9. TypeOK'
  BY <1>3, <1>7, <1>8 DEF IInv, TypeOK, RowsOK
<1>10. CallOK'
  BY <1>3, <1>4, <1>5, <1>7 DEF IInv, CallOK
<1>11. AdmissionLeasesLive'
  <2> SUFFICES ASSUME NEW b \in Schedulers, call'[b].step = "admit",
                      NEW j \in JobIds, Running(jobs'[j])
               PROVE  jobs'[j].left > -call'[b].age
    BY DEF AdmissionLeasesLive
  <2>1. CASE b = c
    BY <1>2, <1>5, <1>7, <2>1
  <2>2. CASE b # c
    <3>1. call'[b] = call[b] /\ call[b] \in Call
      BY <1>1, <1>7, <2>2
    <3>2. call[b].age \in Ages
      BY <3>1, AdmitType
    <3>3. jobs'[j].left \in Int
      BY <1>8 DEF RowsOK, JobRow
    <3>4. CASE jobs'[j].left > 0
      BY <3>1, <3>2, <3>3, <3>4, TimeAssumption DEF Ages
    <3>5. CASE Running(jobs[j]) /\ jobs'[j].left = jobs[j].left
      BY <3>1, <3>5 DEF IInv, AdmissionLeasesLive
    <3> QED
      BY <1>2, <3>4, <3>5 DEF KeptTable, Timed
  <2> QED
    BY <2>1, <2>2
<1> QED
  BY <1>3, <1>8, <1>9, <1>10, <1>11 DEF IInv

\* A call that ends.
LEMMA CallEnds ==
    ASSUME IInv, NEW c \in Schedulers, call[c] # Idle, booted' = booted,
           call' = [call EXCEPT ![c] = Idle]
    PROVE  /\ booted /\ call[c] \in Call
           /\ call' \in [Schedulers -> Call]
           /\ \A b \in Schedulers : call'[b] = call[b] \/ call'[b] = Idle
  BY CallType DEF IInv, TypeOK, CallOK

LEMMA AdmitJoinStep ==
    ASSUME IInv, NEW c \in Schedulers, AdmitJoin(c)
    PROVE  IInv'
<1> DEFINE q == call[c]
<1>1. /\ q.step = "admit" /\ call' = [call EXCEPT ![c] = Idle]
      /\ booted' = booted /\ q # Idle
  BY DEF AdmitJoin, Idle
<1>2. q \in Call /\ booted
  BY <1>1, CallEnds
<1>3. PICK e \in Existing(q.scope, q.type, q.age) :
        jobs' = Cancelled(
              [jobs EXCEPT ![e] =
                 IF q.demand.expedite THEN Expedited(jobs[e], q) ELSE jobs[e]],
              Rows(q.scope, q.type) \ {e})
  BY DEF AdmitJoin
<1> DEFINE row == IF q.demand.expedite THEN Expedited(jobs[e], q) ELSE jobs[e]
           mid == [jobs EXCEPT ![e] = row]
<1>4. e \in JobIds
  BY DEF Existing, Rows
<1>5. RowsOK(jobs) /\ jobs[e] \in JobRow /\ RowOK(jobs[e])
  BY <1>4 DEF IInv, RowsOK
<1>6. Kept(jobs[e], row) /\ Timed(jobs[e], row)
  BY <1>1, <1>2, <1>5, KeptExpedited, KeptSelf
<1> HIDE DEF row
<1>7. KeptTable(jobs, mid)
  BY <1>4, <1>5, <1>6, KeptExcept
<1>8. RowsOK(mid)
  BY <1>5, <1>7, KeptTableOK DEF KeptTable
<1>9. jobs' = Cancelled(mid, Rows(q.scope, q.type) \ {e})
  BY <1>3 DEF row
<1> HIDE DEF mid
<1>10. KeptTable(jobs, jobs')
  BY <1>7, <1>8, <1>9, CancelledKept, KeptTableTrans
<1> QED
  BY <1>1, <1>2, <1>10, CallEnds, KeptStep

\* Nothing of the account and type is waiting or leased when a row is
\* inserted: what was waiting has been cancelled, and a job that were running
\* would have been found, as its lease is live.
LEMMA AdmitNewStep ==
    ASSUME IInv, NEW c \in Schedulers, AdmitNew(c)
    PROVE  IInv'
<1> DEFINE q == call[c]
           js == Rows(q.scope, q.type)
           rows == Cancelled(jobs, js)
           salted == \E j \in js : HasKey(jobs[j], q.scope, q.type, q.gen)
<1>1. /\ q.step = "admit" /\ call' = [call EXCEPT ![c] = Idle]
      /\ booted' = booted /\ q # Idle
  BY DEF AdmitNew, Idle
<1>2. q \in Call /\ booted
  BY <1>1, CallEnds
<1>3. /\ q.scope \in Scopes /\ q.type \in Types /\ q.gen \in Gens
      /\ q.payload \in Payloads /\ q.demand \in Demand /\ q.age \in Ages
      /\ salted \in BOOLEAN
  BY <1>1, <1>2, AdmitType
<1>4. RowsOK(jobs) /\ Unique(jobs) /\ Single(jobs)
  BY <1>2 DEF IInv
<1>5. KeptTable(jobs, rows)
  BY <1>4, CancelledKept
<1>6. RowsOK(rows) /\ Unique(rows) /\ Single(rows)
  BY <1>4, <1>5, KeptTableOK DEF KeptTable
<1>7. Insert(rows, q.scope, q.type, q.gen, salted, q.payload, q.demand, q.age)
  BY DEF AdmitNew
<1>8. \A j \in js : ~Running(jobs[j])
  <2>1. \/ Existing(q.scope, q.type, q.age) = {}
        \/ \E e \in Existing(q.scope, q.type, q.age) : ~Joins(jobs[e], q)
    BY DEF AdmitNew
  <2>2. \A e \in Existing(q.scope, q.type, q.age) :
           ~Joins(jobs[e], q) => ~Running(jobs[e])
    BY DEF Joins
  <2>3. SUFFICES ASSUME NEW j \in js, Running(jobs[j])
                 PROVE  FALSE
    OBVIOUS
  <2>4. j \in JobIds /\ Live(jobs[j], q.age)
    BY <1>1, <2>3 DEF Rows, Live, IInv, AdmissionLeasesLive
  <2>5. /\ j \in Existing(q.scope, q.type, q.age)
        /\ \A e \in Existing(q.scope, q.type, q.age) : Running(jobs[e])
    BY <2>3, <2>4 DEF Existing
  <2> QED
    BY <2>1, <2>2, <2>5
<1>9. \A i \in JobIds :
        ~(Actionable(rows[i]) /\ Of(rows[i], q.scope, q.type))
  <2> SUFFICES ASSUME NEW i \in JobIds, Actionable(rows[i]),
                      Of(rows[i], q.scope, q.type)
               PROVE  FALSE
    OBVIOUS
  <2>1. /\ Kept(jobs[i], rows[i])
        /\ jobs[i] \in JobRow
    BY <1>4, <1>5 DEF KeptTable, RowsOK
  <2>2. i \in js /\ Actionable(jobs[i])
    BY <2>1 DEF Kept, Of, Rows
  <2>3. Waiting(jobs[i])
    BY <1>8, <2>2 DEF Actionable
  <2>4. rows[i] = Closed(jobs[i], "cancelled")
    BY <2>2, <2>3 DEF Cancelled
  <2>5. rows[i].status = "cancelled"
    BY <2>1, <2>4, ClosedRow DEF Statuses
  <2> QED
    BY <2>5 DEF Actionable, Waiting, Running
<1>10. salted \/ \A i \in JobIds : ~HasKey(rows[i], q.scope, q.type, q.gen)
  <2> SUFFICES ASSUME NEW i \in JobIds, HasKey(rows[i], q.scope, q.type, q.gen)
               PROVE  salted
    OBVIOUS
  <2>1. Kept(jobs[i], rows[i])
    BY <1>5 DEF KeptTable
  <2> QED
    BY <2>1 DEF Kept, HasKey, Of, Rows
<1>11. \A i \in JobIds : Running(rows[i]) => rows[i] = jobs[i]
  <2> SUFFICES ASSUME NEW i \in JobIds, rows[i] # jobs[i]
               PROVE  ~Running(rows[i])
    OBVIOUS
  <2>1. rows[i] = Closed(jobs[i], "cancelled")
    BY DEF Cancelled
  <2>2. rows[i].status = "cancelled"
    BY <1>4, <2>1, ClosedRow DEF Statuses, RowsOK
  <2> QED
    BY <2>2 DEF Running
<1> HIDE DEF rows, salted, js
<1>12. /\ RowsOK(jobs') /\ Unique(jobs') /\ Single(jobs')
       /\ \A i \in JobIds : Running(jobs'[i]) => jobs'[i] = rows[i]
  BY <1>3, <1>6, <1>7, <1>9, <1>10, InsertOK
<1> QED
  BY <1>1, <1>2, <1>11, <1>12, CallEnds, InsertStep

-----------------------------------------------------------------------------
(* Time, startup, reset. *)

LEMMA TickStep ==
    ASSUME IInv, Tick
    PROVE  IInv'
<1>1. /\ RowsOK(jobs) /\ jobs' = [j \in JobIds |-> Aged(jobs[j])]
      /\ booted' = booted
      /\ \A c \in Schedulers : call[c] \in Call
      /\ call' = [c \in Schedulers |->
           IF call[c].step = "admit" THEN [call[c] EXCEPT !.age = @ + 1]
           ELSE call[c]]
  BY DEF IInv, TypeOK, Tick
<1>2. ASSUME NEW j \in JobIds
      PROVE  /\ jobs'[j] = Aged(jobs[j]) /\ Kept(jobs[j], jobs'[j])
             /\ jobs'[j].status = jobs[j].status
             /\ jobs[j].left \in Int
             /\ Running(jobs[j]) =>
                  jobs'[j].left = Greater(jobs[j].left - 1, -Skew)
  <2>1. jobs[j] \in JobRow /\ RowOK(jobs[j]) /\ jobs'[j] = Aged(jobs[j])
    BY <1>1 DEF RowsOK
  <2> QED
    BY <2>1, KeptAged DEF JobRow
<1>3. jobs' \in [JobIds -> JobRow]
  BY <1>1, <1>2 DEF Kept
<1>4. RowsOK(jobs') /\ Unique(jobs') /\ (Single(jobs) => Single(jobs'))
  BY <1>2, <1>3, KeptTableOK DEF IInv
<1>5. ASSUME NEW c \in Schedulers
      PROVE  /\ call'[c] \in Call /\ call'[c].step = call[c].step
             /\ IF call[c].step = "admit"
                THEN /\ call'[c].age = call[c].age + 1
                     /\ call'[c].type = call[c].type
                     /\ call[c].age \in Ages /\ call[c].age < Skew
                     /\ call[c] # Idle
                ELSE call'[c] = call[c]
  <2>1. CASE call[c].step = "admit"
    <3>1. call[c].age \in Ages /\ call[c].age < Skew /\ call[c] # Idle
      BY <1>1, <2>1, AdmitType DEF Tick, Idle
    <3>2. call[c].age + 1 \in Ages
      BY <3>1, TimeAssumption DEF Ages
    <3>3. call'[c] = [call[c] EXCEPT !.age = call[c].age + 1]
      BY <1>1, <2>1
    <3> QED
      BY <1>1, <2>1, <3>1, <3>2, <3>3, CallAges
  <2>2. CASE call[c].step # "admit"
    BY <1>1, <2>2
  <2> QED
    BY <2>1, <2>2
<1>6. call' \in [Schedulers -> Call]
  BY <1>1, <1>5
<1>7. TypeOK'
  BY <1>1, <1>4, <1>6 DEF IInv, TypeOK, RowsOK
<1>8. CallOK'
  BY <1>1, <1>5 DEF IInv, CallOK
<1>9. AdmissionLeasesLive'
  <2> SUFFICES ASSUME NEW c \in Schedulers, call'[c].step = "admit",
                      NEW j \in JobIds, Running(jobs'[j])
               PROVE  jobs'[j].left > -call'[c].age
    BY DEF AdmissionLeasesLive
  <2>1. /\ call[c].step = "admit" /\ call'[c].age = call[c].age + 1
        /\ call[c].age \in Ages
    BY <1>5
  <2>2. Running(jobs[j])
    BY <1>2 DEF Running
  <2>3. jobs[j].left > -call[c].age
    BY <2>1, <2>2 DEF IInv, AdmissionLeasesLive
  <2>4. jobs'[j].left = Greater(jobs[j].left - 1, -Skew)
    BY <1>2, <2>2
  <2> QED
    BY <1>2, <2>1, <2>3, <2>4, TimeAssumption DEF Ages, Greater
<1>10. CASE booted
  BY <1>1, <1>4, <1>7, <1>8, <1>9, <1>10 DEF IInv
<1>11. CASE ~booted
  <2>1. \A j \in JobIds :
          /\ Running(jobs'[j]) <=> Running(jobs[j])
          /\ LegacyCompose(jobs'[j]) <=> LegacyCompose(jobs[j])
          /\ Actionable(jobs'[j]) <=> Actionable(jobs[j])
          /\ jobs'[j].scope = jobs[j].scope /\ jobs'[j].type = jobs[j].type
    BY <1>2 DEF Kept, Running, Waiting, Actionable, LegacyCompose
  <2>2. LegacyTable
    BY <1>11 DEF IInv
  <2>3. LegacyTable'
    BY <2>1, <2>2 DEF LegacyTable, SameSingleton
  <2> QED
    BY <1>1, <1>4, <1>7, <1>8, <1>9, <1>11, <2>3 DEF IInv
<1> QED
  BY <1>10, <1>11

\* Startup leaves one actionable row of each piece of exclusive work.
LEMMA ReconcileQueueStep ==
    ASSUME IInv, ReconcileQueue
    PROVE  IInv'
<1>1. PICK keep \in SUBSET JobIds :
        /\ KeepsOne(keep)
        /\ jobs' = [j \in JobIds |->
             IF \/ LegacyCompose(jobs[j])
                \/ Deduplicated(jobs[j]) /\ j \notin keep
             THEN Closed(jobs[j], "cancelled")
             ELSE ComposeFirst(jobs[j])]
  BY DEF ReconcileQueue
<1>2. RowsOK(jobs) /\ booted' /\ booted' \in BOOLEAN /\ call' = call
  BY DEF IInv, ReconcileQueue
<1> DEFINE gone(j) == \/ LegacyCompose(jobs[j])
                      \/ Deduplicated(jobs[j]) /\ j \notin keep
<1>3. ASSUME NEW j \in JobIds
      PROVE  /\ Kept(jobs[j], jobs'[j]) /\ Timed(jobs[j], jobs'[j])
             /\ gone(j) => ~Actionable(jobs'[j])
  <2>1. jobs[j] \in JobRow /\ RowOK(jobs[j])
    BY <1>2 DEF RowsOK
  <2>2. CASE gone(j)
    <3>1. Exists(jobs[j])
      BY <2>2 DEF LegacyCompose, Deduplicated, Waiting, Exists
    <3>2. jobs'[j] = Closed(jobs[j], "cancelled")
      BY <1>1, <2>2
    <3>3. jobs'[j].status = "cancelled"
      BY <2>1, <3>2, ClosedRow DEF Statuses
    <3>4. ~Actionable(jobs'[j])
      BY <3>3 DEF Actionable, Waiting, Running
    <3> QED
      BY <2>1, <3>1, <3>2, <3>4, KeptClosed
  <2>3. CASE ~gone(j)
    <3>1. jobs'[j] = ComposeFirst(jobs[j])
      BY <1>1, <2>3
    <3> HIDE DEF gone
    <3> QED
      BY <2>1, <2>3, <3>1, KeptComposeFirst
  <2> QED
    BY <2>2, <2>3
<1>4. jobs' \in [JobIds -> JobRow]
  BY <1>1, <1>3 DEF Kept
<1>5. /\ RowsOK(jobs') /\ Unique(jobs')
      /\ Single(jobs) => Single(jobs')
  BY <1>2, <1>3, <1>4, KeptTableOK DEF IInv
<1>6. TypeOK' /\ CallOK'
  BY <1>2, <1>4 DEF IInv, TypeOK, CallOK
<1>7. AdmissionLeasesLive'
  <2> SUFFICES ASSUME NEW c \in Schedulers, call[c].step = "admit",
                      NEW j \in JobIds, Running(jobs'[j])
               PROVE  jobs'[j].left > -call[c].age
    BY <1>2 DEF AdmissionLeasesLive
  <2>1. call[c].age \in Ages
    BY AdmitType DEF IInv, TypeOK
  <2>2. jobs'[j].left \in Int
    BY <1>4 DEF JobRow
  <2>3. CASE jobs'[j].left > 0
    BY <2>1, <2>2, <2>3, TimeAssumption DEF Ages
  <2>4. CASE Running(jobs[j]) /\ jobs'[j].left = jobs[j].left
    BY <2>4 DEF IInv, AdmissionLeasesLive
  <2> QED
    BY <1>3, <2>3, <2>4 DEF Timed
<1>8. Single(jobs')
  <2>1. CASE booted
    BY <1>5, <2>1 DEF IInv
  <2>2. CASE ~booted
    <3> SUFFICES ASSUME NEW i \in JobIds, NEW j \in JobIds, i # j,
                        SameSingleton(jobs'[i], jobs'[j])
                 PROVE  FALSE
      BY DEF Single
    <3>1. /\ SameSingleton(jobs[i], jobs[j]) /\ SameSingleton(jobs[j], jobs[i])
          /\ ~gone(i) /\ ~gone(j)
      BY <1>3 DEF SameSingleton, Kept
    <3>2. /\ jobs[i].type \in RefreshTypes /\ jobs[j].type \in RefreshTypes
          /\ ~(Running(jobs[i]) /\ Running(jobs[j]))
      BY <2>2, <3>1 DEF IInv, LegacyTable, SameSingleton
    <3>3. /\ Waiting(jobs[i]) => i \in keep
          /\ Waiting(jobs[j]) => j \in keep
      BY <3>1, <3>2 DEF Deduplicated, Nameless, RefreshTypes
    <3>4. SameWork(jobs[i], jobs[j]) /\ SameWork(jobs[j], jobs[i])
      BY <3>1, <3>2 DEF SameWork, SameSingleton, RefreshTypes
    <3>5. /\ Actionable(jobs[i]) /\ Actionable(jobs[j])
      BY <3>1 DEF SameSingleton
    <3>6. \A k \in keep, l \in JobIds :
             l # k /\ Actionable(jobs[l]) /\ SameWork(jobs[l], jobs[k]) =>
               Waiting(jobs[l]) /\ l \notin keep
      BY <1>1 DEF KeepsOne, KeepsAtMostOne
    <3> QED
      BY <3>2, <3>3, <3>4, <3>5, <3>6 DEF Actionable
  <2> QED
    BY <2>1, <2>2
<1> QED
  BY <1>2, <1>5, <1>6, <1>7, <1>8 DEF IInv

LEMMA DeleteScopeStep ==
    ASSUME IInv, NEW s \in Scopes, DeleteScope(s)
    PROVE  IInv'
<1>1. RowsOK(jobs) /\ booted /\ booted' = booted /\ call' = call
      /\ call \in [Schedulers -> Call]
  BY DEF IInv, TypeOK, DeleteScope
<1>2. jobs' = [j \in JobIds |->
         IF Exists(jobs[j]) /\ jobs[j].scope = s
         THEN Closed(jobs[j], "deleted") ELSE jobs[j]]
  BY DEF DeleteScope
<1>3. ASSUME NEW j \in JobIds
      PROVE  Kept(jobs[j], jobs'[j]) /\ Timed(jobs[j], jobs'[j])
  BY <1>1, <1>2, KeptClosed, KeptSelf DEF RowsOK
<1>4. jobs' \in [JobIds -> JobRow]
  BY <1>2, <1>3 DEF Kept
<1> QED
  BY <1>1, <1>3, <1>4, KeptStep DEF KeptTable

LEMMA RequestStep ==
    ASSUME IInv, NEW c \in Schedulers, NEW s \in Scopes,
           NEW t \in Types \ {"interaction"}, NEW g \in Gens,
           NEW p \in Payloads, NEW d \in Demand,
           \/ RequestCoalesced(c, s, t, g, p, d)
           \/ RequestSingleton(c, s, t, g, p, d)
    PROVE  IInv'
<1> DEFINE st == IF t \in SingletonTypes THEN "reconcile" ELSE "insert"
           q == Request(st, s, t, g, p, d)
<1>1. booted /\ booted' = booted /\ jobs' = jobs
      /\ call' = [call EXCEPT ![c] = q]
  BY DEF RequestCoalesced, RequestSingleton
<1>2. /\ q \in Call /\ q.step # "admit"
      /\ q.step = "insert" => q.type \notin SingletonTypes
      /\ q.step = "reconcile" => q.type \in SingletonTypes
  <2>1. st \in {"insert", "reconcile"}
    OBVIOUS
  <2>2. q.step = st /\ q.type = t
    BY DEF Request
  <2>3. q \in Call
    <3> HIDE DEF st
    <3> QED
      BY <2>1, CallType
  <2> QED
    BY <2>2, <2>3
<1> HIDE DEF q
<1>3. /\ call' \in [Schedulers -> Call] /\ call'[c] = q
      /\ \A b \in Schedulers \ {c} : call'[b] = call[b]
  BY <1>1, <1>2 DEF IInv, TypeOK
<1>4. TypeOK' /\ CallOK'
  BY <1>1, <1>2, <1>3 DEF IInv, TypeOK, CallOK
<1>5. AdmissionLeasesLive'
  BY <1>1, <1>2, <1>3 DEF IInv, AdmissionLeasesLive
<1> QED
  BY <1>1, <1>4, <1>5 DEF IInv

LEMMA AdmissionStep ==
    ASSUME IInv, Admission
    PROVE  IInv'
<1>1. ASSUME NEW s \in Scopes, NEW g \in Gens, NEW p \in Payloads,
             NEW a \in Ages, EnqueueInteraction(s, g, p, a)
      PROVE  IInv'
  <2>1. PICK d \in Demands["interaction"] : Enqueue(s, "interaction", g, p, d, a)
    BY <1>1 DEF EnqueueInteraction
  <2>2. /\ "interaction" \in Types \ SingletonTypes /\ d \in Demand
        /\ booted /\ booted' = booted /\ call' = call
    BY <1>1, DemandAssumption DEF EnqueueInteraction, SingletonTypes
  <2> QED
    BY <2>1, <2>2, EnqueueStep DEF IInv, TypeOK
<1>2. ASSUME NEW c \in Schedulers, NEW s \in Scopes, NEW g \in Gens,
             NEW t \in Types \ {"interaction"}, NEW p \in Payloads,
             NEW d \in Demands[t],
             \/ RequestCoalesced(c, s, t, g, p, d)
             \/ RequestSingleton(c, s, t, g, p, d)
      PROVE  IInv'
  BY <1>2, DemandAssumption, RequestStep
<1>3. ASSUME NEW c \in Schedulers, NEW a \in Ages, InsertCoalesced(c, a)
      PROVE  IInv'
  <2> DEFINE q == call[c]
  <2>1. /\ q.step = "insert" /\ call' = [call EXCEPT ![c] = Idle]
        /\ booted' = booted /\ q # Idle
        /\ Enqueue(q.scope, q.type, q.gen, q.payload, q.demand, a)
    BY <1>3 DEF InsertCoalesced, Idle
  <2>2. q \in Call /\ q.type \notin SingletonTypes
    BY <2>1 DEF IInv, TypeOK, CallOK
  <2>3. /\ q.scope \in Scopes /\ q.type \in Types \ SingletonTypes
        /\ q.gen \in Gens /\ q.payload \in Payloads /\ q.demand \in Demand
    BY <2>1, <2>2 DEF Call, Idle
  <2>4. /\ booted /\ call' \in [Schedulers -> Call]
        /\ \A b \in Schedulers : call'[b] = call[b] \/ call'[b] = Idle
    BY <2>1, CallEnds
  <2> HIDE DEF q
  <2> QED
    BY <2>1, <2>3, <2>4, EnqueueStep
<1>4. ASSUME NEW c \in Schedulers, Abandon(c)
      PROVE  IInv'
  <2>1. /\ call[c] # Idle /\ call' = [call EXCEPT ![c] = Idle]
        /\ jobs' = jobs /\ booted' = booted
    BY <1>4 DEF Abandon
  <2> QED
    BY <2>1, CallEnds, KeptTableSelf, KeptStep DEF IInv
<1> QED
  BY <1>1, <1>2, <1>3, <1>4, ReconcileBeforeAdmitStep, AdmitJoinStep,
     AdmitNewStep DEF Admission

LEMMA Inductive == IInv /\ [Next]_vars => IInv'
<1> SUFFICES ASSUME IInv, [Next]_vars PROVE IInv'
  OBVIOUS
<1>1. CASE ReconcileQueue
  BY <1>1, ReconcileQueueStep
<1>2. CASE Admission
  BY <1>2, AdmissionStep
<1>3. CASE Leasing
  BY <1>3, LeasingStep
<1>4. ASSUME NEW s \in Scopes, DeleteScope(s)
      PROVE  IInv'
  BY <1>4, DeleteScopeStep
<1>5. CASE Tick
  BY <1>5, TickStep
<1>6. CASE UNCHANGED vars
  <2>1. jobs' = jobs /\ call' = call /\ booted' = booted
    BY <1>6 DEF vars
  <2> QED
    BY <2>1 DEF IInv, TypeOK, RowsOK, Unique, CallOK, AdmissionLeasesLive,
                Single, LegacyTable, SameKey, SameSingleton
<1> QED
  BY <1>1, <1>2, <1>3, <1>4, <1>5, <1>6 DEF Next

-----------------------------------------------------------------------------
(* What a step may never do to a row that is finished, or leased. *)

Respects(r, q) ==
    /\ Terminal(r) => q = r \/ q.status = "deleted"
    /\ Running(r) /\ Running(q) =>
         IF q.token = r.token
         THEN q.payload = r.payload /\ q.attempts = r.attempts /\ q.max = r.max
         ELSE \E a \in Ages : Expired(r, a)

LEMMA RespectsSelf == \A r : Respects(r, r)
  BY DEF Respects

\* A row that waits may change in any way ...
LEMMA RespectsFree ==
    ASSUME NEW r, ~Terminal(r), ~Running(r), NEW q
    PROVE  Respects(r, q)
  BY DEF Respects

\* ... and one that is leased may be closed or put back.
LEMMA RespectsEnded ==
    ASSUME NEW r, Actionable(r), NEW q, ~Running(q)
    PROVE  Respects(r, q)
  BY DEF Respects, Actionable, Waiting, Running, Terminal

LEMMA WaitingFree ==
    ASSUME NEW r, Waiting(r) \/ r.status = "absent"
    PROVE  ~Terminal(r) /\ ~Running(r)
  BY DEF Waiting, Terminal, Running

LEMMA RespectsExpedited ==
    ASSUME NEW r \in JobRow, Actionable(r), NEW q \in Call, q.step = "admit"
    PROVE  Respects(r, Expedited(r, q))
<1>1. CASE ~Running(r)
  BY <1>1, WaitingFree, RespectsFree DEF Actionable
<1>2. CASE Running(r)
  <2>1. ~Terminal(r) /\ Expedited(r, q).attempts = r.attempts
        /\ Expedited(r, q).token = r.token
    BY <1>2, ExpeditedRow DEF Running, Terminal
  <2>2. Expedited(r, q).max = r.max /\ Expedited(r, q).payload = r.payload
    BY <1>2, SMT DEF Expedited, JobRow
  <2> QED
    BY <2>1, <2>2 DEF Respects
<1> QED
  BY <1>1, <1>2

LEMMA RespectsComposeFirst ==
    ASSUME NEW r \in JobRow
    PROVE  Respects(r, ComposeFirst(r))
<1>1. CASE Actionable(r)
  <2>1. ~Terminal(r)
    BY <1>1 DEF Actionable, Waiting, Running, Terminal
  <2>2. ComposeFirst(r).payload = r.payload
    BY SMT DEF ComposeFirst, JobRow
  <2> QED
    BY <2>1, <2>2, ComposeFirstRow DEF Respects
<1>2. CASE ~Actionable(r)
  BY <1>2, RespectsSelf DEF ComposeFirst
<1> QED
  BY <1>1, <1>2

LEMMA RespectsRenewed ==
    ASSUME NEW r \in JobRow, Running(r), NEW a \in Ages
    PROVE  Respects(r, [r EXCEPT !.left = Lease - a])
<1> DEFINE q == [r EXCEPT !.left = Lease - a]
<1>1. /\ q.token = r.token /\ q.payload = r.payload
      /\ q.attempts = r.attempts /\ q.max = r.max
  BY SMT DEF JobRow
<1>2. ~Terminal(r)
  BY DEF Running, Terminal
<1> QED
  BY <1>1, <1>2 DEF Respects

LEMMA RespectsAged ==
    ASSUME NEW r \in JobRow
    PROVE  Respects(r, Aged(r))
<1>1. Aged(r).payload = r.payload
  BY SMT DEF Aged, JobRow
<1>2. CASE Actionable(r)
  BY <1>1, <1>2, AgedRow DEF Respects, Actionable, Waiting, Running, Terminal
<1>3. CASE ~Actionable(r)
  <2>1. Aged(r) = [r EXCEPT !.due = r.due, !.left = r.left]
    BY <1>3 DEF Aged, Actionable
  <2>2. Aged(r) = r
    BY <2>1 DEF JobRow
  <2> QED
    BY <2>2, RespectsSelf
<1> QED
  BY <1>2, <1>3

\* A new lease of a row that runs means that the old one expired.
LEMMA RespectsLeased ==
    ASSUME NEW r \in JobRow, RowOK(r), NEW a \in Ages, Due(r, a) \/ Expired(r, a)
    PROVE  Respects(r, Leased(r, a))
<1>1. CASE Due(r, a)
  BY <1>1, WaitingFree, RespectsFree DEF Due
<1>2. CASE Expired(r, a)
  <2>1. Running(r) /\ ~Terminal(r) /\ r.token = r.claims /\ r.claims \in Nat
    BY <1>2 DEF Expired, Running, Terminal, RowOK, JobRow
  <2>2. Leased(r, a).token # r.token
    BY <2>1, LeasedRow
  <2> QED
    BY <1>2, <2>1, <2>2 DEF Respects
<1> QED
  BY <1>1, <1>2

RespectsTable(rows, new) == \A j \in JobIds : Respects(rows[j], new[j])

LEMMA ClosedEnds ==
    ASSUME NEW r \in JobRow, NEW st \in {"succeeded", "failed", "cancelled", "deleted"}
    PROVE  ~Running(Closed(r, st)) /\ Closed(r, st).status = st
<1>1. st \in Statuses
  BY DEF Statuses
<1> QED
  BY <1>1, ClosedRow DEF Running

LEMMA FailExhaustedRespects ==
    ASSUME RowsOK(jobs), NEW a \in Ages
    PROVE  RespectsTable(jobs, FailExhausted(a))
<1> SUFFICES ASSUME NEW j \in JobIds PROVE Respects(jobs[j], FailExhausted(a)[j])
  BY DEF RespectsTable
<1>1. jobs[j] \in JobRow
  BY DEF RowsOK
<1>2. CASE Expired(jobs[j], a) /\ jobs[j].attempts >= jobs[j].max
  BY <1>1, <1>2, ClosedEnds, RespectsEnded DEF FailExhausted, Expired, Actionable
<1>3. CASE ~(Expired(jobs[j], a) /\ jobs[j].attempts >= jobs[j].max)
  BY <1>3, RespectsSelf DEF FailExhausted
<1> QED
  BY <1>2, <1>3

LEMMA ReconciledRespects ==
    ASSUME RowsOK(jobs), NEW a \in Ages
    PROVE  RespectsTable(jobs, Reconciled(a))
<1> SUFFICES ASSUME NEW j \in JobIds PROVE Respects(jobs[j], Reconciled(a)[j])
  BY DEF RespectsTable
<1>1. jobs[j] \in JobRow /\ -a \in Int
  BY TimeAssumption DEF RowsOK, Ages
<1>2. CASE ~Expired(jobs[j], a)
  BY <1>2, RespectsSelf DEF Reconciled
<1>3. CASE Expired(jobs[j], a)
  <2>1. Actionable(jobs[j])
    BY <1>3 DEF Expired, Actionable
  <2>2. ~Running(Closed(jobs[j], "failed")) /\ ~Running(Requeued(jobs[j], -a))
    BY <1>1, ClosedEnds, RequeuedRow DEF Running
  <2> QED
    BY <1>3, <2>1, <2>2, RespectsEnded DEF Reconciled
<1> QED
  BY <1>2, <1>3

\* Cancelling concerns rows that wait, in the table before it too.
LEMMA CancelledRespects ==
    ASSUME NEW rows, NEW js, NEW j \in JobIds
    PROVE  /\ Respects(rows[j], Cancelled(rows, js)[j])
           /\ Cancelled(rows, js)[j] = rows[j] \/ Waiting(rows[j])
  BY RespectsSelf, RespectsFree, WaitingFree DEF Cancelled

LEMMA InsertRespects ==
    ASSUME NEW rows \in [JobIds -> JobRow], NEW s, NEW t, NEW g, NEW salted, NEW p, NEW d, NEW a,
           Insert(rows, s, t, g, salted, p, d, a), NEW j \in JobIds
    PROVE  jobs'[j] = rows[j] \/ rows[j].status = "absent"
  BY DEF Insert

LEMMA EnqueueRespects ==
    ASSUME RowsOK(jobs), NEW s, NEW t, NEW g, NEW p, NEW d, NEW a, Enqueue(s, t, g, p, d, a)
    PROVE  RespectsTable(jobs, jobs')
<1>1. \A j \in JobIds : jobs'[j] = jobs[j] \/ jobs[j].status = "absent"
  BY InsertRespects DEF Enqueue, RowsOK
<1> QED
  BY <1>1, RespectsSelf, RespectsFree, WaitingFree DEF RespectsTable

LEMMA AdmitJoinRespects ==
    ASSUME IInv, NEW c \in Schedulers, AdmitJoin(c)
    PROVE  RespectsTable(jobs, jobs')
<1> DEFINE q == call[c]
<1>1. q.step = "admit" /\ q \in Call /\ RowsOK(jobs)
  BY DEF AdmitJoin, IInv, TypeOK
<1>2. PICK e \in Existing(q.scope, q.type, q.age) :
        jobs' = Cancelled(
              [jobs EXCEPT ![e] =
                 IF q.demand.expedite THEN Expedited(jobs[e], q) ELSE jobs[e]],
              Rows(q.scope, q.type) \ {e})
  BY DEF AdmitJoin
<1> DEFINE row == IF q.demand.expedite THEN Expedited(jobs[e], q) ELSE jobs[e]
           mid == [jobs EXCEPT ![e] = row]
<1>3. e \in JobIds /\ jobs[e] \in JobRow /\ Actionable(jobs[e])
  BY <1>1 DEF Existing, Rows, Live, Actionable, RowsOK
<1>4. Respects(jobs[e], row)
  BY <1>1, <1>3, RespectsExpedited, RespectsSelf
<1> HIDE DEF row
<1>5. /\ mid[e] = row /\ \A j \in JobIds \ {e} : mid[j] = jobs[j]
      /\ jobs' = Cancelled(mid, Rows(q.scope, q.type) \ {e})
  BY <1>1, <1>2, <1>3 DEF RowsOK, row
<1> HIDE DEF mid
<1>6. jobs'[e] = mid[e]
  BY <1>3, <1>5 DEF Cancelled
<1>7. ASSUME NEW j \in JobIds \ {e}
      PROVE  Respects(jobs[j], jobs'[j])
  BY <1>5, <1>7, CancelledRespects
<1> QED
  BY <1>4, <1>5, <1>6, <1>7 DEF RespectsTable

LEMMA AdmitNewRespects ==
    ASSUME IInv, NEW c \in Schedulers, AdmitNew(c)
    PROVE  RespectsTable(jobs, jobs')
<1> DEFINE q == call[c]
           js == Rows(q.scope, q.type)
           rows == Cancelled(jobs, js)
           salted == \E j \in js : HasKey(jobs[j], q.scope, q.type, q.gen)
<1>1. Insert(rows, q.scope, q.type, q.gen, salted, q.payload, q.demand, q.age)
  BY DEF AdmitNew
<1>2. rows \in [JobIds -> JobRow]
  BY CancelledKept DEF IInv, KeptTable
<1>3. \A j \in JobIds : rows[j] = jobs[j] \/ Waiting(jobs[j])
  BY CancelledRespects
<1> HIDE DEF rows, salted
<1>4. \A j \in JobIds : jobs'[j] = rows[j] \/ rows[j].status = "absent"
  BY <1>1, <1>2, InsertRespects
<1>5. ASSUME NEW j \in JobIds
      PROVE  Respects(jobs[j], jobs'[j])
  <2>1. jobs'[j] = jobs[j] \/ Waiting(jobs[j]) \/ jobs[j].status = "absent"
    BY <1>3, <1>4
  <2> QED
    BY <2>1, RespectsSelf, RespectsFree, WaitingFree
<1> QED
  BY <1>5 DEF RespectsTable

LEMMA AdmissionRespects ==
    ASSUME IInv, Admission
    PROVE  RespectsTable(jobs, jobs')
<1>1. RowsOK(jobs)
  BY DEF IInv
<1>2. ASSUME jobs' = jobs PROVE RespectsTable(jobs, jobs')
  BY <1>2, RespectsSelf DEF RespectsTable
<1>3. ASSUME NEW s, NEW g, NEW p, NEW a, EnqueueInteraction(s, g, p, a)
      PROVE  RespectsTable(jobs, jobs')
  BY <1>1, <1>3, EnqueueRespects DEF EnqueueInteraction
<1>4. ASSUME NEW c \in Schedulers, NEW a \in Ages, InsertCoalesced(c, a)
      PROVE  RespectsTable(jobs, jobs')
  BY <1>1, <1>4, EnqueueRespects DEF InsertCoalesced
<1>5. ASSUME NEW c \in Schedulers, NEW a \in Ages, ReconcileBeforeAdmit(c, a)
      PROVE  RespectsTable(jobs, jobs')
  BY <1>1, <1>5, ReconciledRespects DEF ReconcileBeforeAdmit
<1> QED
  BY <1>2, <1>3, <1>4, <1>5, AdmitJoinRespects, AdmitNewRespects
  DEF Admission, RequestCoalesced, RequestSingleton, Abandon

LEMMA LeasingRespects ==
    ASSUME IInv, Leasing
    PROVE  RespectsTable(jobs, jobs')
<1>1. RowsOK(jobs) /\ \A j \in JobIds : jobs[j] \in JobRow /\ RowOK(jobs[j])
  BY DEF IInv, RowsOK
<1>2. ASSUME NEW j \in JobIds, NEW q, Respects(jobs[j], q), jobs' = [jobs EXCEPT ![j] = q]
      PROVE  RespectsTable(jobs, jobs')
  BY <1>1, <1>2, RespectsSelf DEF RespectsTable, RowsOK
<1>3. ASSUME NEW L \in Lanes, NEW a \in Ages, ClaimNothing(L, a)
      PROVE  RespectsTable(jobs, jobs')
  BY <1>1, <1>3, FailExhaustedRespects DEF ClaimNothing
<1>4. ASSUME NEW L \in Lanes, NEW a \in Ages, NEW j \in JobIds, Claim(j, L, a)
      PROVE  RespectsTable(jobs, jobs')
  <2> DEFINE rows == FailExhausted(a)
  <2>1. KeptTable(jobs, rows) /\ RespectsTable(jobs, rows)
    BY <1>1, FailExhaustedKept, FailExhaustedRespects
  <2>2. /\ jobs' = [rows EXCEPT ![j] = Leased(rows[j], a)]
        /\ Due(rows[j], a) \/ Expired(rows[j], a)
    BY <1>4 DEF Claim, Claimable
  <2>3. rows[j] = jobs[j] \/ rows[j] = Closed(jobs[j], "failed")
    BY DEF FailExhausted
  <2> HIDE DEF rows
  <2>4. rows[j] = jobs[j]
    <3>1. Closed(jobs[j], "failed").status = "failed"
      BY <1>1, ClosedEnds
    <3> QED
      BY <2>2, <2>3, <3>1 DEF Due, Expired, Waiting, Running
  <2>5. jobs'[j] = Leased(jobs[j], a) /\ \A i \in JobIds \ {j} : jobs'[i] = rows[i]
    BY <2>1, <2>2, <2>4 DEF KeptTable
  <2> QED
    BY <1>1, <2>1, <2>2, <2>4, <2>5, RespectsLeased DEF RespectsTable
<1>5. ASSUME NEW j \in JobIds, NEW k, NEW a \in Ages, Renew(j, k, a)
      PROVE  RespectsTable(jobs, jobs')
  <2>1. /\ Running(jobs[j])
        /\ jobs' = [jobs EXCEPT ![j] = [jobs[j] EXCEPT !.left = Lease - a]]
    BY <1>1, <1>5 DEF Renew, Owns, RowsOK
  <2> QED
    BY <1>1, <1>2, <2>1, RespectsRenewed
<1>6. ASSUME NEW j \in JobIds, NEW k, NEW a \in Ages, RetryAs(j, k, a)
      PROVE  RespectsTable(jobs, jobs')
  <2>1. PICK preserve \in BOOLEAN, p \in Payloads \cup {jobs[j].payload} :
          \E delay \in Delays \cup {RetryDelay(Spent(jobs[j], preserve))} :
             Retry(j, k, delay, preserve, p, a)
    BY <1>6 DEF RetryAs
  <2>2. PICK delay \in Delays \cup {RetryDelay(Spent(jobs[j], preserve))} :
             Retry(j, k, delay, preserve, p, a)
    BY <2>1
  <2> DEFINE u == Returned(jobs[j], preserve, p)
  <2>3. p \in Payloads \cup {"none"} /\ Spent(jobs[j], preserve) \in Nat
    BY <1>1 DEF JobRow, Spent, Greater
  <2>4. u \in JobRow /\ delay - a \in Int
    <3>1. u \in JobRow
      BY <1>1, <2>3, ReturnedRow
    <3>2. delay \in Int /\ a \in Int
      BY <2>2, <2>3, RetryDelayType, DelayAssumption, TimeAssumption DEF Ages
    <3> HIDE DEF u
    <3> QED
      BY <3>1, <3>2
  <2>5. Actionable(jobs[j])
    BY <2>2 DEF Retry, Owns, Actionable
  <2>6. PICK q \in {Closed(u, "failed"), Requeued(u, delay - a)} :
          jobs' = [jobs EXCEPT ![j] = q]
    BY <2>2 DEF Retry
  <2> HIDE DEF u
  <2>7. ~Running(q)
    BY <2>4, <2>6, ClosedEnds, RequeuedRow DEF Running
  <2> QED
    BY <1>2, <2>5, <2>6, <2>7, RespectsEnded
<1>7. ASSUME NEW j \in JobIds, NEW k, NEW st \in {"succeeded", "failed"}, Finish(j, k, st)
      PROVE  RespectsTable(jobs, jobs')
  <2>1. Actionable(jobs[j]) /\ jobs' = [jobs EXCEPT ![j] = Closed(jobs[j], st)]
    BY <1>7 DEF Finish, Owns, Actionable
  <2>2. ~Running(Closed(jobs[j], st))
    BY <1>1, ClosedEnds
  <2> QED
    BY <1>2, <2>1, <2>2, RespectsEnded
<1> QED
  BY <1>3, <1>4, <1>5, <1>6, <1>7 DEF Leasing

LEMMA StepRespects ==
    ASSUME IInv, [Next]_vars
    PROVE  RespectsTable(jobs, jobs')
<1>1. \A j \in JobIds : jobs[j] \in JobRow
  BY DEF IInv, RowsOK
<1>2. CASE ReconcileQueue
  <2>1. \A j \in JobIds : jobs'[j] = ComposeFirst(jobs[j]) \/ Waiting(jobs[j])
    BY <1>2 DEF ReconcileQueue, LegacyCompose, Deduplicated
  <2> QED
    BY <1>1, <2>1, RespectsComposeFirst, RespectsFree, WaitingFree DEF RespectsTable
<1>3. CASE Admission
  BY <1>3, AdmissionRespects
<1>4. CASE Leasing
  BY <1>4, LeasingRespects
<1>5. ASSUME NEW s \in Scopes, DeleteScope(s)
      PROVE  RespectsTable(jobs, jobs')
  <2>1. \A j \in JobIds : jobs'[j] = jobs[j] \/ jobs'[j] = Closed(jobs[j], "deleted")
    BY <1>5 DEF DeleteScope
  <2>2. \A j \in JobIds : jobs'[j] = jobs[j] \/ (~Running(jobs'[j]) /\ jobs'[j].status = "deleted")
    BY <1>1, <2>1, ClosedEnds
  <2> QED
    BY <2>2, RespectsSelf DEF RespectsTable, Respects
<1>6. CASE Tick
  BY <1>1, <1>6, RespectsAged DEF Tick, RespectsTable
<1>7. CASE UNCHANGED vars
  BY <1>7, RespectsSelf DEF vars, RespectsTable
<1> QED
  BY <1>2, <1>3, <1>4, <1>5, <1>6, <1>7 DEF Next

-----------------------------------------------------------------------------
(* Cancelled work survives. *)

\* A row that becomes cancelled leaves another for its work.
Survives(j) ==
    /\ jobs[j].status # "cancelled" /\ jobs'[j].status = "cancelled"
    /\ ~LegacyCompose(jobs[j])
    => \E i \in JobIds : Actionable(jobs'[i]) /\ SameWork(jobs'[i], jobs[j])

Uncancelled(r, q) == q.status = "cancelled" => r.status = "cancelled"

LEMMA UncancelledSurvive ==
    ASSUME \A j \in JobIds : Uncancelled(jobs[j], jobs'[j])
    PROVE  \A j \in JobIds : Survives(j)
  BY DEF Uncancelled, Survives

\* Only admission and startup cancel.
LEMMA InsertedUncancelled ==
    ASSUME NEW rows \in [JobIds -> JobRow], NEW s \in Scopes, NEW t \in Types, NEW g \in Gens,
           NEW salted \in BOOLEAN, NEW p \in Payloads, NEW d \in Demand, NEW a \in Ages,
           Insert(rows, s, t, g, salted, p, d, a)
    PROVE  /\ \A j \in JobIds : Uncancelled(rows[j], jobs'[j])
           /\ \E j \in JobIds : /\ Actionable(jobs'[j])
                                /\ jobs'[j].scope = s /\ jobs'[j].type = t
<1> DEFINE new(j) == NewRow(s, t, g, IF salted THEN j ELSE 0, p, d, a)
<1>1. PICK j \in JobIds : /\ rows[j].status = "absent"
                          /\ jobs' = [rows EXCEPT ![j] = new(j)]
  BY DEF Insert
<1>2. new(j).status = "pending" /\ new(j).scope = s /\ new(j).type = t
  BY DEF NewRow
<1> HIDE DEF new
<1>3. jobs'[j] = new(j) /\ \A i \in JobIds \ {j} : jobs'[i] = rows[i]
  BY <1>1
<1> QED
  BY <1>2, <1>3 DEF Uncancelled, Actionable, Waiting

LEMMA EnqueueUncancelled ==
    ASSUME RowsOK(jobs), NEW s \in Scopes, NEW t \in Types, NEW g \in Gens,
           NEW p \in Payloads, NEW d \in Demand, NEW a \in Ages, Enqueue(s, t, g, p, d, a)
    PROVE  \A j \in JobIds : Uncancelled(jobs[j], jobs'[j])
<1>1. CASE jobs' = jobs
  BY <1>1 DEF Uncancelled
<1>2. CASE jobs' # jobs
  <2>1. Insert(jobs, s, t, g, FALSE, p, d, a) /\ jobs \in [JobIds -> JobRow]
    BY <1>2 DEF Enqueue, RowsOK
  <2> QED
    BY <2>1, InsertedUncancelled
<1> QED
  BY <1>1, <1>2

\* The work of an exclusive type is its account and type.
LEMMA SingletonWork ==
    ASSUME NEW r, NEW q, q.type \in SingletonTypes, r.scope = q.scope, r.type = q.type
    PROVE  SameWork(r, q)
  BY DEF SameWork, SingletonTypes

LEMMA AdmitJoinSurvives ==
    ASSUME IInv, NEW c \in Schedulers, AdmitJoin(c), NEW j \in JobIds
    PROVE  Survives(j)
<1> DEFINE q == call[c]
<1>1. q.step = "admit" /\ q \in Call /\ RowsOK(jobs) /\ q.type \in SingletonTypes
  BY DEF AdmitJoin, IInv, TypeOK, CallOK
<1>2. PICK e \in Existing(q.scope, q.type, q.age) :
        jobs' = Cancelled(
              [jobs EXCEPT ![e] =
                 IF q.demand.expedite THEN Expedited(jobs[e], q) ELSE jobs[e]],
              Rows(q.scope, q.type) \ {e})
  BY DEF AdmitJoin
<1> DEFINE row == IF q.demand.expedite THEN Expedited(jobs[e], q) ELSE jobs[e]
           mid == [jobs EXCEPT ![e] = row]
<1>3. /\ e \in JobIds /\ jobs[e] \in JobRow /\ Actionable(jobs[e])
      /\ jobs[e].scope = q.scope /\ jobs[e].type = q.type
  BY <1>1 DEF Existing, Rows, Of, Live, Actionable, RowsOK
<1>4. row.status = jobs[e].status /\ row.scope = q.scope /\ row.type = q.type
  BY <1>1, <1>3, ExpeditedRow
<1> HIDE DEF row
<1>5. /\ mid[e] = row /\ \A i \in JobIds \ {e} : mid[i] = jobs[i]
      /\ jobs' = Cancelled(mid, Rows(q.scope, q.type) \ {e})
  BY <1>1, <1>2, <1>3 DEF RowsOK, row
<1> HIDE DEF mid
<1>6. /\ jobs'[e] = row
      /\ \A i \in JobIds \ {e} :
            jobs'[i] = jobs[i] \/ (jobs[i].scope = q.scope /\ jobs[i].type = q.type)
  BY <1>3, <1>5 DEF Cancelled, Rows, Of
<1>7. Actionable(jobs'[e])
  BY <1>3, <1>4, <1>6 DEF Actionable, Waiting, Running
<1>8. SUFFICES ASSUME jobs'[j].status = "cancelled", jobs[j].status # "cancelled"
               PROVE  SameWork(jobs'[e], jobs[j])
  BY <1>3, <1>7 DEF Survives
<1>9. j # e
  BY <1>7, <1>8 DEF Actionable, Waiting, Running
<1> QED
  BY <1>1, <1>4, <1>6, <1>8, <1>9, SingletonWork

LEMMA AdmitNewSurvives ==
    ASSUME IInv, NEW c \in Schedulers, AdmitNew(c), NEW j \in JobIds
    PROVE  Survives(j)
<1> DEFINE q == call[c]
           js == Rows(q.scope, q.type)
           rows == Cancelled(jobs, js)
           salted == \E i \in js : HasKey(jobs[i], q.scope, q.type, q.gen)
<1>1. q.step = "admit" /\ q \in Call /\ q.type \in SingletonTypes
  BY DEF AdmitNew, IInv, TypeOK, CallOK
<1>2. /\ q.scope \in Scopes /\ q.type \in Types /\ q.gen \in Gens
      /\ q.payload \in Payloads /\ q.demand \in Demand /\ q.age \in Ages
      /\ salted \in BOOLEAN
  BY <1>1, AdmitType
<1>3. Insert(rows, q.scope, q.type, q.gen, salted, q.payload, q.demand, q.age)
  BY DEF AdmitNew
<1>4. rows \in [JobIds -> JobRow]
  BY CancelledKept DEF IInv, KeptTable
<1>5. rows[j] = jobs[j] \/ (jobs[j].scope = q.scope /\ jobs[j].type = q.type)
  BY DEF Cancelled, Rows, Of
<1> HIDE DEF rows, salted, js
<1>6. /\ Uncancelled(rows[j], jobs'[j])
      /\ \E i \in JobIds : /\ Actionable(jobs'[i])
                           /\ jobs'[i].scope = q.scope /\ jobs'[i].type = q.type
  BY <1>2, <1>3, <1>4, InsertedUncancelled
<1>7. CASE rows[j] = jobs[j]
  BY <1>6, <1>7 DEF Uncancelled, Survives
<1>8. CASE jobs[j].scope = q.scope /\ jobs[j].type = q.type
  BY <1>1, <1>6, <1>8, SingletonWork DEF Survives
<1> QED
  BY <1>5, <1>7, <1>8

LEMMA ReconcileQueueSurvives ==
    ASSUME IInv, ReconcileQueue, NEW j \in JobIds
    PROVE  Survives(j)
<1>1. PICK keep \in SUBSET JobIds :
        /\ KeepsOne(keep)
        /\ jobs' = [i \in JobIds |->
             IF \/ LegacyCompose(jobs[i])
                \/ Deduplicated(jobs[i]) /\ i \notin keep
             THEN Closed(jobs[i], "cancelled")
             ELSE ComposeFirst(jobs[i])]
  BY DEF ReconcileQueue
<1>2. \A i \in JobIds : jobs[i] \in JobRow
  BY DEF IInv, RowsOK
<1>3. SUFFICES ASSUME jobs[j].status # "cancelled", jobs'[j].status = "cancelled",
                      ~LegacyCompose(jobs[j])
               PROVE  \E i \in JobIds :
                        Actionable(jobs'[i]) /\ SameWork(jobs'[i], jobs[j])
  BY DEF Survives
<1>4. ComposeFirst(jobs[j]).status # "cancelled"
  BY <1>2, <1>3, ComposeFirstRow
<1>5. Deduplicated(jobs[j])
  BY <1>1, <1>3, <1>4
<1>6. PICK i \in JobIds : /\ Running(jobs[i]) \/ i \in keep
                          /\ SameWork(jobs[i], jobs[j])
  BY <1>1, <1>5 DEF KeepsOne
<1>7. /\ Actionable(jobs[i]) /\ ~LegacyCompose(jobs[i])
      /\ ~(Deduplicated(jobs[i]) /\ i \notin keep)
  <2>1. CASE Running(jobs[i])
    BY <2>1 DEF Actionable, LegacyCompose, Deduplicated, Waiting, Running
  <2>2. CASE i \in keep
    <3>1. Deduplicated(jobs[i])
      BY <1>1, <2>2 DEF KeepsOne, KeepsAtMostOne
    <3>2. jobs[i].type # "compose"
      BY <3>1 DEF Deduplicated, RefreshTypes
    <3> QED
      BY <2>2, <3>1, <3>2 DEF Deduplicated, Actionable, LegacyCompose
  <2> QED
    BY <1>6, <2>1, <2>2
<1>8. jobs'[i] = ComposeFirst(jobs[i])
  BY <1>1, <1>7
<1>9. ComposeFirst(jobs[i]).payload = jobs[i].payload
  <2>1. jobs[i] \in JobRow
    BY <1>2
  <2> QED
    BY <2>1, SMT DEF ComposeFirst, JobRow
<1>10. /\ jobs'[i].status = jobs[i].status /\ jobs'[i].scope = jobs[i].scope
       /\ jobs'[i].type = jobs[i].type
  BY <1>2, <1>8, ComposeFirstRow
<1> QED
  BY <1>6, <1>7, <1>8, <1>9, <1>10 DEF SameWork, Actionable, Waiting, Running

LEMMA LeasingUncancelled ==
    ASSUME IInv, Leasing
    PROVE  \A j \in JobIds : Uncancelled(jobs[j], jobs'[j])
<1>1. RowsOK(jobs) /\ \A j \in JobIds : jobs[j] \in JobRow
  BY DEF IInv, RowsOK
<1>2. ASSUME NEW rows \in [JobIds -> JobRow], NEW j \in JobIds, NEW q, q.status # "cancelled",
             \A i \in JobIds : Uncancelled(jobs[i], rows[i]), jobs' = [rows EXCEPT ![j] = q]
      PROVE  \A i \in JobIds : Uncancelled(jobs[i], jobs'[i])
  <2>1. \A i \in JobIds : jobs'[i] = rows[i] \/ jobs'[i].status # "cancelled"
    BY <1>2
  <2> QED
    BY <1>2, <2>1 DEF Uncancelled
<1>3. ASSUME NEW a \in Ages
      PROVE  /\ \A i \in JobIds : Uncancelled(jobs[i], FailExhausted(a)[i])
             /\ FailExhausted(a) \in [JobIds -> JobRow]
  <2>1. \A i \in JobIds : \/ FailExhausted(a)[i] = jobs[i]
                          \/ FailExhausted(a)[i] = Closed(jobs[i], "failed")
    BY DEF FailExhausted
  <2> QED
    BY <1>1, <2>1, ClosedEnds, FailExhaustedKept DEF Uncancelled, KeptTable
<1>4. ASSUME NEW L \in Lanes, NEW a \in Ages, NEW j \in JobIds, Claim(j, L, a)
      PROVE  \A i \in JobIds : Uncancelled(jobs[i], jobs'[i])
  <2>1. jobs' = [FailExhausted(a) EXCEPT ![j] = Leased(FailExhausted(a)[j], a)]
    BY <1>4 DEF Claim
  <2>2. FailExhausted(a)[j] \in JobRow
    BY <1>3
  <2>3. Leased(FailExhausted(a)[j], a).status # "cancelled"
    BY <2>2, LeasedRow
  <2> QED
    BY <1>2, <1>3, <2>1, <2>3
<1>5. ASSUME NEW j \in JobIds, NEW k, NEW a \in Ages, Renew(j, k, a)
      PROVE  \A i \in JobIds : Uncancelled(jobs[i], jobs'[i])
  <2> DEFINE q == [jobs[j] EXCEPT !.left = Lease - a]
  <2>1. q.status = jobs[j].status /\ jobs[j].status = "running"
    BY <1>1, <1>5, SMT DEF Renew, Owns, Running, JobRow
  <2>2. jobs' = [jobs EXCEPT ![j] = q]
    BY <1>1, <1>5 DEF Renew, RowsOK
  <2> HIDE DEF q
  <2> QED
    BY <1>1, <1>2, <2>1, <2>2 DEF RowsOK, Uncancelled
<1>6. ASSUME NEW j \in JobIds, NEW k, NEW a \in Ages, RetryAs(j, k, a)
      PROVE  \A i \in JobIds : Uncancelled(jobs[i], jobs'[i])
  <2>1. PICK preserve \in BOOLEAN, p \in Payloads \cup {jobs[j].payload} :
          \E delay \in Delays \cup {RetryDelay(Spent(jobs[j], preserve))} :
             Retry(j, k, delay, preserve, p, a)
    BY <1>6 DEF RetryAs
  <2>2. PICK delay \in Delays \cup {RetryDelay(Spent(jobs[j], preserve))} :
             Retry(j, k, delay, preserve, p, a)
    BY <2>1
  <2> DEFINE u == Returned(jobs[j], preserve, p)
  <2>3. PICK q \in {Closed(u, "failed"), Requeued(u, delay - a)} :
          jobs' = [jobs EXCEPT ![j] = q]
    BY <2>2 DEF Retry
  <2>4. p \in Payloads \cup {"none"} /\ Spent(jobs[j], preserve) \in Nat
    BY <1>1 DEF JobRow, Spent, Greater
  <2>5. u \in JobRow
    BY <1>1, <2>4, ReturnedRow
  <2>6. delay \in Int /\ a \in Int
    BY <2>2, <2>4, RetryDelayType, DelayAssumption, TimeAssumption DEF Ages
  <2> HIDE DEF u
  <2>7. delay - a \in Int
    BY <2>6
  <2>8. q.status # "cancelled"
    BY <2>3, <2>5, <2>7, ClosedEnds, RequeuedRow
  <2> QED
    BY <1>1, <1>2, <2>3, <2>8 DEF RowsOK, Uncancelled
<1>7. ASSUME NEW j \in JobIds, NEW k, NEW st \in {"succeeded", "failed"}, Finish(j, k, st)
      PROVE  \A i \in JobIds : Uncancelled(jobs[i], jobs'[i])
  <2>1. jobs' = [jobs EXCEPT ![j] = Closed(jobs[j], st)] /\ Closed(jobs[j], st).status = st
    BY <1>1, <1>7, ClosedEnds DEF Finish
  <2> QED
    BY <1>1, <1>2, <2>1 DEF RowsOK, Uncancelled
<1> QED
  BY <1>3, <1>4, <1>5, <1>6, <1>7 DEF Leasing, ClaimNothing

LEMMA AdmissionSurvives ==
    ASSUME IInv, Admission, NEW j \in JobIds
    PROVE  Survives(j)
<1>1. RowsOK(jobs) /\ \A i \in JobIds : jobs[i] \in JobRow
  BY DEF IInv, RowsOK
<1>2. ASSUME jobs' = jobs PROVE Survives(j)
  BY <1>2 DEF Survives
<1>3. ASSUME NEW s \in Scopes, NEW g \in Gens, NEW p \in Payloads, NEW a \in Ages,
             EnqueueInteraction(s, g, p, a)
      PROVE  Survives(j)
  <2>1. PICK d \in Demands["interaction"] : Enqueue(s, "interaction", g, p, d, a)
    BY <1>3 DEF EnqueueInteraction
  <2>2. "interaction" \in Types /\ d \in Demand
    BY <1>3, DemandAssumption DEF EnqueueInteraction
  <2> QED
    BY <1>1, <2>1, <2>2, EnqueueUncancelled, UncancelledSurvive
<1>4. ASSUME NEW c \in Schedulers, NEW a \in Ages, InsertCoalesced(c, a)
      PROVE  Survives(j)
  <2> DEFINE q == call[c]
  <2>1. /\ q.step = "insert" /\ q \in Call
        /\ Enqueue(q.scope, q.type, q.gen, q.payload, q.demand, a)
    BY <1>4 DEF InsertCoalesced, IInv, TypeOK
  <2>2. /\ q.scope \in Scopes /\ q.type \in Types /\ q.gen \in Gens
        /\ q.payload \in Payloads /\ q.demand \in Demand
    BY <2>1 DEF Call, Idle
  <2> HIDE DEF q
  <2> QED
    BY <1>1, <2>1, <2>2, EnqueueUncancelled, UncancelledSurvive
<1>5. ASSUME NEW c \in Schedulers, NEW a \in Ages, ReconcileBeforeAdmit(c, a)
      PROVE  Survives(j)
  <2>1. -a \in Int
    BY TimeAssumption DEF Ages
  <2>2. \/ jobs'[j] = jobs[j] \/ jobs'[j] = Closed(jobs[j], "failed")
        \/ jobs'[j] = Requeued(jobs[j], -a)
    BY <1>5 DEF ReconcileBeforeAdmit, Reconciled
  <2> QED
    BY <1>1, <2>1, <2>2, ClosedEnds, RequeuedRow DEF Survives
<1> QED
  BY <1>2, <1>3, <1>4, <1>5, AdmitJoinSurvives, AdmitNewSurvives
  DEF Admission, RequestCoalesced, RequestSingleton, Abandon

LEMMA StepSurvives ==
    ASSUME IInv, [Next]_vars, NEW j \in JobIds
    PROVE  Survives(j)
<1>1. jobs[j] \in JobRow
  BY DEF IInv, RowsOK
<1>2. CASE Leasing
  BY <1>2, LeasingUncancelled, UncancelledSurvive
<1>3. ASSUME NEW s \in Scopes, DeleteScope(s)
      PROVE  Survives(j)
  BY <1>1, <1>3, ClosedEnds DEF DeleteScope, Survives
<1>4. CASE Tick
  BY <1>1, <1>4, AgedRow DEF Tick, Survives
<1>5. CASE UNCHANGED vars
  BY <1>5 DEF vars, Survives
<1> QED
  BY <1>2, <1>3, <1>4, <1>5, AdmissionSurvives, ReconcileQueueSurvives DEF Next

-----------------------------------------------------------------------------
(* Theorems. *)

\* The job table keeps its invariant, for any accounts, job types, demands,
\* schedulers and lease that outlasts the oldest timestamp of a transaction.
THEOREM Invariance == Spec => []IInv
  BY Initially, Inductive, PTL DEF Spec

\* Rows and requests stay well formed through every transaction of the
\* repository.
THEOREM TypeCorrect == Spec => []TypeOK
<1>1. IInv => TypeOK
  BY DEF IInv
<1> QED
  BY <1>1, Invariance, PTL

\* Attempts stay within the budget, and for all but repairs they are the
\* leases granted: no job is run more often than its budget says.
THEOREM BudgetsKept == Spec => []BudgetKept
<1>1. IInv => BudgetKept
  BY DEF IInv, BudgetKept, RowsOK, RowOK
<1> QED
  BY <1>1, Invariance, PTL

\* enqueue_singleton keeps one actionable job of a type per account, in any
\* interleaving of its two transactions with claims, renewals, retries,
\* expiry, other schedulers and account resets.
THEOREM AtMostOneActionable == Spec => []SingletonActionable
<1>1. IInv => SingletonActionable
  BY DEF IInv, SingletonActionable, Single
<1> QED
  BY <1>1, Invariance, PTL

\* No insert of the code breaks UNIQUE(scope, type, generation_key): the salt
\* of a colliding generation is enough.
THEOREM KeysUnique == Spec => []KeyUnique
<1>1. IInv => KeyUnique
  BY DEF IInv, KeyUnique, Unique
<1> QED
  BY <1>1, Invariance, PTL

\* A waiting row has an attempt left, so claim_next can take it.
THEOREM WaitingIsClaimable == Spec => []WaitingClaimable
<1>1. IInv => WaitingClaimable
  BY DEF IInv, WaitingClaimable, RowsOK, RowOK
<1> QED
  BY <1>1, Invariance, PTL

\* The timestamp enqueue_singleton carries from its first transaction to its
\* second never makes a running job look abandoned.
THEOREM AdmissionSeesLeases == Spec => []AdmissionLeasesLive
<1>1. IInv => AdmissionLeasesLive
  BY DEF IInv
<1> QED
  BY <1>1, Invariance, PTL

\* No transaction revives, re-leases or rewrites a finished job.
THEOREM FinishedIsFinal == Spec => TerminalFinal
<1>1. IInv /\ [Next]_vars =>
        [\A j \in JobIds : Terminal(jobs[j]) =>
            jobs'[j] = jobs[j] \/ jobs'[j].status = "deleted"]_vars
  BY StepRespects DEF RespectsTable, Respects
<1> QED
  BY <1>1, Invariance, PTL DEF Spec, TerminalFinal

\* A worker's input and budget do not change under its lease, and nobody takes
\* the lease over before it expired.
THEOREM LeaseFixesInput == Spec => LeaseKeepsInput
<1>1. IInv /\ [Next]_vars =>
        [\A j \in JobIds : Running(jobs[j]) /\ Running(jobs'[j]) =>
            IF jobs'[j].token = jobs[j].token
            THEN /\ jobs'[j].payload = jobs[j].payload
                 /\ jobs'[j].attempts = jobs[j].attempts
                 /\ jobs'[j].max = jobs[j].max
            ELSE \E a \in Ages : Expired(jobs[j], a)]_vars
  BY StepRespects DEF RespectsTable, Respects
<1> QED
  BY <1>1, Invariance, PTL DEF Spec, LeaseKeepsInput

\* Whatever admission or startup cancels, a row for the same work remains to
\* be done.
THEOREM CancelledWorkRemains == Spec => CancelledWorkSurvives
<1>1. IInv /\ [Next]_vars =>
        [\A j \in JobIds :
            /\ jobs[j].status # "cancelled" /\ jobs'[j].status = "cancelled"
            /\ ~LegacyCompose(jobs[j])
            => \E i \in JobIds :
                 Actionable(jobs'[i]) /\ SameWork(jobs'[i], jobs[j])]_vars
  BY StepSurvives DEF Survives
<1> QED
  BY <1>1, Invariance, PTL DEF Spec, CancelledWorkSurvives

=============================================================================
