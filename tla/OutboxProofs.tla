---------------------------- MODULE OutboxProofs ----------------------------
(***************************************************************************)
(* Theorems about Outbox: the vouchers, for every number of workers; what  *)
(* the channel manager has heard, for one.                                 *)
(***************************************************************************)
EXTENDS Outbox, FiniteSetTheorems, TLAPS

-----------------------------------------------------------------------------
(***************************************************************************)
(* The inductive invariant.                                                *)
(***************************************************************************)

JobStatus == {"none", "PENDING", "PROCESSING", "FAILED", "SUCCEEDED", "DEAD_LETTER"}
RowType == [status : JobStatus, attempts : 0..MaxAttempts]
Claim == [job : Job, attempts : 0..MaxAttempts]
WorkerType == [at : {"idle", "claimed", "started", "done", "recorded", "failed"},
               batch : SUBSET Claim, on : Job, seen : Nat]

\* Voucher n exists, or n is the version before the first.
Drawn(n) == n = 0 \/ (n \in 1..MaxVouchers /\ voucher[n] # "none")

BookingInv ==
    /\ booking \in [version : 1..MaxVersion,
                    status : {"CONFIRMED", "MODIFIED", "CANCELLED", "NO_SHOW"},
                    sync : {"PENDING", "SYNCED", "RETRY", "DEAD_LETTER"}]
    /\ channel \in 0..MaxVersion /\ faults \in 0..MaxFaults

JobsInv == jobs \in [Job -> RowType]

VoucherInv ==
    /\ voucher \in [1..MaxVouchers -> {"none", "live", "superseded"}]
    /\ \E k \in 0..MaxVouchers : \A v \in 1..MaxVouchers : voucher[v] # "none" <=> v <= k
    /\ \A u, v \in 1..MaxVouchers : voucher[u] = "live" /\ voucher[v] = "live" => u = v

\* The desk read a version that is there still.
DeskInv == desk = Never \/ Drawn(desk)

\* What a worker holds: jobs that exist, the one it is at, what it read for it,
\* and what it has done of it.
HandInv(w) ==
    /\ worker[w].at = "idle" <=> worker[w].batch = {}
    /\ \A claim \in worker[w].batch : Live(claim.job)
    /\ worker[w].at \notin {"idle", "claimed"} =>
         /\ worker[w].on \in HeldBy(w)
         /\ Axis(worker[w].on) => worker[w].seen \in 1..MaxVersion
         /\ ~Axis(worker[w].on) => Drawn(worker[w].seen)
    /\ worker[w].at = "done" /\ worker[w].on = Voucher =>
         worker[w].seen + 1 \in 1..MaxVouchers /\ Drawn(worker[w].seen + 1)
    /\ worker[w].at = "recorded" /\ worker[w].on = Voucher =>
         \E v \in 1..MaxVouchers : Live(Email(v))
WorkersInv == worker \in [Worker -> WorkerType] /\ \A w \in Worker : HandInv(w)

OutboxInv ==
    BookingInv /\ JobsInv /\ VoucherInv /\ DeskInv /\ WorkersInv /\ VoucherIsMailed

\* With one worker, the channel manager hears what is newer and newer, and a
\* push that is done was heard.
ChannelInv ==
    /\ channel <= booking.version
    /\ \A v \in 1..MaxVersion :
        /\ Live(Push(v)) => v <= booking.version
        /\ jobs[Push(v)].status = "SUCCEEDED" => channel >= v
    /\ \E a \in 1..MaxVersion :
        Live(Push(a)) /\ \A v \in 1..MaxVersion : Live(Push(v)) => v <= a
    /\ \A w \in Worker : worker[w].at \notin {"idle", "claimed"} /\ Axis(worker[w].on) =>
        /\ worker[w].seen <= booking.version
        /\ worker[w].at = "started" => channel <= worker[w].seen
        /\ worker[w].at \in {"done", "recorded"} => channel >= worker[w].seen
        /\ worker[w].on.kind = "push" => worker[w].seen >= worker[w].on.n
-----------------------------------------------------------------------------
(***************************************************************************)
(* The jobs, and the two numbers the model computes.                       *)
(***************************************************************************)

\* The kinds of jobs do not meet.
LEMMA JobFacts ==
    /\ Voucher \in Job /\ Reconcile \in Job
    /\ \A v \in 1..MaxVersion : /\ Push(v) \in Job /\ Push(v) # Voucher /\ Push(v) # Reconcile
                                /\ Push(v).kind = "push" /\ Push(v).n = v
    /\ \A v \in 1..MaxVouchers : Email(v) \in Job /\ Email(v) # Voucher /\ Email(v).kind = "email"
    /\ \A u \in 1..MaxVersion, v \in 1..MaxVouchers : Push(u) # Email(v)
    /\ \A j \in Job : j.kind = "push" => \E v \in 1..MaxVersion : j = Push(v)
    /\ ~Axis(Voucher) /\ Reconcile.kind = "reconcile"
    /\ \A u, v \in 1..MaxVouchers : Email(u) = Email(v) => u = v
<1>1. Voucher \in Job /\ Reconcile \in Job
  BY DEF Job
<1>2. ASSUME NEW v \in 1..MaxVersion
      PROVE  /\ Push(v) \in Job /\ Push(v) # Voucher /\ Push(v) # Reconcile
             /\ Push(v).kind = "push" /\ Push(v).n = v
  <2>1. Push(v) \in Job
    BY DEF Job
  <2>2. Push(v).kind = "push" /\ Push(v).n = v
    BY DEF Push
  <2> QED
    BY <2>1, <2>2 DEF Voucher, Reconcile
<1>3. ASSUME NEW v \in 1..MaxVouchers
      PROVE  Email(v) \in Job /\ Email(v) # Voucher /\ Email(v).kind = "email"
  <2>1. Email(v) \in Job
    BY DEF Job
  <2>2. Email(v).kind = "email"
    BY DEF Email
  <2> QED
    BY <2>1, <2>2 DEF Voucher
<1>4. \A u \in 1..MaxVersion, v \in 1..MaxVouchers : Push(u) # Email(v)
  BY <1>2, <1>3
<1>5. ASSUME NEW j \in Job, j.kind = "push"
      PROVE  \E v \in 1..MaxVersion : j = Push(v)
  BY <1>3, <1>5 DEF Job, Reconcile, Voucher
<1>6. ~Axis(Voucher) /\ Reconcile.kind = "reconcile"
  BY DEF Axis, Voucher, Reconcile
<1>7. \A u, v \in 1..MaxVouchers : Email(u) = Email(v) => u = v
  <2>1. \A v \in 1..MaxVouchers : Email(v).n = v
    BY DEF Email
  <2> QED
    BY <2>1
<1> QED
  BY <1>1, <1>2, <1>3, <1>4, <1>5, <1>6, <1>7

\* The newest voucher is the last that was drawn.
LEMMA NewestDrawn ==
    ASSUME VoucherInv
    PROVE  /\ Newest \in 0..MaxVouchers /\ Drawn(Newest)
           /\ \A v \in 1..MaxVouchers : voucher[v] # "none" <=> v <= Newest
<1>1. PICK k \in 0..MaxVouchers : \A v \in 1..MaxVouchers : voucher[v] # "none" <=> v <= k
  BY DEF VoucherInv
<1>2. DEFINE S == {0} \cup {v \in DOMAIN voucher : voucher[v] # "none"}
<1>3. DOMAIN voucher = 1..MaxVouchers
  BY DEF VoucherInv
<1>4. k \in S /\ \A y \in S : y \in Nat /\ k >= y
  BY <1>1, <1>3, OutboxAssumption
<1>5. Max(S) \in S /\ \A y \in S : Max(S) >= y
  <2> HIDE DEF S
  <2>1. \E x \in S : \A y \in S : x >= y
    BY <1>4
  <2> QED
    BY <2>1 DEF Max
<1>6. Max(S) = k
  <2> HIDE DEF S
  <2>1. PICK m : m = Max(S)
    OBVIOUS
  <2>2. m \in Nat /\ m >= k /\ k >= m
    BY <1>4, <1>5, <2>1
  <2> QED
    BY <2>1, <2>2
<1>7. Newest = k
  BY <1>6 DEF Newest
<1> QED
  BY <1>1, <1>7 DEF Drawn

\* The smaller of two numbers.
LEMMA MinOfTwo ==
    ASSUME NEW a \in Nat, NEW b \in Nat
    PROVE  Min({a, b}) \in Nat /\ Min({a, b}) <= b
<1>1. \E x \in {a, b} : \A y \in {a, b} : x <= y
  <2>1. CASE a <= b
    BY <2>1
  <2>2. CASE ~(a <= b)
    BY <2>2
  <2> QED
    BY <2>1, <2>2
<1>2. Min({a, b}) \in {a, b} /\ \A y \in {a, b} : Min({a, b}) <= y
  BY <1>1 DEF Min
<1> QED
  BY <1>2

-----------------------------------------------------------------------------
(***************************************************************************)
(* Drawing a voucher.                                                      *)
(***************************************************************************)

\* A voucher that exists goes on existing.
VouchersForward == \A v \in 1..MaxVouchers : voucher[v] # "none" => voucher'[v] # "none"

\* A cancellation supersedes what was live.
LEMMA SupersedeKeeps ==
    ASSUME VoucherInv, voucher' = Superseded
    PROVE  VoucherInv' /\ VouchersForward
<1>1. DOMAIN voucher = 1..MaxVouchers
  BY DEF VoucherInv
<1>2. /\ voucher' \in [1..MaxVouchers -> {"none", "live", "superseded"}]
      /\ \A v \in 1..MaxVouchers : /\ voucher'[v] # "live"
                                   /\ voucher'[v] # "none" <=> voucher[v] # "none"
  BY <1>1 DEF Superseded, VoucherInv
<1> QED
  BY <1>2 DEF VoucherInv, VouchersForward

\* A voucher is drawn after the version that was read, or not at all: whatever
\* was drawn in between.
LEMMA CreateKeeps ==
    ASSUME VoucherInv, NEW n, Drawn(n), CanCreate(n), CreateVoucher(n)
    PROVE  /\ VoucherInv' /\ VouchersForward
           /\ n + 1 \in 1..MaxVouchers /\ voucher'[n + 1] # "none"
<1>1. DOMAIN voucher = 1..MaxVouchers
  BY DEF VoucherInv
<1>2. n + 1 \in 1..MaxVouchers /\ voucher[n + 1] = "none" /\ n \in Nat
  BY <1>1 DEF CanCreate, Drawn
<1>3. PICK k \in 0..MaxVouchers : \A v \in 1..MaxVouchers : voucher[v] # "none" <=> v <= k
  BY DEF VoucherInv
<1>4. k = n
  BY <1>2, <1>3 DEF Drawn
<1>5. Superseded \in [1..MaxVouchers -> {"none", "superseded"}]
  BY <1>1 DEF Superseded, VoucherInv
<1>6. \A v \in 1..MaxVouchers : Superseded[v] # "none" <=> voucher[v] # "none"
  BY <1>1 DEF Superseded
<1>7. voucher' = [Superseded EXCEPT ![n + 1] = "live"]
  BY DEF CreateVoucher
<1>8. /\ voucher' \in [1..MaxVouchers -> {"none", "live", "superseded"}]
      /\ voucher'[n + 1] = "live"
      /\ \A v \in (1..MaxVouchers) \ {n + 1} : voucher'[v] = Superseded[v]
  BY <1>2, <1>5, <1>7
<1>9. \A v \in 1..MaxVouchers : voucher'[v] # "none" <=> v <= n + 1
  BY <1>2, <1>3, <1>4, <1>6, <1>8
<1>10. \A u, v \in 1..MaxVouchers : voucher'[u] = "live" /\ voucher'[v] = "live" => u = v
  BY <1>5, <1>8
<1>11. n + 1 \in 0..MaxVouchers
  BY <1>2
<1>12. VoucherInv'
  BY <1>8, <1>9, <1>10, <1>11 DEF VoucherInv
<1> QED
  BY <1>2, <1>6, <1>8, <1>12 DEF VouchersForward

-----------------------------------------------------------------------------
(***************************************************************************)
(* Each part of the invariant is kept by every step.                       *)
(***************************************************************************)

\* Every step is a request's or a worker's.
LEMMA Steps ==
    ASSUME [Next]_vars
    PROVE  \/ Modify \/ Cancel \/ MarkNoShow \/ EnqueueReconcile \/ Desk
           \/ \E j \in Job : RetryJob(j)
           \/ \E w \in Worker : \/ Tick(w) \/ Start(w) \/ Deliver(w) \/ Record(w) \/ Succeed(w)
                                \/ Fail(w) \/ RecordFailure(w) \/ Crash(w)
           \/ UNCHANGED vars
BY DEF Next, Work

\* No job's row is deleted.
JobsForward == \A j \in Job : Live(j) => jobs'[j].status # "none"

\* One row written, to a status a row can have, keeps the outbox.
LEMMA WriteRow ==
    ASSUME JobsInv, NEW j \in Job, NEW row \in RowType, row.status # "none",
           jobs' = [jobs EXCEPT ![j] = row]
    PROVE  JobsInv' /\ JobsForward
BY DEF JobsInv, JobsForward, Live

\* A row is one of the outbox's.
LEMMA RowFacts ==
    ASSUME NEW s \in JobStatus, NEW n \in 0..MaxAttempts
    PROVE  /\ Row(s, n) \in RowType /\ Row(s, n).status = s /\ Row(s, n).attempts = n
           /\ 0 \in 0..MaxAttempts
BY OutboxAssumption DEF Row, RowType

\* A worker that has claimed these jobs and started none.
Busy(S) == [Idle EXCEPT !.at = "claimed", !.batch = S]

\* A tick claims some jobs that exist, and loses none.
LEMMA TickFacts ==
    ASSUME JobsInv, NEW w \in Worker, Tick(w)
    PROVE  /\ JobsInv' /\ JobsForward
           /\ \E S \in SUBSET Claim :
                /\ S # {} /\ \A claim \in S : jobs'[claim.job].status = "PROCESSING"
                /\ worker' = [worker EXCEPT ![w] = Busy(S)]
           /\ worker[w].at = "idle"
           /\ \A j \in Job : jobs'[j].status = "SUCCEEDED" => jobs[j].status = "SUCCEEDED"
<1> USE DEF JobStatus
<1> DEFINE rows == Recover(Abandoned)
           claimed == Claimable(rows)
           tried(j) == Min({rows[j].attempts + 1, MaxAttempts})
           S == {[job |-> j, attempts |-> tried(j)] : j \in claimed}
<1>1. /\ worker[w].at = "idle" /\ claimed # {}
      /\ jobs' = [j \in Job |-> IF j \in claimed THEN Row("PROCESSING", tried(j)) ELSE rows[j]]
      /\ worker' = [worker EXCEPT ![w] = Busy(S)]
  BY DEF Tick, Busy
<1>2. ASSUME NEW j \in Job
      PROVE  /\ rows[j] \in RowType
             /\ Live(j) => rows[j].status # "none"
             /\ rows[j].status = "SUCCEEDED" => jobs[j].status = "SUCCEEDED"
  <2>1. jobs[j] \in RowType /\ jobs[j].attempts \in 0..MaxAttempts
    BY DEF JobsInv, RowType
  <2>2. Row("FAILED", jobs[j].attempts) \in RowType
        /\ Row("FAILED", jobs[j].attempts).status = "FAILED"
    BY <2>1, RowFacts
  <2> QED
    BY <2>1, <2>2 DEF Recover, Live
<1>3. ASSUME NEW j \in Job
      PROVE  tried(j) \in 0..MaxAttempts /\ Row("PROCESSING", tried(j)) \in RowType
  <2>1. rows[j].attempts + 1 \in Nat /\ MaxAttempts \in Nat
    BY <1>2, OutboxAssumption DEF RowType
  <2>2. tried(j) \in 0..MaxAttempts
    BY <2>1, MinOfTwo
  <2> QED
    BY <2>2, RowFacts
<1>4. \A j \in Job : Row("PROCESSING", tried(j)).status = "PROCESSING"
  BY DEF Row
<1>5. claimed \subseteq Job
  BY DEF Claimable
<1>6. S \in SUBSET Claim /\ S # {} /\ \A claim \in S : claim.job \in claimed
  <2>1. \A j \in claimed : [job |-> j, attempts |-> tried(j)] \in Claim
    BY <1>3, <1>5 DEF Claim
  <2>2. S \in SUBSET Claim
    BY <2>1
  <2>3. \A claim \in S : claim.job \in claimed
    <3>1. ASSUME NEW claim \in S
          PROVE  claim.job \in claimed
      <4>1. PICK j \in claimed : claim = [job |-> j, attempts |-> tried(j)]
        OBVIOUS
      <4> HIDE DEF claimed, tried
      <4> QED
        BY <4>1
    <3> QED
      BY <3>1
  <2>4. S # {}
    BY <1>1
  <2> QED
    BY <2>2, <2>3, <2>4
<1>7. \A j \in claimed : jobs'[j].status = "PROCESSING"
  <2> HIDE DEF rows, claimed, tried, S
  <2> QED
    BY <1>1, <1>4, <1>5
<1> HIDE DEF rows, claimed, tried, S
<1>8. /\ JobsInv' /\ JobsForward
      /\ \A j \in Job : jobs'[j].status = "SUCCEEDED" => jobs[j].status = "SUCCEEDED"
  BY <1>1, <1>2, <1>3, <1>4 DEF JobsInv, JobsForward
<1>9. \A claim \in S : jobs'[claim.job].status = "PROCESSING"
  BY <1>6, <1>7
<1>10. \E T \in SUBSET Claim :
          /\ T # {} /\ \A claim \in T : jobs'[claim.job].status = "PROCESSING"
          /\ worker' = [worker EXCEPT ![w] = Busy(T)]
  BY <1>1, <1>6, <1>9
<1> QED
  BY <1>1, <1>8, <1>10

\* The outbox keeps its rows.
LEMMA JobsStep ==
    ASSUME BookingInv, JobsInv, WorkersInv, [Next]_vars
    PROVE  JobsInv' /\ JobsForward
<1> DEFINE Kept == JobsInv' /\ JobsForward
<1> USE DEF JobStatus
<1>1. ASSUME UNCHANGED jobs
      PROVE  Kept
  BY <1>1 DEF JobsInv, JobsForward, Live
<1>2. ASSUME NEW j \in Job, Enqueue(j)
      PROVE  Kept
  <2>1. Row("PENDING", 0) \in RowType /\ Row("PENDING", 0).status # "none"
    BY RowFacts, OutboxAssumption DEF Row
  <2> QED
    BY <1>2, <2>1, WriteRow DEF Enqueue
<1>3. ASSUME Modify \/ Cancel
      PROVE  Kept
  <2>1. booking.version + 1 \in 1..MaxVersion
    <3>1. booking.version < MaxVersion
      BY <1>3 DEF Modify, Cancel, Change
    <3>2. booking.version \in 1..MaxVersion
      BY DEF BookingInv
    <3> QED
      BY <3>1, <3>2, OutboxAssumption
  <2>2. Push(booking.version + 1) \in Job
    BY <2>1, JobFacts
  <2>3. Enqueue(Push(booking.version + 1))
    BY <1>3 DEF Modify, Cancel
  <2> QED
    BY <1>2, <2>2, <2>3
<1>4. ASSUME NEW j \in Job, jobs' = [jobs EXCEPT ![j] = Row("PENDING", @.attempts)]
      PROVE  Kept
  <2>1. jobs[j].attempts \in 0..MaxAttempts
    BY DEF JobsInv, RowType
  <2>2. Row("PENDING", jobs[j].attempts) \in RowType
        /\ Row("PENDING", jobs[j].attempts).status # "none"
    BY <2>1, RowFacts
  <2> QED
    BY <1>4, <2>2, WriteRow
<1>5. ASSUME NEW w \in Worker, Tick(w)
      PROVE  Kept
  BY <1>5, TickFacts
<1>6. ASSUME NEW w \in Worker, Record(w)
      PROVE  Kept
  <2>1. DEFINE mail == Email(worker[w].seen + 1)
  <2>2. IF worker[w].on = Voucher /\ ~Live(mail) THEN Enqueue(mail) ELSE UNCHANGED jobs
    BY <1>6 DEF Record
  <2>3. worker[w].on = Voucher => mail \in Job
    BY <1>6, JobFacts DEF Record, Step, WorkersInv, HandInv
  <2> HIDE DEF mail
  <2> QED
    BY <1>1, <1>2, <2>2, <2>3
<1>7. ASSUME NEW w \in Worker, Succeed(w)
      PROVE  Kept
  <2>1. worker[w].on \in Job /\ jobs' = [jobs EXCEPT ![worker[w].on].status = "SUCCEEDED"]
    BY <1>7 DEF Succeed, WorkersInv, WorkerType
  <2> QED
    BY <2>1 DEF JobsInv, JobsForward, Live, RowType
<1>8. ASSUME NEW w \in Worker, Fail(w)
      PROVE  Kept
  <2>1. /\ worker[w].on \in Job
        /\ jobs' = [jobs EXCEPT ![worker[w].on].status = IF Dead(w) THEN "DEAD_LETTER" ELSE "FAILED"]
    BY <1>8 DEF Fail, WorkersInv, WorkerType
  <2>2. PICK s \in {"DEAD_LETTER", "FAILED"} : s = IF Dead(w) THEN "DEAD_LETTER" ELSE "FAILED"
    OBVIOUS
  <2>3. jobs' = [jobs EXCEPT ![worker[w].on].status = s]
    BY <2>1, <2>2
  <2> QED
    BY <2>1, <2>3 DEF JobsInv, JobsForward, Live, RowType
<1>9. ASSUME NEW w \in Worker,
             Start(w) \/ Deliver(w) \/ RecordFailure(w) \/ Crash(w)
      PROVE  UNCHANGED jobs
  <2>1. Start(w) => UNCHANGED jobs
    BY DEF Start
  <2>2. Deliver(w) => UNCHANGED jobs
    BY DEF Deliver
  <2>3. RecordFailure(w) \/ Crash(w) => UNCHANGED jobs
    BY DEF RecordFailure, Crash
  <2> QED
    BY <1>9, <2>1, <2>2, <2>3
<1>10. MarkNoShow \/ Desk \/ UNCHANGED vars => UNCHANGED jobs
  BY DEF MarkNoShow, Desk, vars
<1>11. EnqueueReconcile => \E j \in Job : jobs' = [jobs EXCEPT ![j] = Row("PENDING", @.attempts)]
  BY JobFacts DEF EnqueueReconcile
<1>12. \A j \in Job : RetryJob(j) => jobs' = [jobs EXCEPT ![j] = Row("PENDING", @.attempts)]
  BY DEF RetryJob
<1>13. Kept
  <2> HIDE DEF Kept
  <2> QED
    BY <1>1, <1>3, <1>4, <1>5, <1>6, <1>7, <1>8, <1>9, <1>10, <1>11, <1>12, Steps
<1> QED
  BY <1>13
\* What a delivery changes.
LEMMA Delivered ==
    ASSUME JobsInv, WorkersInv, NEW w \in Worker, Deliver(w)
    PROVE  /\ Axis(worker[w].on) =>
                /\ channel' = worker[w].seen /\ worker[w].seen \in 1..MaxVersion
                /\ UNCHANGED voucher
           /\ worker[w].on = Voucher =>
                /\ Drawn(worker[w].seen) /\ CanCreate(worker[w].seen)
                /\ CreateVoucher(worker[w].seen) /\ UNCHANGED channel
           /\ ~Axis(worker[w].on) /\ worker[w].on # Voucher => UNCHANGED <<channel, voucher>>
           /\ worker[w].at = "started"
           /\ UNCHANGED <<booking, jobs, desk, faults>>
<1>1. worker[w].at = "started"
  BY DEF Deliver, Step
<1>2. /\ Axis(worker[w].on) => worker[w].seen \in 1..MaxVersion
      /\ ~Axis(worker[w].on) => Drawn(worker[w].seen)
  BY <1>1 DEF WorkersInv, HandInv
<1>3. ~Axis(Voucher)
  BY JobFacts
<1>4. /\ CASE Axis(worker[w].on) -> channel' = worker[w].seen /\ UNCHANGED voucher
           [] worker[w].on = Voucher -> /\ CanCreate(worker[w].seen)
                                        /\ CreateVoucher(worker[w].seen)
                                        /\ UNCHANGED channel
           [] OTHER -> UNCHANGED <<channel, voucher>>
      /\ UNCHANGED <<booking, jobs, desk, faults>>
  BY DEF Deliver
<1>5. CASE Axis(worker[w].on)
  BY <1>1, <1>2, <1>3, <1>4, <1>5
<1>6. CASE worker[w].on = Voucher
  BY <1>1, <1>2, <1>3, <1>4, <1>6
<1>7. CASE ~Axis(worker[w].on) /\ worker[w].on # Voucher
  BY <1>1, <1>4, <1>7
<1> QED
  BY <1>5, <1>6, <1>7

\* The booking and what was heard of it have their types.
LEMMA BookingStep ==
    ASSUME BookingInv, JobsInv, WorkersInv, [Next]_vars
    PROVE  BookingInv'
<1> USE OutboxAssumption
<1>1. ASSUME NEW status \in {"MODIFIED", "CANCELLED", "NO_SHOW"}, Change(status),
             UNCHANGED <<channel, faults>>
      PROVE  BookingInv'
  BY <1>1 DEF Change, BookingInv
<1>2. ASSUME UNCHANGED <<booking, channel>>, faults' = faults \/ (faults < MaxFaults /\ faults' = faults + 1)
      PROVE  BookingInv'
  BY <1>2 DEF BookingInv
<1>3. ASSUME NEW w \in Worker, Deliver(w)
      PROVE  BookingInv'
  BY <1>3, Delivered DEF BookingInv
<1>4. ASSUME NEW w \in Worker, Record(w) \/ RecordFailure(w)
      PROVE  BookingInv'
  <2>1. CASE Record(w)
    BY <2>1 DEF Record, BookingInv
  <2>2. CASE RecordFailure(w)
    BY <2>2 DEF RecordFailure, BookingInv
  <2> QED
    BY <1>4, <2>1, <2>2
<1>5. (Modify \/ Cancel \/ MarkNoShow)
        => (\E status \in {"MODIFIED", "CANCELLED", "NO_SHOW"} : Change(status))
             /\ UNCHANGED <<channel, faults>>
  BY DEF Modify, Cancel, MarkNoShow
<1>6. (EnqueueReconcile \/ Desk \/ UNCHANGED vars \/ \E j \in Job : RetryJob(j))
        => /\ UNCHANGED <<booking, channel>>
           /\ faults' = faults \/ (faults < MaxFaults /\ faults' = faults + 1)
  BY DEF EnqueueReconcile, Desk, vars, RetryJob
<1>7. ASSUME NEW w \in Worker, Tick(w) \/ Start(w) \/ Succeed(w) \/ Fail(w) \/ Crash(w)
      PROVE  /\ UNCHANGED <<booking, channel>>
             /\ faults' = faults \/ (faults < MaxFaults /\ faults' = faults + 1)
  <2>1. Tick(w) => UNCHANGED <<booking, channel, faults>>
    BY DEF Tick
  <2>4. Start(w) => UNCHANGED <<booking, channel, faults>>
    BY DEF Start
  <2>2. Succeed(w) \/ Fail(w) => UNCHANGED <<booking, channel, faults>>
    BY DEF Succeed, Fail
  <2>3. Crash(w) => UNCHANGED <<booking, channel>> /\ faults < MaxFaults /\ faults' = faults + 1
    BY DEF Crash
  <2> QED
    BY <1>7, <2>1, <2>2, <2>3, <2>4
<1> QED
  BY <1>1, <1>2, <1>3, <1>4, <1>5, <1>6, <1>7, Steps

\* What the desk does to the vouchers.
LEMMA DeskDraws ==
    ASSUME VoucherInv, DeskInv, Desk
    PROVE  /\ VoucherInv' /\ VouchersForward /\ DeskInv'
           /\ UNCHANGED <<booking, jobs, worker, channel, faults>>
<1>1. DeskGenerate /\ UNCHANGED <<booking, jobs, worker, channel, faults>>
  BY DEF Desk
<1>2. CASE desk' = Newest /\ UNCHANGED voucher
  <2>1. VoucherInv' /\ VouchersForward
    BY <1>2 DEF VoucherInv, VouchersForward
  <2>2. Drawn(desk')
    BY <1>2, NewestDrawn
  <2>3. DeskInv'
    BY <1>2, <2>2 DEF DeskInv, Drawn
  <2> QED
    BY <1>1, <2>1, <2>3
<1>3. CASE /\ desk # Never /\ desk' = Never
           /\ IF CanCreate(desk) THEN CreateVoucher(desk) ELSE UNCHANGED voucher
  <2>1. DeskInv'
    BY <1>3 DEF DeskInv
  <2>2. CASE CanCreate(desk)
    BY <1>1, <1>3, <2>1, <2>2, CreateKeeps DEF DeskInv
  <2>3. CASE ~CanCreate(desk)
    BY <1>1, <1>3, <2>1, <2>3 DEF VoucherInv, VouchersForward
  <2> QED
    BY <2>2, <2>3
<1> QED
  BY <1>1, <1>2, <1>3 DEF DeskGenerate

\* A worker's step leaves the desk alone, and all but a delivery the vouchers.
LEMMA WorkerLeaves ==
    ASSUME NEW w \in Worker
    PROVE  /\ Tick(w) \/ Start(w) \/ Record(w) \/ Succeed(w) \/ Fail(w) \/ RecordFailure(w)
                \/ Crash(w) => UNCHANGED <<voucher, desk, channel>>
           /\ Deliver(w) => UNCHANGED desk
<1>1. Tick(w) => UNCHANGED <<voucher, desk, channel>>
  BY DEF Tick
<1>6. Start(w) => UNCHANGED <<voucher, desk, channel>>
  BY DEF Start
<1>2. Record(w) => UNCHANGED <<voucher, desk, channel>>
  BY DEF Record
<1>3. Succeed(w) \/ Fail(w) => UNCHANGED <<voucher, desk, channel>>
  BY DEF Succeed, Fail
<1>4. RecordFailure(w) \/ Crash(w) => UNCHANGED <<voucher, desk, channel>>
  BY DEF RecordFailure, Crash
<1>5. Deliver(w) => UNCHANGED desk
  BY DEF Deliver
<1> QED
  BY <1>1, <1>2, <1>3, <1>4, <1>5, <1>6

\* The vouchers stay in order, and the desk's version drawn.
LEMMA VoucherStep ==
    ASSUME JobsInv, VoucherInv, DeskInv, WorkersInv, [Next]_vars
    PROVE  VoucherInv' /\ VouchersForward /\ DeskInv'
<1>1. VouchersForward /\ UNCHANGED desk => DeskInv'
  BY DEF VouchersForward, DeskInv, Drawn
<1>2. UNCHANGED voucher => VoucherInv' /\ VouchersForward
  BY DEF VoucherInv, VouchersForward
<1>3. CASE Cancel
  BY <1>1, <1>3, SupersedeKeeps DEF Cancel
<1>4. CASE Desk
  BY <1>4, DeskDraws
<1>5. CASE \E w \in Worker : Deliver(w)
  <2>1. PICK w \in Worker : Deliver(w)
    BY <1>5
  <2>2. CASE worker[w].on = Voucher
    <3>1. Drawn(worker[w].seen) /\ CanCreate(worker[w].seen) /\ CreateVoucher(worker[w].seen)
      BY <2>1, <2>2, Delivered
    <3> QED
      BY <1>1, <2>1, <3>1, CreateKeeps, WorkerLeaves
  <2>3. CASE worker[w].on # Voucher
    BY <1>1, <1>2, <2>1, <2>3, Delivered, WorkerLeaves
  <2> QED
    BY <2>2, <2>3
<1>6. CASE \E w \in Worker : Tick(w) \/ Start(w) \/ Record(w) \/ Succeed(w) \/ Fail(w)
                             \/ RecordFailure(w) \/ Crash(w)
  BY <1>1, <1>2, <1>6, WorkerLeaves
<1>7. CASE Modify \/ MarkNoShow \/ EnqueueReconcile \/ UNCHANGED vars \/ \E j \in Job : RetryJob(j)
  <2>1. UNCHANGED <<voucher, desk>>
    BY <1>7 DEF Modify, MarkNoShow, EnqueueReconcile, RetryJob, vars
  <2> QED
    BY <1>1, <1>2, <2>1
<1> QED
  BY <1>3, <1>4, <1>5, <1>6, <1>7, Steps
\* What a worker holds stays true while others go on.
LEMMA HandKept ==
    ASSUME WorkersInv, JobsForward, VouchersForward, NEW w \in Worker, worker'[w] = worker[w]
    PROVE  HandInv(w)'
<1>1. worker[w] \in WorkerType /\ HandInv(w)
  BY DEF WorkersInv
<1>2. \A claim \in worker[w].batch : claim.job \in Job
  BY <1>1 DEF WorkerType, Claim
<1>3. \A claim \in worker'[w].batch : Live(claim.job)'
  BY <1>1, <1>2 DEF HandInv, JobsForward, Live
<1>4. \A n \in Nat : Drawn(n) => Drawn(n)'
  BY DEF Drawn, VouchersForward
<1>5. worker[w].seen \in Nat /\ worker[w].seen + 1 \in Nat
  BY <1>1 DEF WorkerType
<1>6. (\E v \in 1..MaxVouchers : Live(Email(v))) => \E v \in 1..MaxVouchers : Live(Email(v))'
  <2>1. \A v \in 1..MaxVouchers : Live(Email(v)) => Live(Email(v))'
    <3>1. \A v \in 1..MaxVouchers :
            jobs[Email(v)].status # "none" => jobs'[Email(v)].status # "none"
      BY JobFacts DEF JobsForward, Live
    <3> QED
      BY <3>1 DEF Live, Email
  <2> QED
    BY <2>1
<1>7. HeldBy(w)' = HeldBy(w)
  BY DEF HeldBy
<1> QED
  BY <1>1, <1>3, <1>4, <1>5, <1>6, <1>7 DEF HandInv, Axis

\* So one worker's step need only be looked at where it happens.
LEMMA OneHand ==
    ASSUME WorkersInv, JobsForward, VouchersForward, NEW w \in Worker, NEW hand \in WorkerType,
           worker' = [worker EXCEPT ![w] = hand], HandInv(w)'
    PROVE  WorkersInv'
<1>1. worker' \in [Worker -> WorkerType]
  BY DEF WorkersInv
<1>2. \A u \in Worker \ {w} : worker'[u] = worker[u]
  BY DEF WorkersInv
<1>3. \A u \in Worker \ {w} : HandInv(u)'
  BY <1>2, HandKept
<1> QED
  BY <1>1, <1>3 DEF WorkersInv

\* A worker that waits, or has claimed jobs that exist, has done nothing yet.
LEMMA FreshHand ==
    ASSUME WorkersInv, JobsForward, VouchersForward, NEW w \in Worker, NEW S \in SUBSET Claim,
           \A claim \in S : jobs'[claim.job].status # "none",
           worker' = [worker EXCEPT ![w] = IF S = {} THEN Idle ELSE Busy(S)]
    PROVE  WorkersInv'
<1>1. Idle \in WorkerType /\ Idle.at = "idle" /\ Idle.batch = {}
  BY JobFacts DEF Idle, WorkerType
<1>2. /\ Busy(S) \in WorkerType /\ Busy(S).at = "claimed" /\ Busy(S).batch = S
  BY <1>1 DEF Busy, WorkerType
<1>3. PICK hand \in WorkerType : hand = IF S = {} THEN Idle ELSE Busy(S)
  BY <1>1, <1>2
<1>4. /\ hand.batch = S /\ hand.at \in {"idle", "claimed"}
      /\ hand.at = "idle" <=> S = {}
  BY <1>1, <1>2, <1>3
<1>5. worker' = [worker EXCEPT ![w] = hand] /\ worker'[w] = hand
  BY <1>3 DEF WorkersInv
<1>6. HandInv(w)'
  BY <1>4, <1>5 DEF HandInv, Live
<1> QED
  BY <1>5, <1>6, OneHand

\* So is one that leaves its job for the rest of its batch.
LEMMA LeaveHand ==
    ASSUME WorkersInv, JobsForward, VouchersForward, NEW w \in Worker, Leave(w)
    PROVE  WorkersInv'
<1> DEFINE S == {claim \in worker[w].batch : claim.job # worker[w].on}
<1>1. worker' = [worker EXCEPT ![w] = IF S = {} THEN Idle ELSE Busy(S)]
  BY DEF Leave, Busy
<1>2. S \in SUBSET Claim /\ \A claim \in S : Live(claim.job) /\ claim.job \in Job
  BY DEF WorkersInv, WorkerType, HandInv, Claim
<1>3. \A claim \in S : jobs'[claim.job].status # "none"
  BY <1>2 DEF JobsForward
<1> HIDE DEF S
<1> QED
  BY <1>1, <1>2, <1>3, FreshHand

\* And one that goes on with its job, to where nothing was to be shown yet.
LEMMA OnHand ==
    ASSUME WorkersInv, JobsForward, VouchersForward, NEW w \in Worker,
           worker[w].at \notin {"idle", "claimed"}, NEW to \in {"done", "recorded", "failed"},
           worker' = [worker EXCEPT ![w].at = to],
           to = "done" /\ worker[w].on = Voucher =>
             /\ worker[w].seen + 1 \in 1..MaxVouchers
             /\ voucher'[worker[w].seen + 1] # "none",
           to = "recorded" /\ worker[w].on = Voucher =>
             \E v \in 1..MaxVouchers : jobs'[Email(v)].status # "none"
    PROVE  WorkersInv'
<1>1. worker[w] \in WorkerType /\ HandInv(w)
  BY DEF WorkersInv
<1>2. PICK hand \in WorkerType : hand = [worker[w] EXCEPT !.at = to]
  BY <1>1 DEF WorkerType
<1>3. worker' = [worker EXCEPT ![w] = hand] /\ worker'[w] = hand
  BY <1>2 DEF WorkersInv
<1>4. /\ hand.at = to /\ hand.batch = worker[w].batch /\ hand.on = worker[w].on
      /\ hand.seen = worker[w].seen
  BY <1>1, <1>2 DEF WorkerType
<1>5. HeldBy(w)' = HeldBy(w)
  BY <1>3, <1>4 DEF HeldBy
<1>6. \A claim \in worker[w].batch : Live(claim.job)'
  <2>1. \A claim \in worker[w].batch : claim.job \in Job /\ Live(claim.job)
    BY <1>1 DEF WorkerType, Claim, HandInv
  <2> QED
    BY <2>1 DEF JobsForward, Live
<1>7. Drawn(worker[w].seen) => worker[w].seen = 0 \/ (/\ worker[w].seen \in 1..MaxVouchers
                                                      /\ voucher'[worker[w].seen] # "none")
  BY DEF Drawn, VouchersForward
<1>8. (\E v \in 1..MaxVouchers : jobs'[Email(v)].status # "none")
        => \E v \in 1..MaxVouchers : Live(Email(v))'
  BY DEF Live, Email
<1>9. HandInv(w)'
  BY <1>1, <1>3, <1>4, <1>5, <1>6, <1>7, <1>8 DEF HandInv, Drawn, Axis
<1> QED
  BY <1>3, <1>9, OneHand
\* Whatever is claimed, delivered, failed or lost, a worker holds what exists.
LEMMA WorkersStep ==
    ASSUME BookingInv, JobsInv, VoucherInv, DeskInv, WorkersInv, [Next]_vars
    PROVE  WorkersInv'
<1>1. JobsForward /\ VouchersForward
  BY JobsStep, VoucherStep
<1>2. ASSUME UNCHANGED worker
      PROVE  WorkersInv'
  <2>1. \A w \in Worker : HandInv(w)'
    BY <1>1, <1>2, HandKept
  <2> QED
    BY <1>2, <2>1 DEF WorkersInv
<1>3. ASSUME NEW w \in Worker, Tick(w)
      PROVE  WorkersInv'
  <2>1. PICK S \in SUBSET Claim :
          /\ S # {} /\ \A claim \in S : jobs'[claim.job].status = "PROCESSING"
          /\ worker' = [worker EXCEPT ![w] = Busy(S)]
    BY <1>3, TickFacts
  <2>2. worker' = [worker EXCEPT ![w] = IF S = {} THEN Idle ELSE Busy(S)]
    BY <2>1
  <2>3. \A claim \in S : jobs'[claim.job].status # "none"
    BY <2>1
  <2> QED
    BY <1>1, <2>2, <2>3, FreshHand
<1>4. ASSUME NEW w \in Worker, Start(w)
      PROVE  WorkersInv'
  <2>1. PICK j \in HeldBy(w) :
          worker' = [worker EXCEPT ![w].at = "started", ![w].on = j,
                      ![w].seen = IF Axis(j) THEN booking.version ELSE Newest]
    BY <1>4, Zenon DEF Start
  <2>2. PICK n : n = IF Axis(j) THEN booking.version ELSE Newest
    OBVIOUS
  <2>3. worker[w] \in WorkerType /\ HandInv(w)
    BY DEF WorkersInv
  <2>4. j \in Job
    BY <2>3 DEF HeldBy, WorkerType, Claim
  <2>5. /\ n \in Nat
        /\ Axis(j) => n \in 1..MaxVersion
        /\ ~Axis(j) => Drawn(n)
    BY <2>2, NewestDrawn DEF BookingInv
  <2>6. PICK hand \in WorkerType : hand = [worker[w] EXCEPT !.at = "started", !.on = j, !.seen = n]
    <3>1. PICK a \in WorkerType : a = [worker[w] EXCEPT !.at = "started"]
      BY <2>3 DEF WorkerType
    <3>2. PICK b \in WorkerType : b = [a EXCEPT !.on = j]
      BY <2>4 DEF WorkerType
    <3>3. PICK c \in WorkerType : c = [b EXCEPT !.seen = n]
      BY <2>5 DEF WorkerType
    <3> QED
      BY <3>1, <3>2, <3>3
  <2>7. worker' = [worker EXCEPT ![w] = hand] /\ worker'[w] = hand
    BY <2>1, <2>2, <2>6 DEF WorkersInv
  <2>8. /\ hand.at = "started" /\ hand.on = j /\ hand.seen = n /\ hand.batch = worker[w].batch
    BY <2>3, <2>6 DEF WorkerType
  <2>9. UNCHANGED <<jobs, voucher>> /\ worker[w].at = "claimed"
    BY <1>4 DEF Start
  <2>10. HeldBy(w)' = HeldBy(w)
    BY <2>7, <2>8 DEF HeldBy
  <2>11. Drawn(n)' <=> Drawn(n)
    BY <2>9 DEF Drawn
  <2>12. \A claim \in worker'[w].batch : Live(claim.job)'
    BY <2>3, <2>7, <2>8, <2>9 DEF HandInv, Live
  <2>13. j \in HeldBy(w)' /\ worker'[w].batch # {}
    BY <2>7, <2>8, <2>10 DEF HeldBy
  <2>14. HandInv(w)'
    <3>1. /\ worker'[w].at = "started" /\ worker'[w].on = j /\ worker'[w].seen = n
      BY <2>7, <2>8
    <3> QED
      BY <2>5, <2>11, <2>12, <2>13, <3>1 DEF HandInv, Drawn, Axis
  <2> QED
    BY <1>1, <2>7, <2>14, OneHand
<1>5. ASSUME NEW w \in Worker, Deliver(w)
      PROVE  WorkersInv'
  <2>1. PICK to : to = IF worker[w].on.kind = "email" THEN "recorded" ELSE "done"
    OBVIOUS
  <2>2. worker[w].at = "started" /\ worker' = [worker EXCEPT ![w].at = to]
    BY <1>5, <2>1 DEF Deliver, Step
  <2>3. to \in {"done", "recorded"}
    BY <2>1
  <2>4. worker[w].on = Voucher => to = "done"
    BY <2>1 DEF Voucher
  <2>5. worker[w].on = Voucher => /\ worker[w].seen + 1 \in 1..MaxVouchers
                                  /\ voucher'[worker[w].seen + 1] # "none"
    BY <1>5, Delivered, CreateKeeps
  <2> QED
    BY <1>1, <2>2, <2>3, <2>4, <2>5, OnHand
<1>6. ASSUME NEW w \in Worker, Record(w)
      PROVE  WorkersInv'
  <2>1. worker[w].at = "done" /\ worker' = [worker EXCEPT ![w].at = "recorded"]
    BY <1>6 DEF Record, Step
  <2>2. ASSUME worker[w].on = Voucher
        PROVE  \E v \in 1..MaxVouchers : jobs'[Email(v)].status # "none"
    <3>1. PICK v \in 1..MaxVouchers : v = worker[w].seen + 1
      BY <2>1, <2>2 DEF WorkersInv, HandInv
    <3>2. IF ~Live(Email(v)) THEN Enqueue(Email(v)) ELSE UNCHANGED jobs
      BY <1>6, <2>2, <3>1 DEF Record
    <3>3. Email(v) \in Job
      BY JobFacts
    <3>4. CASE Live(Email(v))
      BY <3>2, <3>4 DEF Live
    <3>5. CASE ~Live(Email(v))
      <4>1. jobs' = [jobs EXCEPT ![Email(v)] = Row("PENDING", 0)]
        BY <3>2, <3>5 DEF Enqueue
      <4>2. jobs'[Email(v)] = Row("PENDING", 0)
        BY <3>3, <4>1 DEF JobsInv
      <4> QED
        BY <4>2 DEF Row
    <3> QED
      BY <3>4, <3>5
  <2> QED
    BY <1>1, <2>1, <2>2, OnHand
<1>7. ASSUME NEW w \in Worker, Succeed(w) \/ RecordFailure(w)
      PROVE  Leave(w)
  BY <1>7 DEF Succeed, RecordFailure
<1>8. ASSUME NEW w \in Worker, Fail(w)
      PROVE  WorkersInv'
  <2>1. CASE Leave(w)
    BY <1>1, <2>1, LeaveHand
  <2>2. CASE Step(w, worker[w].at, "failed")
    <3>1. worker[w].at \notin {"idle", "claimed"} /\ worker' = [worker EXCEPT ![w].at = "failed"]
      BY <1>8, <2>2 DEF Fail, Step
    <3> QED
      BY <1>1, <3>1, OnHand
  <2> QED
    BY <1>8, <2>1, <2>2 DEF Fail
<1>9. ASSUME NEW w \in Worker, Crash(w)
      PROVE  WorkersInv'
  <2>1. PICK S \in SUBSET Claim : S = {}
    OBVIOUS
  <2>2. worker' = [worker EXCEPT ![w] = IF S = {} THEN Idle ELSE Busy(S)]
    BY <1>9, <2>1 DEF Crash
  <2> QED
    BY <1>1, <2>1, <2>2, FreshHand
<1>10. (Modify \/ Cancel \/ MarkNoShow \/ EnqueueReconcile \/ Desk \/ UNCHANGED vars)
         => UNCHANGED worker
  BY DEF Modify, Cancel, MarkNoShow, EnqueueReconcile, Desk, vars
<1>11. \A j \in Job : RetryJob(j) => UNCHANGED worker
  BY DEF RetryJob
<1> QED
  BY <1>1, <1>2, <1>3, <1>4, <1>5, <1>6, <1>7, <1>8, <1>9, <1>10, <1>11, LeaveHand, Steps

\* A job is done only by the worker that held it, at the end of its work.
LEMMA DoneBy ==
    ASSUME BookingInv, JobsInv, WorkersInv, [Next]_vars, NEW j \in Job,
           jobs'[j].status = "SUCCEEDED", jobs[j].status # "SUCCEEDED"
    PROVE  \E w \in Worker : worker[w].on = j /\ Succeed(w)
<1> DEFINE Old == jobs[j].status = "SUCCEEDED"
<1>1. ASSUME NEW i, NEW row, row.status # "SUCCEEDED", jobs' = [jobs EXCEPT ![i] = row]
      PROVE  Old
  BY <1>1 DEF JobsInv
<1>2. \A n : Row("PENDING", n).status # "SUCCEEDED"
  BY DEF Row
<1>3. ASSUME NEW w \in Worker, Fail(w)
      PROVE  Old
  <2>1. /\ worker[w].on \in Job
        /\ jobs' = [jobs EXCEPT ![worker[w].on].status = IF Dead(w) THEN "DEAD_LETTER" ELSE "FAILED"]
    BY <1>3 DEF Fail, WorkersInv, WorkerType
  <2>2. PICK s \in {"DEAD_LETTER", "FAILED"} : s = IF Dead(w) THEN "DEAD_LETTER" ELSE "FAILED"
    OBVIOUS
  <2>3. jobs' = [jobs EXCEPT ![worker[w].on].status = s]
    BY <2>1, <2>2
  <2> QED
    BY <2>1, <2>2, <2>3 DEF JobsInv, RowType
<1>4. ASSUME NEW w \in Worker, Tick(w)
      PROVE  Old
  BY <1>4, TickFacts
<1>5. ASSUME NEW w \in Worker, Record(w)
      PROVE  Old
  <2>1. UNCHANGED jobs \/ \E i : jobs' = [jobs EXCEPT ![i] = Row("PENDING", 0)]
    BY <1>5 DEF Record, Enqueue
  <2> QED
    BY <1>1, <1>2, <2>1
<1>6. ASSUME NEW w \in Worker, Start(w) \/ Deliver(w) \/ RecordFailure(w) \/ Crash(w)
      PROVE  UNCHANGED jobs
  <2>1. Start(w) => UNCHANGED jobs
    BY DEF Start
  <2>2. Deliver(w) => UNCHANGED jobs
    BY DEF Deliver
  <2>3. RecordFailure(w) \/ Crash(w) => UNCHANGED jobs
    BY DEF RecordFailure, Crash
  <2> QED
    BY <1>6, <2>1, <2>2, <2>3
<1>7. MarkNoShow \/ Desk \/ UNCHANGED vars => UNCHANGED jobs
  BY DEF MarkNoShow, Desk, vars
<1>8. Modify \/ Cancel => \E i : jobs' = [jobs EXCEPT ![i] = Row("PENDING", 0)]
  BY DEF Modify, Cancel, Enqueue
<1>9. EnqueueReconcile => \E i, n : jobs' = [jobs EXCEPT ![i] = Row("PENDING", n)]
  BY DEF EnqueueReconcile
<1>10. \A i \in Job : RetryJob(i) => \E n : jobs' = [jobs EXCEPT ![i] = Row("PENDING", n)]
  BY DEF RetryJob
<1>11. ASSUME NEW w \in Worker, Succeed(w)
       PROVE  worker[w].on = j
  <2>1. worker[w].on \in Job /\ jobs' = [jobs EXCEPT ![worker[w].on].status = "SUCCEEDED"]
    BY <1>11 DEF Succeed, WorkersInv, WorkerType
  <2> QED
    BY <2>1 DEF JobsInv
<1>12. UNCHANGED jobs => Old
  OBVIOUS
<1>13. (\E i, n : jobs' = [jobs EXCEPT ![i] = Row("PENDING", n)]) => Old
  BY <1>1, <1>2
<1>14. CASE \E w \in Worker : Succeed(w)
  BY <1>11, <1>14
<1>15. CASE \A w \in Worker : ~Succeed(w)
  <2>1. Old
    <3> HIDE DEF Old
    <3> QED
      BY <1>3, <1>4, <1>5, <1>6, <1>7, <1>8, <1>9, <1>10, <1>12, <1>13, <1>15, Steps
  <2> QED
    BY <2>1
<1> QED
  BY <1>14, <1>15
\* A job is enqueued by the request that changed the booking, by reconciliation,
\* or, the mail of a voucher, by the worker that drew it.
LEMMA EnqueuedBy ==
    ASSUME BookingInv, JobsInv, WorkersInv, [Next]_vars, NEW j \in Job,
           jobs'[j].status # "none", ~Live(j)
    PROVE  \/ /\ j = Push(booking.version + 1) /\ booking.version + 1 \in 1..MaxVersion
              /\ booking'.version = booking.version + 1
           \/ j = Reconcile
           \/ \E w \in Worker : /\ Record(w) /\ worker[w].on = Voucher
                                /\ j = Email(worker[w].seen + 1)
<1> DEFINE Old == jobs'[j].status = "none"
<1>1. UNCHANGED jobs => Old
  BY DEF Live
<1>2. ASSUME NEW i, NEW row, i # j, jobs' = [jobs EXCEPT ![i] = row]
      PROVE  Old
  BY <1>2 DEF JobsInv, Live
<1>3. ASSUME NEW w \in Worker, Tick(w)
      PROVE  Old
  <2>1. DEFINE rows == Recover(Abandoned)
               claimed == Claimable(rows)
  <2>2. jobs'[j] = IF j \in claimed
                   THEN Row("PROCESSING", Min({rows[j].attempts + 1, MaxAttempts})) ELSE rows[j]
    BY <1>3 DEF Tick
  <2>3. j \notin Abandoned
    BY DEF Abandoned, Live
  <2>4. rows[j] = jobs[j]
    BY <2>3 DEF Recover
  <2>5. j \notin claimed
    BY <2>4 DEF Claimable, Live
  <2> QED
    BY <2>2, <2>4, <2>5 DEF Live
<1>4. ASSUME NEW w \in Worker, Succeed(w) \/ Fail(w)
      PROVE  Old
  <2>1. worker[w].at \notin {"idle", "claimed"}
    BY <1>4 DEF Succeed, Fail
  <2>2. worker[w].on # j
    BY <2>1 DEF WorkersInv, HandInv, HeldBy
  <2>3. worker[w].on \in Job
    BY DEF WorkersInv, WorkerType
  <2>4. CASE Succeed(w)
    <3>1. jobs' = [jobs EXCEPT ![worker[w].on].status = "SUCCEEDED"]
      BY <2>4 DEF Succeed
    <3> QED
      BY <2>2, <3>1 DEF JobsInv, Live
  <2>5. CASE Fail(w)
    <3>1. jobs' = [jobs EXCEPT ![worker[w].on].status =
                    IF Dead(w) THEN "DEAD_LETTER" ELSE "FAILED"]
      BY <2>5 DEF Fail
    <3> QED
      BY <2>2, <3>1 DEF JobsInv, Live
  <2> QED
    BY <1>4, <2>4, <2>5
<1>5. ASSUME NEW w \in Worker, Start(w) \/ Deliver(w) \/ RecordFailure(w) \/ Crash(w)
      PROVE  UNCHANGED jobs
  <2>1. Start(w) => UNCHANGED jobs
    BY DEF Start
  <2>2. Deliver(w) => UNCHANGED jobs
    BY DEF Deliver
  <2>3. RecordFailure(w) \/ Crash(w) => UNCHANGED jobs
    BY DEF RecordFailure, Crash
  <2> QED
    BY <1>5, <2>1, <2>2, <2>3
<1>6. MarkNoShow \/ Desk \/ UNCHANGED vars => UNCHANGED jobs
  BY DEF MarkNoShow, Desk, vars
<1>7. ASSUME NEW i \in Job, RetryJob(i)
      PROVE  Old
  <2>1. Live(i) /\ \E row : jobs' = [jobs EXCEPT ![i] = row]
    BY <1>7 DEF RetryJob
  <2>2. i # j
    BY <2>1
  <2> QED
    BY <1>2, <2>1, <2>2
<1>8. CASE Modify \/ Cancel
  <2>1. /\ booking.version < MaxVersion /\ booking'.version = booking.version + 1
        /\ jobs' = [jobs EXCEPT ![Push(booking.version + 1)] = Row("PENDING", 0)]
    BY <1>8 DEF Modify, Cancel, Change, Enqueue
  <2>2. booking.version + 1 \in 1..MaxVersion
    BY <2>1, OutboxAssumption DEF BookingInv
  <2>3. CASE j # Push(booking.version + 1)
    BY <1>2, <2>1, <2>3
  <2> QED
    BY <2>1, <2>2, <2>3
<1>9. CASE EnqueueReconcile
  <2>1. \E row : jobs' = [jobs EXCEPT ![Reconcile] = row]
    BY <1>9 DEF EnqueueReconcile
  <2> QED
    BY <1>2, <2>1
<1>10. CASE \E w \in Worker : Record(w)
  <2>1. PICK w \in Worker : Record(w)
    BY <1>10
  <2>2. IF worker[w].on = Voucher /\ ~Live(Email(worker[w].seen + 1))
        THEN jobs' = [jobs EXCEPT ![Email(worker[w].seen + 1)] = Row("PENDING", 0)]
        ELSE UNCHANGED jobs
    BY <2>1 DEF Record, Enqueue
  <2>3. CASE worker[w].on # Voucher \/ j # Email(worker[w].seen + 1)
    BY <1>1, <1>2, <2>2, <2>3
  <2> QED
    BY <2>1, <2>3
<1>11. CASE Old
  BY <1>11
<1> QED
  <2> HIDE DEF Old
  <2> QED
    BY <1>1, <1>3, <1>4, <1>5, <1>6, <1>7, <1>8, <1>9, <1>10, <1>11, Steps

\* A voucher job that is done left the mail of a voucher that exists.
LEMMA MailStep ==
    ASSUME BookingInv, JobsInv, VoucherInv, DeskInv, WorkersInv, VoucherIsMailed, [Next]_vars
    PROVE  VoucherIsMailed'
<1>1. JobsForward /\ VouchersForward
  BY JobsStep, VoucherStep
<1>2. (\E v \in 1..MaxVouchers : Live(Email(v)))
        => \E v \in 1..MaxVouchers : jobs'[Email(v)].status # "none"
  BY <1>1, JobFacts DEF JobsForward
<1>3. ASSUME jobs'[Voucher].status = "SUCCEEDED"
      PROVE  \E v \in 1..MaxVouchers : jobs'[Email(v)].status # "none"
  <2>1. CASE jobs[Voucher].status = "SUCCEEDED"
    BY <1>2, <2>1 DEF VoucherIsMailed
  <2>2. CASE jobs[Voucher].status # "SUCCEEDED"
    <3>1. PICK w \in Worker : worker[w].on = Voucher /\ Succeed(w)
      BY <1>3, <2>2, DoneBy, JobFacts
    <3>2. worker[w].at = "recorded"
      BY <3>1 DEF Succeed
    <3> QED
      BY <1>2, <3>1, <3>2 DEF WorkersInv, HandInv
  <2> QED
    BY <2>1, <2>2
<1>4. ASSUME NEW v \in 1..MaxVouchers, jobs'[Email(v)].status # "none"
      PROVE  voucher'[v] # "none"
  <2>1. CASE Live(Email(v))
    BY <1>1, <2>1 DEF VoucherIsMailed, VouchersForward
  <2>2. CASE ~Live(Email(v))
    <3>1. Email(v) \in Job /\ Email(v) # Reconcile /\ \A u \in 1..MaxVersion : Email(v) # Push(u)
      BY JobFacts
    <3>2. PICK w \in Worker : /\ Record(w) /\ worker[w].on = Voucher
                              /\ Email(v) = Email(worker[w].seen + 1)
      BY <1>4, <2>2, <3>1, EnqueuedBy
    <3>3. worker[w].seen + 1 \in 1..MaxVouchers /\ Drawn(worker[w].seen + 1)
      BY <3>2 DEF Record, Step, WorkersInv, HandInv
    <3>4. v = worker[w].seen + 1
      BY <3>2, <3>3, JobFacts
    <3> QED
      BY <1>1, <3>3, <3>4 DEF Drawn, VouchersForward
  <2> QED
    BY <2>1, <2>2
<1> QED
  BY <1>3, <1>4 DEF VoucherIsMailed, Live, Email, Voucher

-----------------------------------------------------------------------------
(***************************************************************************)
(* The theorems.                                                           *)
(***************************************************************************)

\* The initial states satisfy the invariant.
LEMMA OutboxInit == Init => OutboxInv
<1> SUFFICES ASSUME Init
             PROVE  OutboxInv
  OBVIOUS
<1> USE OutboxAssumption
<1>1. PICK first \in {{Push(1)}, {Voucher}, {Push(1), Voucher}} :
        /\ jobs = [j \in Job |-> CASE j \in first -> Row("PENDING", 0)
                                   [] j = Push(1) /\ j \notin first -> Row("SUCCEEDED", 1)
                                   [] OTHER -> NoRow]
        /\ channel = IF Push(1) \in first THEN 0 ELSE 1
        /\ booking = [version |-> 1, status |-> "CONFIRMED",
                      sync |-> IF Push(1) \in first THEN "PENDING" ELSE "SYNCED"]
  BY DEF Init
<1>2. BookingInv
  BY <1>1 DEF BookingInv, Init
<1>3. /\ Row("PENDING", 0) \in RowType /\ Row("SUCCEEDED", 1) \in RowType /\ NoRow \in RowType
      /\ Row("PENDING", 0).status = "PENDING" /\ NoRow.status = "none"
  BY DEF Row, NoRow, RowType, JobStatus
<1>4. JobsInv
  BY <1>1, <1>3 DEF JobsInv
<1>5. voucher = [v \in 1..MaxVouchers |-> "none"]
  BY DEF Init
<1>6. VoucherInv
  <2>1. \A v \in 1..MaxVouchers : voucher[v] = "none" /\ ~(v <= 0)
    BY <1>5
  <2> QED
    BY <1>5, <2>1 DEF VoucherInv
<1>7. DeskInv
  BY DEF Init, DeskInv
<1>8. WorkersInv
  <2>1. Idle \in WorkerType /\ Idle.at = "idle" /\ Idle.batch = {}
    BY JobFacts DEF Idle, WorkerType
  <2>2. worker = [w \in Worker |-> Idle]
    BY DEF Init
  <2>3. \A w \in Worker : worker[w] = Idle
    BY <2>2
  <2>4. \A w \in Worker : HandInv(w)
    BY <2>1, <2>3 DEF HandInv
  <2> QED
    BY <2>1, <2>2, <2>4 DEF WorkersInv
<1>9. VoucherIsMailed
  <2>1. Voucher \in Job /\ Voucher # Push(1)
    BY JobFacts
  <2>2. jobs[Voucher].status # "SUCCEEDED"
    BY <1>1, <1>3, <2>1
  <2>3. \A v \in 1..MaxVouchers : ~Live(Email(v))
    <3>1. \A v \in 1..MaxVouchers : Email(v) \in Job /\ Email(v) # Voucher /\ Email(v) # Push(1)
      BY JobFacts
    <3> QED
      BY <1>1, <1>3, <3>1 DEF Live
  <2> QED
    BY <2>2, <2>3 DEF VoucherIsMailed
<1> QED
  BY <1>2, <1>4, <1>6, <1>7, <1>8, <1>9 DEF OutboxInv

\* The invariant of the outbox is inductive.
LEMMA OutboxInvariant == Spec => []OutboxInv
<1>1. OutboxInv /\ [Next]_vars => OutboxInv'
  <2> SUFFICES ASSUME OutboxInv, [Next]_vars
               PROVE  OutboxInv'
    OBVIOUS
  <2>1. BookingInv /\ JobsInv /\ VoucherInv /\ DeskInv /\ WorkersInv /\ VoucherIsMailed
    BY DEF OutboxInv
  <2> QED
    BY <2>1, BookingStep, JobsStep, VoucherStep, WorkersStep, MailStep DEF OutboxInv
<1> QED
  BY OutboxInit, <1>1, PTL DEF Spec

\* With every number of workers, drawing vouchers from two sides at once,
\* failing and crashing between any two writes, leaves one live voucher, without
\* a gap in the versions, and its mail queued.
THEOREM VouchersKept == Spec => []VouchersInOrder
<1>1. OutboxInv => VouchersInOrder
  <2> SUFFICES ASSUME OutboxInv
               PROVE  VouchersInOrder
    OBVIOUS
  <2>1. BookingInv /\ JobsInv /\ VoucherInv /\ DeskInv /\ WorkersInv /\ VoucherIsMailed
    BY DEF OutboxInv
  <2>2. {v \in 1..MaxVouchers : voucher[v] # "none"} = 1..Newest
    <3>1. Newest \in 0..MaxVouchers
      BY <2>1, NewestDrawn
    <3>2. \A v \in 1..MaxVouchers : voucher[v] # "none" <=> v <= Newest
      BY <2>1, NewestDrawn
    <3> QED
      BY <3>1, <3>2, OutboxAssumption
  <2>3. desk \in Never..MaxVouchers
    BY <2>1, OutboxAssumption DEF DeskInv, Drawn, Never
  <2>4. \A w \in Worker :
          /\ worker[w].at \in {"idle", "claimed", "started", "done", "recorded", "failed"}
          /\ worker[w].at = "idle" <=> worker[w].batch = {}
          /\ worker[w].at \notin {"idle", "claimed"} => worker[w].on \in HeldBy(w)
    BY <2>1 DEF WorkersInv, WorkerType, HandInv
  <2>5. OutboxTypeOK
    BY <2>1, <2>2, <2>3, <2>4
       DEF OutboxTypeOK, BookingInv, JobsInv, RowType, JobStatus, VoucherInv
  <2>6. OneLiveVoucher
    <3>1. DEFINE S == {v \in 1..MaxVouchers : voucher[v] = "live"}
    <3>2. CASE S = {}
      BY <3>2, FS_EmptySet DEF OneLiveVoucher
    <3>3. CASE S # {}
      <4>1. PICK v \in S : TRUE
        BY <3>3
      <4>2. S = {v}
        BY <2>1, <4>1 DEF VoucherInv
      <4>3. Cardinality(S) = 1
        <5> HIDE DEF S
        <5> QED
          BY <4>2, FS_Singleton, Zenon
      <4> QED
        BY <4>3 DEF OneLiveVoucher
    <3> QED
      BY <3>2, <3>3
  <2> QED
    BY <2>1, <2>5, <2>6 DEF VouchersInOrder
<1> QED
  BY OutboxInvariant, <1>1, PTL
-----------------------------------------------------------------------------
(***************************************************************************)
(* What the channel manager has heard, when one worker runs.               *)
(***************************************************************************)

\* The part of ChannelInv that a worker's hand must satisfy.
Heard(w) ==
    worker[w].at \notin {"idle", "claimed"} /\ Axis(worker[w].on) =>
        /\ worker[w].seen <= booking.version
        /\ worker[w].at = "started" => channel <= worker[w].seen
        /\ worker[w].at \in {"done", "recorded"} => channel >= worker[w].seen
        /\ worker[w].on.kind = "push" => worker[w].seen >= worker[w].on.n

\* A booking's version only grows, and only a delivery tells the channel of it.
LEMMA VersionGrows ==
    ASSUME OutboxInv, [Next]_vars
    PROVE  /\ booking'.version \in 1..MaxVersion /\ booking.version \in 1..MaxVersion
           /\ booking'.version >= booking.version
           /\ (\E w \in Worker : Deliver(w) /\ Axis(worker[w].on)) \/ channel' = channel
<1> USE DEF OutboxInv, BookingInv
<1>1. BookingInv'
  BY BookingStep
<1>2. booking'.version \in 1..MaxVersion /\ booking.version \in 1..MaxVersion
  BY <1>1
<1>3. Modify \/ Cancel \/ MarkNoShow => booking'.version = booking.version + 1 /\ channel' = channel
  BY DEF Modify, Cancel, MarkNoShow, Change
<1>4. EnqueueReconcile \/ Desk \/ UNCHANGED vars \/ (\E j \in Job : RetryJob(j))
        => UNCHANGED <<booking, channel>>
  BY DEF EnqueueReconcile, Desk, vars, RetryJob
<1>5. ASSUME NEW w \in Worker
      PROVE  /\ Tick(w) \/ Start(w) \/ Succeed(w) \/ Fail(w) \/ Crash(w) => UNCHANGED booking
             /\ Record(w) \/ RecordFailure(w) => booking'.version = booking.version
             /\ Deliver(w) => /\ UNCHANGED booking
                              /\ Axis(worker[w].on) \/ channel' = channel
  <2>1. Tick(w) => UNCHANGED booking
    BY DEF Tick
  <2>2. Start(w) => UNCHANGED booking
    BY DEF Start
  <2>3. Succeed(w) \/ Fail(w) \/ Crash(w) => UNCHANGED booking
    BY DEF Succeed, Fail, Crash
  <2>4. Record(w) => booking'.version = booking.version
    BY DEF Record
  <2>5. RecordFailure(w) => booking'.version = booking.version
    BY DEF RecordFailure
  <2>6. Deliver(w) => /\ UNCHANGED booking
                      /\ Axis(worker[w].on) \/ channel' = channel
    BY Delivered
  <2> QED
    BY <2>1, <2>2, <2>3, <2>4, <2>5, <2>6
<1> QED
  BY <1>2, <1>3, <1>4, <1>5, WorkerLeaves, Steps

\* With one worker, it delivers what is at least as new as what it delivered.
LEMMA ChannelGrows ==
    ASSUME OutboxInv, ChannelInv, [Next]_vars
    PROVE  channel' >= channel /\ channel \in Nat /\ channel' \in Nat
<1>1. channel \in Nat /\ BookingInv'
  BY BookingStep DEF OutboxInv, BookingInv
<1>2. channel' \in Nat
  BY <1>1 DEF BookingInv
<1>3. CASE \E w \in Worker : Deliver(w) /\ Axis(worker[w].on)
  <2>1. PICK w \in Worker : Deliver(w) /\ Axis(worker[w].on)
    BY <1>3
  <2>2. channel' = worker[w].seen /\ worker[w].at = "started"
    BY <2>1, Delivered DEF OutboxInv
  <2> QED
    BY <1>1, <1>2, <2>1, <2>2 DEF ChannelInv
<1> QED
  BY <1>1, <1>2, <1>3, VersionGrows

\* The worker's hand, after its own step.
LEMMA HeardStep ==
    ASSUME \A u, w \in Worker : u = w, OutboxInv, ChannelInv, [Next]_vars, NEW w \in Worker
    PROVE  Heard(w)'
<1>1. /\ worker[w] \in WorkerType /\ HandInv(w) /\ worker \in [Worker -> WorkerType]
      /\ BookingInv /\ JobsInv
  BY DEF OutboxInv, WorkersInv
<1>2. Heard(w)
  BY DEF ChannelInv, Heard
<1>3. worker[w].seen \in Nat /\ booking.version \in Nat /\ booking'.version \in Nat
      /\ booking'.version >= booking.version
  BY <1>1, VersionGrows DEF WorkerType
<1>4. ASSUME UNCHANGED <<worker, channel>>
      PROVE  Heard(w)'
  BY <1>2, <1>3, <1>4 DEF Heard, Axis
<1>5. ASSUME worker'[w].at \in {"idle", "claimed", "failed"},
             worker'[w].at = "failed" => /\ worker[w].at \notin {"idle", "claimed"}
                                         /\ worker'[w].on = worker[w].on
                                         /\ worker'[w].seen = worker[w].seen
      PROVE  Heard(w)'
  BY <1>2, <1>3, <1>5 DEF Heard, Axis
<1>6. Idle.at = "idle" /\ \A S : Busy(S).at = "claimed"
  BY DEF Idle, Busy
<1>7. ASSUME Leave(w)
      PROVE  worker'[w].at \in {"idle", "claimed"}
  <2>1. \E S : worker' = [worker EXCEPT ![w] = IF S = {} THEN Idle ELSE Busy(S)]
    <3> DEFINE S == {claim \in worker[w].batch : claim.job # worker[w].on}
    <3>1. worker' = [worker EXCEPT ![w] = IF S = {} THEN Idle ELSE Busy(S)]
      BY <1>7 DEF Leave, Busy
    <3> HIDE DEF S
    <3> QED
      BY <3>1
  <2> QED
    BY <1>1, <1>6, <2>1
<1>8. CASE Tick(w)
  <2>1. PICK S : worker' = [worker EXCEPT ![w] = Busy(S)]
    BY <1>1, <1>8, TickFacts
  <2> QED
    BY <1>1, <1>5, <1>6, <2>1
<1>9. CASE Crash(w)
  <2>1. worker' = [worker EXCEPT ![w] = Idle]
    BY <1>9 DEF Crash
  <2> QED
    BY <1>1, <1>5, <1>6, <2>1
<1>10. CASE Start(w)
  <2>1. PICK j \in HeldBy(w) :
          worker' = [worker EXCEPT ![w].at = "started", ![w].on = j,
                      ![w].seen = IF Axis(j) THEN booking.version ELSE Newest]
    BY <1>10, Zenon DEF Start
  <2>2. UNCHANGED <<booking, channel>>
    BY <1>10 DEF Start
  <2>3. PICK n : n = IF Axis(j) THEN booking.version ELSE Newest
    OBVIOUS
  <2>4. worker' = [worker EXCEPT ![w].at = "started", ![w].on = j, ![w].seen = n]
    BY <2>1, <2>3
  <2>5. worker'[w].at = "started" /\ worker'[w].on = j /\ worker'[w].seen = n
    BY <1>1, <2>4 DEF WorkerType
  <2>6. j \in Job /\ Live(j)
    BY <1>1 DEF HeldBy, HandInv, WorkerType, Claim
  <2>7. ASSUME j.kind = "push"
        PROVE  booking.version >= j.n
    <3>1. PICK v \in 1..MaxVersion : j = Push(v) /\ j.n = v
      BY <2>6, <2>7, JobFacts
    <3> QED
      BY <1>3, <2>6, <3>1 DEF ChannelInv
  <2>8. channel <= booking.version
    BY DEF ChannelInv
  <2>9. Axis(j) => n = booking.version
    BY <2>3
  <2> QED
    BY <1>3, <2>2, <2>5, <2>7, <2>8, <2>9 DEF Heard, Axis
<1>11. CASE Deliver(w)
  <2>1. PICK to : /\ to = IF worker[w].on.kind = "email" THEN "recorded" ELSE "done"
                  /\ worker[w].at = "started" /\ worker' = [worker EXCEPT ![w].at = to]
    BY <1>11 DEF Deliver, Step
  <2>2. /\ worker'[w].at = to /\ worker'[w].on = worker[w].on /\ worker'[w].seen = worker[w].seen
    BY <1>1, <2>1 DEF WorkerType
  <2>3. Axis(worker[w].on) => channel' = worker[w].seen /\ to = "done"
    <3>1. Axis(worker[w].on) => channel' = worker[w].seen
      BY <1>11, Delivered DEF OutboxInv
    <3>2. Axis(worker[w].on) => to = "done"
      BY <2>1 DEF Axis
    <3> QED
      BY <3>1, <3>2
  <2> QED
    BY <1>2, <1>3, <2>1, <2>2, <2>3 DEF Heard, Axis
<1>12. CASE Record(w)
  <2>1. /\ worker[w].at = "done" /\ worker' = [worker EXCEPT ![w].at = "recorded"]
        /\ UNCHANGED channel
    BY <1>12 DEF Record, Step
  <2>2. /\ worker'[w].at = "recorded" /\ worker'[w].on = worker[w].on
        /\ worker'[w].seen = worker[w].seen
    BY <1>1, <2>1 DEF WorkerType
  <2> QED
    BY <1>2, <1>3, <2>1, <2>2 DEF Heard, Axis
<1>13. CASE Succeed(w) \/ RecordFailure(w)
  BY <1>5, <1>7, <1>13 DEF Succeed, RecordFailure
<1>14. CASE Fail(w)
  <2>1. worker[w].at \notin {"idle", "claimed"}
    BY <1>14 DEF Fail
  <2>2. CASE Leave(w)
    BY <1>5, <1>7, <2>2
  <2>3. CASE Step(w, worker[w].at, "failed")
    <3>1. worker' = [worker EXCEPT ![w].at = "failed"]
      BY <2>3 DEF Step
    <3>2. /\ worker'[w].at = "failed" /\ worker'[w].on = worker[w].on
          /\ worker'[w].seen = worker[w].seen
      BY <1>1, <3>1 DEF WorkerType
    <3> QED
      BY <1>5, <2>1, <3>2
  <2> QED
    BY <1>14, <2>2, <2>3 DEF Fail
<1>15. Modify \/ Cancel \/ MarkNoShow \/ EnqueueReconcile \/ Desk \/ UNCHANGED vars
         => UNCHANGED <<worker, channel>>
  BY DEF Modify, Cancel, MarkNoShow, EnqueueReconcile, Desk, vars
<1>16. (\E j \in Job : RetryJob(j)) => UNCHANGED <<worker, channel>>
  BY DEF RetryJob
<1>17. ASSUME NEW u \in Worker, Tick(u) \/ Start(u) \/ Deliver(u) \/ Record(u) \/ Succeed(u)
                                \/ Fail(u) \/ RecordFailure(u) \/ Crash(u)
       PROVE  Tick(w) \/ Start(w) \/ Deliver(w) \/ Record(w) \/ Succeed(w)
                \/ Fail(w) \/ RecordFailure(w) \/ Crash(w)
  <2>1. u = w
    OBVIOUS
  <2> QED
    BY <1>17, <2>1
<1> QED
  BY <1>4, <1>8, <1>9, <1>10, <1>11, <1>12, <1>13, <1>14, <1>15, <1>16, <1>17, Steps

\* What the channel manager has heard keeps up with the pushes that are done.
LEMMA ChannelStep ==
    ASSUME \A u, w \in Worker : u = w, OutboxInv, ChannelInv, [Next]_vars
    PROVE  ChannelInv'
<1>1. BookingInv /\ JobsInv /\ WorkersInv
  BY DEF OutboxInv
<1>2. \A w \in Worker : Heard(w)'
  BY HeardStep
<1>3. channel' <= booking'.version
  <2>1. CASE \E w \in Worker : Deliver(w) /\ Axis(worker[w].on)
    <3>1. PICK w \in Worker : Deliver(w) /\ Axis(worker[w].on)
      BY <2>1
    <3>2. channel' = worker[w].seen /\ worker[w].at = "started" /\ worker[w].seen \in Nat
      BY <1>1, <3>1, Delivered
    <3>3. worker[w].seen <= booking.version
      BY <3>1, <3>2 DEF ChannelInv
    <3> QED
      BY <3>2, <3>3, VersionGrows
  <2>2. CASE channel' = channel
    BY <2>2, VersionGrows, ChannelGrows DEF ChannelInv
  <2> QED
    BY <2>1, <2>2, VersionGrows
<1>4. ASSUME NEW v \in 1..MaxVersion, jobs'[Push(v)].status # "none"
      PROVE  \/ Live(Push(v))
             \/ v = booking.version + 1 /\ booking'.version = booking.version + 1
  <2>1. CASE ~Live(Push(v))
    <3>1. Push(v) \in Job /\ Push(v) # Reconcile /\ Push(v).n = v
      BY JobFacts
    <3>2. \A w \in Worker : Record(w) /\ worker[w].on = Voucher
                              => Push(v) # Email(worker[w].seen + 1)
      BY <1>1, JobFacts DEF Record, Step, WorkersInv, HandInv
    <3>3. /\ Push(v) = Push(booking.version + 1) /\ booking.version + 1 \in 1..MaxVersion
          /\ booking'.version = booking.version + 1
      BY <1>1, <1>4, <2>1, <3>1, <3>2, EnqueuedBy
    <3>4. Push(booking.version + 1).n = booking.version + 1
      BY <3>3, JobFacts
    <3> QED
      BY <3>1, <3>3, <3>4
  <2> QED
    BY <2>1
<1>7. \A v \in 1..MaxVersion : jobs'[Push(v)].status # "none" => v <= booking'.version
  BY <1>4, VersionGrows DEF ChannelInv
<1>5. ASSUME NEW v \in 1..MaxVersion, jobs'[Push(v)].status = "SUCCEEDED"
      PROVE  channel' >= v
  <2>1. CASE jobs[Push(v)].status = "SUCCEEDED"
    <3>1. channel >= v
      BY <2>1 DEF ChannelInv
    <3> QED
      BY <3>1, ChannelGrows
  <2>2. CASE jobs[Push(v)].status # "SUCCEEDED"
    <3>1. Push(v) \in Job /\ Push(v).n = v /\ Push(v).kind = "push"
      BY JobFacts
    <3>2. PICK w \in Worker : worker[w].on = Push(v) /\ Succeed(w)
      BY <1>1, <1>5, <2>2, <3>1, DoneBy
    <3>3. worker[w].at = "recorded" /\ Axis(worker[w].on)
      BY <3>1, <3>2 DEF Succeed, Axis
    <3>4. channel >= worker[w].seen /\ worker[w].seen >= v
      BY <3>1, <3>2, <3>3 DEF ChannelInv
    <3>5. worker[w].seen \in Nat
      BY <1>1 DEF WorkersInv, WorkerType
    <3> QED
      BY <3>4, <3>5, ChannelGrows
  <2> QED
    BY <2>1, <2>2
<1>6. \E a \in 1..MaxVersion :
        /\ jobs'[Push(a)].status # "none"
        /\ \A v \in 1..MaxVersion : jobs'[Push(v)].status # "none" => v <= a
  <2>1. PICK a \in 1..MaxVersion :
          Live(Push(a)) /\ \A v \in 1..MaxVersion : Live(Push(v)) => v <= a
    BY DEF ChannelInv
  <2>2. jobs'[Push(a)].status # "none"
    BY <1>1, <2>1, JobsStep, JobFacts DEF JobsForward
  <2>3. CASE \E v \in 1..MaxVersion : jobs'[Push(v)].status # "none" /\ ~Live(Push(v))
    <3>1. PICK v \in 1..MaxVersion : jobs'[Push(v)].status # "none" /\ ~Live(Push(v))
      BY <2>3
    <3>2. v = booking'.version
      BY <1>4, <3>1
    <3> QED
      BY <1>7, <3>1, <3>2
  <2>4. CASE \A v \in 1..MaxVersion : jobs'[Push(v)].status # "none" => Live(Push(v))
    BY <2>1, <2>2, <2>4
  <2> QED
    BY <2>3, <2>4
<1> QED
  BY <1>2, <1>3, <1>5, <1>6, <1>7 DEF ChannelInv, Heard, Live, Push

\* A booking just made was not heard of, or was pushed.
LEMMA ChannelStart == Init => ChannelInv
<1> SUFFICES ASSUME Init
             PROVE  ChannelInv
  OBVIOUS
<1>1. PICK first \in {{Push(1)}, {Voucher}, {Push(1), Voucher}} :
        /\ jobs = [j \in Job |-> CASE j \in first -> Row("PENDING", 0)
                                   [] j = Push(1) /\ j \notin first -> Row("SUCCEEDED", 1)
                                   [] OTHER -> NoRow]
        /\ channel = IF Push(1) \in first THEN 0 ELSE 1
        /\ booking = [version |-> 1, status |-> "CONFIRMED",
                      sync |-> IF Push(1) \in first THEN "PENDING" ELSE "SYNCED"]
  BY DEF Init
<1>2. /\ Row("PENDING", 0).status = "PENDING" /\ Row("SUCCEEDED", 1).status = "SUCCEEDED"
      /\ NoRow.status = "none"
  BY DEF Row, NoRow
<1>3. \A v \in 1..MaxVersion : /\ Push(v) \in Job /\ Push(v) # Voucher
                               /\ v # 1 => Push(v) # Push(1)
  <2>1. \A v \in 1..MaxVersion : Push(v) \in Job /\ Push(v) # Voucher /\ Push(v).n = v
    BY JobFacts
  <2>2. 1 \in 1..MaxVersion
    BY OutboxAssumption
  <2> QED
    BY <2>1, <2>2
<1>4. 1 \in 1..MaxVersion /\ channel <= booking.version
  BY <1>1, OutboxAssumption
<1>5. \A v \in 1..MaxVersion : v # 1 => jobs[Push(v)] = NoRow
  BY <1>1, <1>3
<1>6. Push(1) \notin first => jobs[Push(1)] = Row("SUCCEEDED", 1) /\ channel = 1
  BY <1>1, <1>3, <1>4
<1>7. Push(1) \in first => jobs[Push(1)] = Row("PENDING", 0)
  BY <1>1, <1>3, <1>4
<1>8. \A w \in Worker : worker[w].at = "idle"
  BY DEF Init, Idle
<1>9. booking.version = 1
  BY <1>1
<1>10. \A v \in 1..MaxVersion : /\ Live(Push(v)) => v <= booking.version
                                /\ jobs[Push(v)].status = "SUCCEEDED" => channel >= v
  BY <1>1, <1>2, <1>5, <1>6, <1>7, <1>9 DEF Live
<1>11. Live(Push(1)) /\ \A v \in 1..MaxVersion : Live(Push(v)) => v <= 1
  BY <1>1, <1>2, <1>6, <1>7, <1>9, <1>10 DEF Live
<1> QED
  BY <1>4, <1>8, <1>10, <1>11 DEF ChannelInv

\* So it is an invariant.
LEMMA ChannelInvariant ==
    ASSUME \A u, w \in Worker : u = w
    PROVE  Spec => []ChannelInv
<1>1. OutboxInv /\ ChannelInv /\ [Next]_vars => ChannelInv'
  BY ChannelStep
<1> QED
  BY <1>1, ChannelStart, OutboxInvariant, PTL DEF Spec

\* With one worker, whatever fails, crashes, is retried out of order or changes
\* between the read of a payload and its delivery: when every push of a booking
\* is recorded as done, the channel manager has heard its latest announced
\* version.
THEOREM ChannelHearsAll ==
    ASSUME \A u, w \in Worker : u = w
    PROVE  Spec => []ChannelCaughtUp
<1>1. OutboxInv /\ ChannelInv => ChannelCaughtUp
  <2> SUFFICES ASSUME OutboxInv, ChannelInv,
                      \A v \in 1..Announced : Live(Push(v)) => jobs[Push(v)].status = "SUCCEEDED"
               PROVE  channel >= Announced
    BY DEF ChannelCaughtUp
  <2>1. PICK a \in 1..MaxVersion :
          Live(Push(a)) /\ \A v \in 1..MaxVersion : Live(Push(v)) => v <= a
    BY DEF ChannelInv
  <2>2. Announced \in {v \in 1..MaxVersion : Live(Push(v))}
    <3> DEFINE S == {v \in 1..MaxVersion : Live(Push(v))}
    <3>1. a \in S /\ \A y \in S : a >= y
      BY <2>1
    <3>2. Max(S) \in S
      <4> HIDE DEF S
      <4>1. \E x \in S : \A y \in S : x >= y
        BY <3>1
      <4> QED
        BY <4>1 DEF Max
    <3> QED
      BY <3>2 DEF Announced
  <2>3. Announced \in 1..Announced
    BY <2>2
  <2> QED
    BY <2>2, <2>3 DEF ChannelInv
<1> QED
  BY <1>1, ChannelInvariant, OutboxInvariant, PTL

\* With one worker, no retried push brings the channel manager older data than
\* it has.
THEOREM ChannelOnlyAdvances ==
    ASSUME \A u, w \in Worker : u = w
    PROVE  Spec => ChannelNeverGoesBack
<1>1. OutboxInv /\ ChannelInv /\ [Next]_vars => [channel' >= channel]_channel
  BY ChannelGrows
<1> QED
  BY <1>1, ChannelInvariant, OutboxInvariant, PTL DEF Spec, ChannelNeverGoesBack
=============================================================================
