------------------------------- MODULE Outbox -------------------------------
(***************************************************************************)
(* The outbox worker (jobs.service.ts) and what it does for one booking:   *)
(* pushes to the channel manager, the voucher and its mail.  The requests  *)
(* that change the booking enqueue their job in the same transaction.      *)
(***************************************************************************)
EXTENDS Integers, FiniteSets, FiniteSetsExt

CONSTANTS
    Worker,        \* the processes that run a worker
    MaxVersion,    \* bound: versions of the booking
    MaxVouchers,   \* bound: versions of its voucher
    MaxAttempts,   \* JOB_MAX_ATTEMPTS
    MaxFaults      \* bound: crashes, reconciliations and retries by hand

ASSUME OutboxAssumption ==
    /\ MaxVersion \in Nat \ {0} /\ MaxVouchers \in Nat
    /\ MaxAttempts \in Nat \ {0} /\ MaxFaults \in Nat

VARIABLES
    booking,    \* version, status and syncStatus of the reservation
    jobs,       \* the outbox: a row for every job that exists
    voucher,    \* "none", "live" or "superseded", by version
    worker,     \* what each worker holds in memory
    desk,       \* a voucher generated on request: the version it read
    channel,    \* the booking's version the channel manager heard last
    faults

vars == <<booking, jobs, voucher, worker, desk, channel, faults>>

Push(v) == [kind |-> "push", n |-> v]            \* booking, modification, cancellation
Reconcile == [kind |-> "reconcile", n |-> 1]
Voucher == [kind |-> "voucher", n |-> 1]
Email(v) == [kind |-> "email", n |-> v]
Job == {Push(v) : v \in 1..MaxVersion} \cup {Reconcile, Voucher}
         \cup {Email(v) : v \in 1..MaxVouchers}
Axis(j) == j.kind \in {"push", "reconcile"}
Live(j) == jobs[j].status # "none"

Idle == [at |-> "idle", batch |-> {}, on |-> Voucher, seen |-> 0]
Never == -1
Row(status, attempts) == [status |-> status, attempts |-> attempts]
NoRow == Row("none", 0)

\* Creates the job's row, in the transaction of the request.
Enqueue(j) == jobs' = [jobs EXCEPT ![j] = Row("PENDING", 0)]
Superseded == [v \in DOMAIN voucher |->
                IF voucher[v] = "live" THEN "superseded" ELSE voucher[v]]
Newest == Max({0} \cup {v \in DOMAIN voucher : voucher[v] # "none"})

\* A booking just made, its push enqueued, and its voucher with it if a wallet
\* paid; or one pushed before, whose payment has just enqueued its voucher.
Init ==
    /\ \E first \in {{Push(1)}, {Voucher}, {Push(1), Voucher}} :
        /\ jobs = [j \in Job |-> CASE j \in first -> Row("PENDING", 0)
                                  [] j = Push(1) /\ j \notin first -> Row("SUCCEEDED", 1)
                                  [] OTHER -> NoRow]
        /\ channel = IF Push(1) \in first THEN 0 ELSE 1
        /\ booking = [version |-> 1, status |-> "CONFIRMED",
                      sync |-> IF Push(1) \in first THEN "PENDING" ELSE "SYNCED"]
    /\ voucher = [v \in 1..MaxVouchers |-> "none"]
    /\ worker = [w \in Worker |-> Idle]
    /\ desk = Never /\ faults = 0

-----------------------------------------------------------------------------
\* Requests.
Change(status) ==
    /\ booking.version < MaxVersion
    /\ booking.status \in {"CONFIRMED", "MODIFIED"}
    /\ booking' = [version |-> booking.version + 1, status |-> status, sync |-> "PENDING"]

Modify ==
    /\ Change("MODIFIED")
    /\ Enqueue(Push(booking.version + 1))
    /\ UNCHANGED <<voucher, worker, desk, channel, faults>>

Cancel ==
    /\ Change("CANCELLED")
    /\ voucher' = Superseded
    /\ Enqueue(Push(booking.version + 1))
    /\ UNCHANGED <<worker, desk, channel, faults>>

\* A no-show asks for a sync and enqueues none.
MarkNoShow ==
    /\ Change("NO_SHOW")
    /\ UNCHANGED <<jobs, voucher, worker, desk, channel, faults>>

\* Reconciliation upserts a push of its own; a row it finds keeps its attempts.
EnqueueReconcile ==
    /\ booking.status = "CONFIRMED" /\ booking.sync = "PENDING"
    /\ faults < MaxFaults /\ faults' = faults + 1
    /\ jobs' = [jobs EXCEPT ![Reconcile] = Row("PENDING", @.attempts)]
    /\ UNCHANGED <<booking, voucher, worker, desk, channel>>

\* An administrator retries a job, whatever its status.
RetryJob(j) ==
    /\ Live(j) /\ faults < MaxFaults /\ faults' = faults + 1
    /\ jobs' = [jobs EXCEPT ![j] = Row("PENDING", @.attempts)]
    /\ UNCHANGED <<booking, voucher, worker, desk, channel>>

\* The two halves of a voucher's generation: the version is read before the
\* document is drawn, and the unique version is written after it.
CanCreate(n) == n + 1 \in DOMAIN voucher /\ voucher[n + 1] = "none"
\* Mutant: the earlier versions stay live.
CreateVoucherOnly(n) == voucher' = [voucher EXCEPT ![n + 1] = "live"]
CreateVoucher(n) == voucher' = [Superseded EXCEPT ![n + 1] = "live"]

DeskGenerate ==
    \/ /\ desk = Never /\ Newest < MaxVouchers
       /\ desk' = Newest
       /\ UNCHANGED voucher
    \/ /\ desk # Never
       /\ desk' = Never
       /\ IF CanCreate(desk) THEN CreateVoucher(desk) ELSE UNCHANGED voucher

Desk == DeskGenerate /\ UNCHANGED <<booking, jobs, worker, channel, faults>>

-----------------------------------------------------------------------------
\* The worker.
HeldBy(w) == {claim.job : claim \in worker[w].batch}
Abandoned == {j \in Job : jobs[j].status = "PROCESSING" /\ \A w \in Worker : j \notin HeldBy(w)}

\* One tick: leases that ran out are recovered, then every open job is claimed.
\* A failed job may be due at once: its backoff only makes the next tick later.
\* Attempts are counted up to the maximum, beyond which they tell nothing.
Recover(S) == [j \in Job |-> IF j \in S THEN Row("FAILED", jobs[j].attempts) ELSE jobs[j]]
\* Mutant: a failed job is not taken up again.
ClaimPending(rows) == {j \in Job : rows[j].status = "PENDING"}
Claimable(rows) == {j \in Job : rows[j].status \in {"PENDING", "FAILED"}}

Tick(w) ==
    /\ worker[w].at = "idle"
    /\ LET rows == Recover(Abandoned)
           claimed == Claimable(rows)
           tried(j) == Min({rows[j].attempts + 1, MaxAttempts})
       IN  /\ claimed # {}
           /\ jobs' = [j \in Job |-> IF j \in claimed THEN Row("PROCESSING", tried(j)) ELSE rows[j]]
           /\ worker' = [worker EXCEPT ![w] =
                [Idle EXCEPT !.at = "claimed",
                             !.batch = {[job |-> j, attempts |-> tried(j)] : j \in claimed}]]
    /\ UNCHANGED <<booking, voucher, desk, channel, faults>>

Step(w, from, to) == worker[w].at = from /\ worker' = [worker EXCEPT ![w].at = to]

\* Mutant: the payload is the one the job was enqueued with.
StartAsEnqueued(w) ==
    /\ worker[w].at = "claimed"
    /\ \E j \in HeldBy(w) :
        worker' = [worker EXCEPT ![w].at = "started", ![w].on = j,
                    ![w].seen = IF Axis(j) THEN j.n ELSE Newest]
    /\ UNCHANGED <<booking, jobs, voucher, desk, channel, faults>>

\* The payload is read when the job is done, not when it was enqueued.
Start(w) ==
    /\ worker[w].at = "claimed"
    /\ \E j \in HeldBy(w) :
        worker' = [worker EXCEPT ![w].at = "started", ![w].on = j,
                    ![w].seen = IF Axis(j) THEN booking.version ELSE Newest]
    /\ UNCHANGED <<booking, jobs, voucher, desk, channel, faults>>

Deliver(w) ==
    /\ Step(w, "started", IF worker[w].on.kind = "email" THEN "recorded" ELSE "done")
    /\ CASE Axis(worker[w].on) -> channel' = worker[w].seen /\ UNCHANGED voucher
         [] worker[w].on = Voucher -> /\ CanCreate(worker[w].seen)
                                      /\ CreateVoucher(worker[w].seen)
                                      /\ UNCHANGED channel
         [] OTHER -> UNCHANGED <<channel, voucher>>
    /\ UNCHANGED <<booking, jobs, desk, faults>>

\* Mutant: the mail is left to somebody else.
RecordOnly(w) ==
    /\ Step(w, "done", "recorded")
    /\ booking' = IF Axis(worker[w].on) THEN [booking EXCEPT !.sync = "SYNCED"] ELSE booking
    /\ UNCHANGED <<jobs, voucher, desk, channel, faults>>

\* What follows from the job: the sync status, or the mail of the voucher.
Record(w) ==
    /\ Step(w, "done", "recorded")
    /\ booking' = IF Axis(worker[w].on) THEN [booking EXCEPT !.sync = "SYNCED"] ELSE booking
    /\ LET mail == Email(worker[w].seen + 1)
       IN  IF worker[w].on = Voucher /\ ~Live(mail) THEN Enqueue(mail) ELSE UNCHANGED jobs
    /\ UNCHANGED <<voucher, desk, channel, faults>>

\* Leaves the job and turns to the next of the batch, or to the next tick.
Leave(w) ==
    LET rest == {claim \in worker[w].batch : claim.job # worker[w].on}
    IN  worker' = [worker EXCEPT ![w] =
            IF rest = {} THEN Idle ELSE [Idle EXCEPT !.at = "claimed", !.batch = rest]]

\* The row is written by id: whoever holds it now, whatever its status.
Succeed(w) ==
    /\ worker[w].at = "recorded"
    /\ jobs' = [jobs EXCEPT ![worker[w].on].status = "SUCCEEDED"]
    /\ Leave(w)
    /\ UNCHANGED <<booking, voucher, desk, channel, faults>>

\* A push that the channel refused, or whose answer was lost; a mail likewise.
Dead(w) == \E claim \in worker[w].batch :
             claim.job = worker[w].on /\ claim.attempts >= MaxAttempts

\* Mutant: a job that used up its attempts is filed as done.
FailAsDone(w) ==
    /\ worker[w].at \in {"started", "done", "recorded"}
    /\ IF Axis(worker[w].on) THEN Step(w, worker[w].at, "failed") ELSE Leave(w)
    /\ jobs' = [jobs EXCEPT ![worker[w].on].status = IF Dead(w) THEN "SUCCEEDED" ELSE "FAILED"]
    /\ UNCHANGED <<booking, voucher, desk, channel, faults>>

Fail(w) ==
    /\ worker[w].at \in {"started", "done", "recorded"}
    /\ IF Axis(worker[w].on) THEN Step(w, worker[w].at, "failed") ELSE Leave(w)
    /\ jobs' = [jobs EXCEPT ![worker[w].on].status = IF Dead(w) THEN "DEAD_LETTER" ELSE "FAILED"]
    /\ UNCHANGED <<booking, voucher, desk, channel, faults>>

\* Mutant: the booking takes the job's status for its own.
RecordFailureAsJob(w) ==
    /\ worker[w].at = "failed"
    /\ booking' = [booking EXCEPT !.sync = jobs[worker[w].on].status]
    /\ Leave(w)
    /\ UNCHANGED <<jobs, voucher, desk, channel, faults>>

RecordFailure(w) ==
    /\ worker[w].at = "failed"
    /\ booking' = [booking EXCEPT !.sync = IF Dead(w) THEN "DEAD_LETTER" ELSE "RETRY"]
    /\ Leave(w)
    /\ UNCHANGED <<jobs, voucher, desk, channel, faults>>

\* The process ends: its rows stay PROCESSING until their lease runs out.
Crash(w) ==
    /\ worker[w].at # "idle" /\ faults < MaxFaults /\ faults' = faults + 1
    /\ worker' = [worker EXCEPT ![w] = Idle]
    /\ UNCHANGED <<booking, jobs, voucher, desk, channel>>

Work(w) == Start(w) \/ Deliver(w) \/ Record(w) \/ Succeed(w) \/ Fail(w) \/ RecordFailure(w)

Next ==
    \/ Modify \/ Cancel \/ MarkNoShow \/ EnqueueReconcile \/ Desk
    \/ \E j \in Job : RetryJob(j)
    \/ \E w \in Worker : Tick(w) \/ Work(w) \/ Crash(w)

Spec == Init /\ [][Next]_vars

\* The interval timer fires for ever; requests need not come.
FairSpec ==
    /\ Spec
    /\ \A w \in Worker : WF_vars(Tick(w)) /\ WF_vars(Work(w))

-----------------------------------------------------------------------------
\* Every variable has its type; the vouchers' versions have no gap.
OutboxTypeOK ==
    /\ booking \in [version : 1..MaxVersion,
                    status : {"CONFIRMED", "MODIFIED", "CANCELLED", "NO_SHOW"},
                    sync : {"PENDING", "SYNCED", "RETRY", "DEAD_LETTER"}]
    /\ jobs \in [Job -> [status : {"none", "PENDING", "PROCESSING", "FAILED", "SUCCEEDED", "DEAD_LETTER"},
                         attempts : 0..MaxAttempts]]
    /\ voucher \in [1..MaxVouchers -> {"none", "live", "superseded"}]
    /\ {v \in 1..MaxVouchers : voucher[v] # "none"} = 1..Newest
    /\ desk \in Never..MaxVouchers /\ channel \in 0..MaxVersion /\ faults \in 0..MaxFaults
    /\ \A w \in Worker :
        /\ worker[w].at \in {"idle", "claimed", "started", "done", "recorded", "failed"}
        /\ worker[w].at = "idle" <=> worker[w].batch = {}
        /\ worker[w].at \notin {"idle", "claimed"} => worker[w].on \in HeldBy(w)

\* When every push of a booking is recorded as done, the channel manager has
\* heard its latest announced version: whatever failed, crashed, was retried
\* out of order, or changed between the read of a payload and its delivery.
\* With one worker; two may deliver their payloads in the other order.
Announced == Max({v \in 1..MaxVersion : Live(Push(v))})
ChannelCaughtUp ==
    (\A v \in 1..Announced : Live(Push(v)) => jobs[Push(v)].status = "SUCCEEDED")
      => channel >= Announced

\* A booking has at most one voucher that is not superseded, though the desk
\* and the worker may draw one at the same time: each reads the version before
\* it writes it, and the unique version makes one of them fail.
OneLiveVoucher == Cardinality({v \in 1..MaxVouchers : voucher[v] = "live"}) <= 1

\* A voucher job that succeeded left the mail of a voucher that exists, even
\* when the worker died between drawing the voucher and queueing its mail.
VoucherIsMailed ==
    /\ jobs[Voucher].status = "SUCCEEDED" => \E v \in 1..MaxVouchers : Live(Email(v))
    /\ \A v \in 1..MaxVouchers : Live(Email(v)) => voucher[v] # "none"

\* Drawing vouchers from two sides at once, failing and crashing between any
\* two writes, leaves one live voucher, without a gap in the versions, and its
\* mail queued.
VouchersInOrder == OutboxTypeOK /\ OneLiveVoucher /\ VoucherIsMailed

\* A retried push never brings the channel manager older data than it has.
ChannelNeverGoesBack == [][channel' >= channel]_channel

\* Once the requests and the faults stop, every job ends as done or as a dead
\* letter an administrator sees: none stays with a dead worker or in a backoff,
\* so that, with ChannelCaughtUp, a cancellation is reported or seen as failed.
OutboxDrains ==
    <>[](\A j \in Job : jobs[j].status \in {"none", "SUCCEEDED", "DEAD_LETTER"})
=============================================================================
