------------------------------ MODULE FencedJobs ------------------------------
(***************************************************************************)
(* The persistent job engine (backend/fund_kb/jobs.py), with the job       *)
(* operations of api_tasks.py and the transports of celery_app.py.  The    *)
(* database row of a job is the authority; processes only carry job ids.   *)
(* `attempts' is the fencing token: a claim takes the next number, and     *)
(* every later transaction of that worker is conditional on it.            *)
(*                                                                         *)
(* One action is one database transaction, or one in-memory step between   *)
(* two of them, so the interleavings are those of the code's threads and   *)
(* processes.  A lease is "none", "held" (lease_until is in the future) or *)
(* "over" (it is past): the code only compares it with the clock, so the   *)
(* passage of time is the action LeaseEnds, and an extension of a held     *)
(* lease changes nothing.                                                  *)
(***************************************************************************)
EXTENDS Naturals

CONSTANTS
    Jobs,             \* rows of table jobs
    NoJob,            \* no row
    Answers,          \* the jobs of kind ANSWER: they drive a consultation run
    Manual,           \* the jobs whose payload carries manual_retry_only
    Procs,            \* processes that own a JobDispatcher
    Workers,          \* threads (local) or task slots (celery) that run jobs
    ProcOf,           \* the process of each worker
    Clients,          \* concurrent API requests that cancel or retry a job
    Celery,           \* TRUE: celery transport; FALSE: the local thread pool
    Serial,           \* TRUE: SQLite, BEGIN IMMEDIATE; FALSE: READ COMMITTED
    RetryDelays,      \* len(RETRY_DELAYS), the automatic retries
    MaxAsked,         \* bound on cancelJob and retryJob requests
    MaxUpsets,        \* bound on crashes, shutdowns, outages, lost deliveries
    MaxModelCalls     \* bound on the recorded model requests of a job

ASSUME SetsAssumption ==
    /\ NoJob \notin Jobs
    /\ Answers \subseteq Jobs
    /\ Manual \subseteq Jobs
    /\ ProcOf \in [Workers -> Procs]
ASSUME ModesAssumption == Celery \in BOOLEAN /\ Serial \in BOOLEAN
ASSUME BoundsAssumption ==
    /\ RetryDelays \in Nat
    /\ MaxAsked \in Nat
    /\ MaxUpsets \in Nat
    /\ MaxModelCalls \in Nat

VARIABLES
    job,       \* table jobs
    run,       \* state of the consultation run of an ANSWER job
    requests,  \* model_request_count of that run
    proc,      \* "up", "stopping" (close() was called) or "down"
    owed,      \* ids a process is about to hand to JobDispatcher.__call__
    inbox,     \* ids submitted and not yet picked up by a worker
    work,      \* what each worker is doing
    req,       \* a cancelJob or retryJob request between its read and commit
    asked,     \* cancelJob and retryJob requests so far
    upsets,    \* crashes and outages so far
    commits,   \* history: the attempts whose final transaction committed
    billed     \* history: the attempts that recorded a model request since a
               \* person last queued the job

vars == <<job, run, requests, proc, owed, inbox, work, req,
          asked, upsets, commits, billed>>

-------------------------------------------------------------------------------
Open == {"QUEUED", "RUNNING"}
Terminal == {"SUCCEEDED", "FAILED", "CANCELLED"}

\* error_code, as far as retryJob and the owner tell codes apart: "refused"
\* stands for the codes that forbid a retry (FILE_REJECTED, LEGAL_HOLD, ...).
Errors == {"none", "error", "refused", "CANCELLED", "MANUAL_RETRY_REQUIRED"}

\* What ends a handler early: a retryable exception, a stable refusal, another
\* failure, or the dispatcher's own Cancelled.
Exceptions == {"transient", "permanent", "refused", "cancelled"}

Row == [state: Open \cup Terminal \cup {"ABSENT"}, attempts: Nat,
        lease: {"none", "held", "over"}, cancel: BOOLEAN, error: Errors]

AbsentRow == [state |-> "ABSENT", attempts |-> 0, lease |-> "none",
              cancel |-> FALSE, error |-> "none"]

RunStates == {"QUEUED", "RUNNING", "COMPLETED", "FAILED", "CANCELLED"}

Idle == [pc |-> "idle", job |-> NoJob, attempt |-> 0, beating |-> FALSE, exc |-> "none"]

Attempt == [pc: {"claimed", "started", "working", "calling", "failing", "closing"},
            job: Jobs, attempt: Nat, beating: BOOLEAN, exc: Exceptions \cup {"none"}]

Work == {Idle} \cup Attempt

NoRequest == [op |-> "none", job |-> NoJob, row |-> AbsentRow, run |-> "QUEUED"]

Request == {NoRequest} \cup
           [op: {"cancel", "retry"}, job: Jobs, row: Row, run: RunStates]

TypeOK ==
    /\ job \in [Jobs -> Row]
    /\ run \in [Jobs -> RunStates]
    /\ requests \in [Jobs -> Nat]
    /\ proc \in [Procs -> {"up", "stopping", "down"}]
    /\ owed \in [Procs -> SUBSET Jobs]
    /\ inbox \in [Procs -> SUBSET Jobs]
    /\ work \in [Workers -> Work]
    /\ req \in [Clients -> Request]
    /\ asked \in Nat
    /\ upsets \in Nat
    /\ commits \in [Jobs -> SUBSET Nat]
    /\ billed \in [Jobs -> SUBSET Nat]

Init ==
    /\ job = [j \in Jobs |-> AbsentRow]
    /\ run = [j \in Jobs |-> "QUEUED"]
    /\ requests = [j \in Jobs |-> 0]
    /\ proc = [p \in Procs |-> "up"]
    /\ owed = [p \in Procs |-> {}]
    /\ inbox = [p \in Procs |-> {}]
    /\ work = [w \in Workers |-> Idle]
    /\ req = [c \in Clients |-> NoRequest]
    /\ asked = 0
    /\ upsets = 0
    /\ commits = [j \in Jobs |-> {}]
    /\ billed = [j \in Jobs |-> {}]

-------------------------------------------------------------------------------
(* The conditions the transactions test.                                   *)

Active(w) == work[w].pc # "idle"

\* Slip: the token is not part of the condition.
HoldsAnyAttempt(w) ==
    job[work[w].job].state = "RUNNING" /\ job[work[w].job].lease = "held"

\* WHERE attempts = :attempt AND state = 'RUNNING' AND lease_until > now
Holds(w) == LET row == job[work[w].job]
            IN  /\ row.attempts = work[w].attempt
                /\ row.state = "RUNNING"
                /\ row.lease = "held"

\* Slip: the fence does not look at cancel_requested.
FencedDespiteCancel(w) == Holds(w)

\* _fence returns: the row was renewed and no cancellation was requested.
Fenced(w) == Holds(w) /\ ~job[work[w].job].cancel

\* Slip: only a queued row may be claimed.
ClaimableQueued(j) == job[j].state = "QUEUED" /\ job[j].lease # "held"

\* state IN (QUEUED, RUNNING) AND (lease_until IS NULL OR lease_until <= now)
Claimable(j) == job[j].state \in Open /\ job[j].lease # "held"

\* On SQLite a request owns the write lock from its first statement, so no
\* other transaction runs between its read and its commit.
Unlocked == Serial => \A c \in Clients : req[c].op = "none"

\* The jobs of a process whose future is not done.
Pending(p) == inbox[p] \cup {work[w].job : w \in {x \in Workers : ProcOf[x] = p /\ Active(x)}}

Upset == upsets < MaxUpsets /\ upsets' = upsets + 1

-------------------------------------------------------------------------------
(* Creation, cancelJob and retryJob.                                       *)

\* create_job inside a request: the row and its outbox event are one commit,
\* and the request's process dispatches the id after it.
Create(p, j) ==
    /\ Unlocked
    /\ proc[p] = "up"
    /\ job[j].state = "ABSENT"
    /\ job' = [job EXCEPT ![j].state = "QUEUED"]
    /\ owed' = [owed EXCEPT ![p] = @ \cup {j}]
    /\ UNCHANGED <<run, requests, proc, inbox, work, req, asked, upsets, commits, billed>>

\* The request's SELECT.  Every refusal (409) rolls back and leaves no trace.
ReadCancel(c, j) ==
    /\ Unlocked
    /\ req[c].op = "none"
    /\ asked < MaxAsked
    /\ job[j].state \in Open
    /\ req' = [req EXCEPT ![c] = [op |-> "cancel", job |-> j, row |-> job[j], run |-> run[j]]]
    /\ asked' = asked + 1
    /\ UNCHANGED <<job, run, requests, proc, owed, inbox, work, upsets, commits, billed>>

ReadRetry(c, j) ==
    /\ Unlocked
    /\ req[c].op = "none"
    /\ asked < MaxAsked
    /\ job[j].state \in {"FAILED", "CANCELLED"}
    /\ job[j].error # "refused"
    /\ req' = [req EXCEPT ![c] = [op |-> "retry", job |-> j, row |-> job[j], run |-> run[j]]]
    /\ asked' = asked + 1
    /\ UNCHANGED <<job, run, requests, proc, owed, inbox, work, upsets, commits, billed>>

\* The request rolls back (an error, or its process dies).
Abandon(c) ==
    /\ req[c].op # "none"
    /\ req' = [req EXCEPT ![c] = NoRequest]
    /\ UNCHANGED <<job, run, requests, proc, owed, inbox, work, asked, upsets, commits, billed>>

\* The ORM writes only the attributes whose value the request changed; the
\* jobs table has no revision column, so nothing checks the others.
Column(stored, loaded, assigned) == IF assigned = loaded THEN stored ELSE assigned

Flush(stored, loaded, assigned) ==
    [state    |-> Column(stored.state, loaded.state, assigned.state),
     attempts |-> Column(stored.attempts, loaded.attempts, assigned.attempts),
     lease    |-> Column(stored.lease, loaded.lease, assigned.lease),
     cancel   |-> Column(stored.cancel, loaded.cancel, assigned.cancel),
     error    |-> Column(stored.error, loaded.error, assigned.error)]

\* Slip: a running job is ended at once.
CancelledAtOnce(row) == [row EXCEPT !.cancel = TRUE, !.state = "CANCELLED"]

\* What the two operations assign.  A queued job ends at once; a running one
\* is told.
CancelledRow(row) == [row EXCEPT !.cancel = TRUE,
                                 !.state = IF @ = "QUEUED" THEN "CANCELLED" ELSE @]

RequeuedRow(row) == [row EXCEPT !.state = "QUEUED", !.lease = "none",
                                !.cancel = FALSE, !.error = "none"]

CommitCancel(c) ==
    LET j == req[c].job
        loaded == req[c].row
    IN  /\ req[c].op = "cancel"
        /\ job' = [job EXCEPT ![j] = Flush(@, loaded, CancelledRow(loaded))]
        /\ run' = IF loaded.state = "QUEUED" /\ j \in Answers
                  THEN [run EXCEPT ![j] = Column(@, req[c].run, "CANCELLED")]
                  ELSE run
        /\ req' = [req EXCEPT ![c] = NoRequest]
        /\ UNCHANGED <<requests, proc, owed, inbox, work, asked, upsets, commits, billed>>

CommitRetry(c, p) ==
    LET j == req[c].job
        loaded == req[c].row
    IN  /\ req[c].op = "retry"
        /\ proc[p] = "up"
        /\ job' = [job EXCEPT ![j] = Flush(@, loaded, RequeuedRow(loaded))]
        /\ run' = IF j \in Answers
                  THEN [run EXCEPT ![j] = Column(@, req[c].run, "QUEUED")]
                  ELSE run
        /\ owed' = [owed EXCEPT ![p] = @ \cup {j}]
        /\ req' = [req EXCEPT ![c] = NoRequest]
        /\ billed' = [billed EXCEPT ![j] = {}]
        /\ UNCHANGED <<requests, proc, inbox, work, asked, upsets, commits>>

-------------------------------------------------------------------------------
(* Dispatch, recovery and the life of a process.                           *)

\* _recover_once: read the ids, then dispatch them one at a time.
Scan(p) ==
    /\ Unlocked
    /\ proc[p] = "up"
    /\ owed' = [owed EXCEPT ![p] = @ \cup {j \in Jobs : Claimable(j)}]
    /\ UNCHANGED <<job, run, requests, proc, inbox, work, req, asked, upsets, commits, billed>>

\* __call__: the local pool refuses a second future for a job that has one;
\* the broker accepts every message and hands it to any process.
Dispatch(p, j) ==
    /\ j \in owed[p]
    /\ owed' = [owed EXCEPT ![p] = @ \ {j}]
    /\ \/ /\ proc[p] = "up" /\ ~Celery
          /\ inbox' = IF j \in Pending(p) THEN inbox ELSE [inbox EXCEPT ![p] = @ \cup {j}]
       \/ /\ proc[p] = "up" /\ Celery
          /\ \E q \in Procs : inbox' = [inbox EXCEPT ![q] = @ \cup {j}]
       \/ /\ proc[p] # "up"     \* DISPATCHER_CLOSED
          /\ UNCHANGED inbox
    /\ UNCHANGED <<job, run, requests, proc, work, req, asked, upsets, commits, billed>>

\* The queue refuses the id, or the request that owed it goes away.
DispatchFails(p, j) ==
    /\ Upset
    /\ j \in owed[p]
    /\ owed' = [owed EXCEPT ![p] = @ \ {j}]
    /\ UNCHANGED <<job, run, requests, proc, inbox, work, req, asked, commits, billed>>

\* A message or a future that ends before its claim commits.
DeliveryLost(p, j) ==
    /\ Upset
    /\ j \in inbox[p]
    /\ inbox' = [inbox EXCEPT ![p] = @ \ {j}]
    /\ UNCHANGED <<job, run, requests, proc, owed, work, req, asked, commits, billed>>

\* The threads vanish between two transactions.  Futures die with the
\* process; celery acknowledges late, so the broker gets its messages back.
Crash(p) ==
    /\ Upset
    /\ proc[p] # "down"
    /\ proc' = [proc EXCEPT ![p] = "down"]
    /\ owed' = [owed EXCEPT ![p] = {}]
    /\ inbox' = [inbox EXCEPT ![p] = IF Celery THEN Pending(p) ELSE {}]
    /\ work' = [w \in Workers |-> IF ProcOf[w] = p THEN Idle ELSE work[w]]
    /\ UNCHANGED <<job, run, requests, req, asked, commits, billed>>

\* close(): no more dispatch, and the pool finishes what was submitted.
Stop(p) ==
    /\ Upset
    /\ proc[p] = "up"
    /\ proc' = [proc EXCEPT ![p] = "stopping"]
    /\ UNCHANGED <<job, run, requests, owed, inbox, work, req, asked, commits, billed>>

Halt(p) ==
    /\ proc[p] = "stopping"
    /\ Celery \/ inbox[p] = {}
    /\ \A w \in Workers : ProcOf[w] = p => ~Active(w)
    /\ proc' = [proc EXCEPT ![p] = "down"]
    /\ owed' = [owed EXCEPT ![p] = {}]
    /\ UNCHANGED <<job, run, requests, inbox, work, req, asked, upsets, commits, billed>>

Boot(p) ==
    /\ proc[p] = "down"
    /\ proc' = [proc EXCEPT ![p] = "up"]
    /\ UNCHANGED <<job, run, requests, owed, inbox, work, req, asked, upsets, commits, billed>>

\* Time passes.  A live heartbeat renews the lease every third of it.  Without
\* one the lease can end while the handler works, but not in the instant
\* between a claim and its first checkpoint or between an exception and _fail:
\* a stall there, like an outage under a live heartbeat, is LeaseLost.
LeaseEnds(j) ==
    /\ job[j].lease = "held"
    /\ \A w \in Workers : work[w].job = j /\ Holds(w) =>
          ~work[w].beating /\ work[w].pc \in {"working", "calling", "closing"}
    /\ job' = [job EXCEPT ![j].lease = "over"]
    /\ UNCHANGED <<run, requests, proc, owed, inbox, work, req, asked, upsets, commits, billed>>

LeaseLost(j) ==
    /\ Upset
    /\ job[j].lease = "held"
    /\ job' = [job EXCEPT ![j].lease = "over"]
    /\ UNCHANGED <<run, requests, proc, owed, inbox, work, req, asked, commits, billed>>

-------------------------------------------------------------------------------
(* A worker: run, run_claimed and the handler.                             *)

\* The claim of a RUNNING manual-retry job whose worker is gone ends it.
InterruptedRow(row) ==
    [row EXCEPT !.state = IF row.cancel THEN "CANCELLED" ELSE "FAILED", !.lease = "none",
                !.error = IF row.cancel THEN "CANCELLED" ELSE "MANUAL_RETRY_REQUIRED"]

Interrupt(j) ==
    /\ job' = [job EXCEPT ![j] = InterruptedRow(@)]
    /\ run' = IF j \in Answers /\ run[j] \notin {"COMPLETED", "CANCELLED"}
              THEN [run EXCEPT ![j] = InterruptedRow(job[j]).state]
              ELSE run

\* Slip: an expired lease is recovered whatever the policy of the job.
NeverInterrupted(j) == FALSE

Interrupted(j) == j \in Manual /\ job[j].state = "RUNNING" /\ job[j].lease # "held"

\* A worker takes a delivery and its _claim transaction commits.  The broker
\* may deliver again what it has delivered.
Take(w, j) ==
    LET p == ProcOf[w]
    IN  /\ Unlocked
        /\ ~Active(w)
        /\ proc[p] # "down"
        /\ j \in inbox[p]
        /\ \/ inbox' = [inbox EXCEPT ![p] = @ \ {j}]
           \/ Celery /\ UNCHANGED inbox

\* Slip: a claim does not count.
ClaimedUncounted(row) == [row EXCEPT !.state = "RUNNING", !.lease = "held"]

\* A claim takes the next attempt number, and starts a heartbeat.
ClaimedRow(row) == [row EXCEPT !.state = "RUNNING", !.lease = "held", !.attempts = row.attempts + 1]

Claimed(j) == [pc |-> "claimed", job |-> j, attempt |-> ClaimedRow(job[j]).attempts,
               beating |-> TRUE, exc |-> "none"]

Claim(w, j) ==
    /\ Take(w, j)
    /\ Claimable(j) /\ ~Interrupted(j)
    /\ job' = [job EXCEPT ![j] = ClaimedRow(@)]
    /\ work' = [work EXCEPT ![w] = Claimed(j)]
    /\ UNCHANGED <<run, requests, proc, owed, req, asked, upsets, commits, billed>>

ClaimInterrupted(w, j) ==
    /\ Take(w, j)
    /\ Interrupted(j)
    /\ Interrupt(j)
    /\ UNCHANGED <<requests, proc, owed, work, req, asked, upsets, commits, billed>>

ClaimNothing(w, j) ==
    /\ Take(w, j)
    /\ ~Claimable(j)
    /\ UNCHANGED <<job, run, requests, proc, owed, work, req, asked, upsets, commits, billed>>

\* The operator's index script reserves a queued index job, or one it creates,
\* without waiting for a retry delay, and runs it itself (local SQLite only).
Reserve(w, j) ==
    /\ Serial /\ Unlocked
    /\ ~Active(w)
    /\ proc[ProcOf[w]] = "up"
    /\ j \notin Answers
    /\ job[j].state \in {"ABSENT", "QUEUED"}
    /\ job' = [job EXCEPT ![j] = ClaimedRow(@)]
    /\ work' = [work EXCEPT ![w] = Claimed(j)]
    /\ UNCHANGED <<run, requests, proc, owed, inbox, req, asked, upsets, commits, billed>>

\* run_claimed's finally: the heartbeat stops; the future is not done yet.
Closing(w) == [work EXCEPT ![w] = [pc |-> "closing", job |-> work[w].job,
                  attempt |-> work[w].attempt, beating |-> FALSE, exc |-> "none"]]

Moved(w, pc, exc) == [work EXCEPT ![w] = [pc |-> pc, job |-> work[w].job,
                        attempt |-> work[w].attempt, beating |-> work[w].beating, exc |-> exc]]

\* The thread that renews the lease exits once a renewal is refused.
HeartbeatStops(w) ==
    /\ Unlocked
    /\ Active(w) /\ work[w].beating
    /\ ~Fenced(w)
    /\ work' = [work EXCEPT ![w].beating = FALSE]
    /\ UNCHANGED <<job, run, requests, proc, owed, inbox, req, asked, upsets, commits, billed>>

\* Every other transaction of the handler begins with _fence.  A stale token
\* ends the attempt silently; a requested cancellation is an exception.
FenceRefuses(w) ==
    /\ Unlocked
    /\ work[w].pc \in {"claimed", "started", "working"}
    /\ \/ ~Holds(w) /\ work' = Closing(w)
       \/ /\ Holds(w) /\ job[work[w].job].cancel
          /\ work' = Moved(w, "failing", "cancelled")
    /\ UNCHANGED <<job, run, requests, proc, owed, inbox, req, asked, upsets, commits, billed>>

\* The checkpoint STARTED.
Start(w) ==
    /\ Unlocked
    /\ work[w].pc = "claimed"
    /\ Fenced(w)
    /\ work' = Moved(w, "started", "none")
    /\ UNCHANGED <<job, run, requests, proc, owed, inbox, req, asked, upsets, commits, billed>>

\* The first transaction of the handler; an answer marks its run RUNNING.
Begin(w) ==
    /\ Unlocked
    /\ work[w].pc = "started"
    /\ Fenced(w)
    /\ IF work[w].job \in Answers
       THEN /\ run[work[w].job] # "COMPLETED"
            /\ run' = [run EXCEPT ![work[w].job] = "RUNNING"]
       ELSE UNCHANGED run
    /\ work' = Moved(w, "working", "none")
    /\ UNCHANGED <<job, requests, proc, owed, inbox, req, asked, upsets, commits, billed>>

\* before_model, planning_client: the request is counted, then it is sent.
Invoke(w) ==
    LET j == work[w].job
    IN  /\ Unlocked
        /\ work[w].pc = "working"
        /\ j \in Answers
        /\ Fenced(w)
        /\ requests[j] < MaxModelCalls
        /\ requests' = [requests EXCEPT ![j] = @ + 1]
        /\ billed' = [billed EXCEPT ![j] = @ \cup {work[w].attempt}]
        /\ work' = Moved(w, "calling", "none")
        /\ UNCHANGED <<job, run, proc, owed, inbox, req, asked, upsets, commits>>

\* The provider answers; recording the response is the next fenced step.
Respond(w) ==
    /\ work[w].pc = "calling"
    /\ work' = Moved(w, "working", "none")
    /\ UNCHANGED <<job, run, requests, proc, owed, inbox, req, asked, upsets, commits, billed>>

FinishedRow(row) == [row EXCEPT !.state = "SUCCEEDED", !.lease = "none", !.error = "none"]

\* The handler's final transaction: its effects and _succeed, all or nothing.
Finish(w) ==
    LET j == work[w].job
    IN  /\ Unlocked
        /\ work[w].pc = "working"
        /\ Fenced(w)
        /\ job' = [job EXCEPT ![j] = FinishedRow(@)]
        /\ run' = IF j \in Answers THEN [run EXCEPT ![j] = "COMPLETED"] ELSE run
        /\ commits' = [commits EXCEPT ![j] = @ \cup {work[w].attempt}]
        /\ work' = Closing(w)
        /\ UNCHANGED <<requests, proc, owed, inbox, req, asked, upsets, billed>>

\* The handler raises.
Raise(w) ==
    /\ work[w].pc \in {"claimed", "started", "working", "calling"}
    /\ \E exc \in {"transient", "permanent", "refused"} :
         /\ exc = "refused" => work[w].job \notin Answers
         /\ work' = Moved(w, "failing", exc)
    /\ UNCHANGED <<job, run, requests, proc, owed, inbox, req, asked, upsets, commits, billed>>

\* _fail: how the row ends depends on the exception, on a cancellation that
\* arrived meanwhile, on the attempt number and on what was already billed.
WillRetry(w) ==
    LET j == work[w].job
    IN  /\ work[w].exc = "transient"
        /\ work[w].attempt <= RetryDelays
        /\ ~job[j].cancel
        /\ j \notin Manual
        /\ j \in Answers => requests[j] = 0

\* Slip: only the fence's exception counts as a cancellation.
EndingByException(w) == IF work[w].exc = "cancelled" THEN "CANCELLED"
                        ELSE IF WillRetry(w) THEN "QUEUED" ELSE "FAILED"

Ending(w) == IF job[work[w].job].cancel \/ work[w].exc = "cancelled" THEN "CANCELLED"
             ELSE IF WillRetry(w) THEN "QUEUED" ELSE "FAILED"

\* The lease of a queued retry is its delay.
FailedRow(row, ending, exc) ==
    [row EXCEPT !.state = ending,
                !.lease = IF ending = "QUEUED" THEN "held" ELSE "none",
                !.error = IF ending = "CANCELLED" THEN "CANCELLED"
                          ELSE IF exc = "refused" THEN "refused" ELSE "error"]

Fail(w) ==
    LET j == work[w].job
    IN  /\ Unlocked
        /\ work[w].pc = "failing"
        /\ Holds(w)
        /\ job' = [job EXCEPT ![j] = FailedRow(@, Ending(w), work[w].exc)]
        /\ run' = IF j \in Answers /\ run[j] # "COMPLETED"
                  THEN [run EXCEPT ![j] = Ending(w)] ELSE run
        /\ work' = Closing(w)
        /\ UNCHANGED <<requests, proc, owed, inbox, req, asked, upsets, commits, billed>>

\* A stale worker's _fail changes nothing.
FailStale(w) ==
    /\ Unlocked
    /\ work[w].pc = "failing"
    /\ ~Holds(w)
    /\ work' = Closing(w)
    /\ UNCHANGED <<job, run, requests, proc, owed, inbox, req, asked, upsets, commits, billed>>

\* _fail itself cannot reach the database: the row stays RUNNING.
FailUnrecorded(w) ==
    /\ Upset
    /\ work[w].pc = "failing"
    /\ work' = Closing(w)
    /\ UNCHANGED <<job, run, requests, proc, owed, inbox, req, asked, commits, billed>>

\* Slip: the thread keeps the job it had.
DoneKeepsJob(w) ==
    /\ work[w].pc = "closing"
    /\ work' = [work EXCEPT ![w].pc = "idle"]
    /\ UNCHANGED <<job, run, requests, proc, owed, inbox, req, asked, upsets, commits, billed>>

\* The future is done and the thread is free.
Done(w) ==
    /\ work[w].pc = "closing"
    /\ work' = [work EXCEPT ![w] = Idle]
    /\ UNCHANGED <<job, run, requests, proc, owed, inbox, req, asked, upsets, commits, billed>>

-------------------------------------------------------------------------------
RequestStep(c) ==
    \/ \E j \in Jobs : ReadCancel(c, j) \/ ReadRetry(c, j)
    \/ CommitCancel(c)
    \/ \E p \in Procs : CommitRetry(c, p)
    \/ Abandon(c)

ProcessStep(p) ==
    \/ \E j \in Jobs : Create(p, j) \/ Dispatch(p, j) \/ DispatchFails(p, j) \/ DeliveryLost(p, j)
    \/ Scan(p) \/ Crash(p) \/ Stop(p) \/ Halt(p) \/ Boot(p)

Pickup(w) == \E j \in Jobs : Claim(w, j) \/ ClaimInterrupted(w, j) \/ ClaimNothing(w, j)

\* What the thread of a worker does once it has claimed.
Advance(w) ==
    \/ FenceRefuses(w) \/ Start(w) \/ Begin(w) \/ Invoke(w) \/ Respond(w) \/ Finish(w)
    \/ Raise(w) \/ Fail(w) \/ FailStale(w) \/ Done(w)

WorkerStep(w) ==
    \/ Pickup(w) \/ Advance(w) \/ HeartbeatStops(w) \/ FailUnrecorded(w)
    \/ \E j \in Jobs : Reserve(w, j)

Next ==
    \/ \E c \in Clients : RequestStep(c)
    \/ \E p \in Procs : ProcessStep(p)
    \/ \E w \in Workers : WorkerStep(w)
    \/ \E j \in Jobs : LeaseEnds(j) \/ LeaseLost(j)

Spec == Init /\ [][Next]_vars

\* Every thread that can run eventually does, requests end, processes are
\* restarted, the recovery loop of a running process keeps scanning, and time
\* passes.  Nothing is assumed about crashes, outages, or what people ask.
Fairness ==
    /\ \A c \in Clients : WF_vars(CommitCancel(c) \/ Abandon(c))
    /\ \A p \in Procs : /\ WF_vars(Scan(p))
                        /\ WF_vars(\E j \in Jobs : Dispatch(p, j))
                        /\ WF_vars(Halt(p))
                        /\ WF_vars(Boot(p))
    /\ \A w \in Workers : WF_vars(Pickup(w)) /\ WF_vars(Advance(w)) /\ WF_vars(HeartbeatStops(w))
    /\ \A j \in Jobs : WF_vars(LeaseEnds(j))

FairSpec == Spec /\ Fairness
-------------------------------------------------------------------------------
(* Properties.                                                             *)

\* Fencing tokens name one worker: two workers that run the same job carry
\* different attempts, and none is ahead of the row (_claim, _fence).
TokensUnique ==
    \A w \in Workers : Active(w) =>
        /\ work[w].attempt <= job[work[w].job].attempts
        /\ \A v \in Workers : Active(v) /\ work[v].job = work[w].job /\ v # w
                               => work[v].attempt # work[w].attempt

\* The effects of a job's handler are committed exactly by the success of the
\* row, once, and by its newest attempt, whatever crashed, stalled, was
\* delivered twice or was retried before.
EffectsOnce ==
    \A j \in Jobs : commits[j] = IF job[j].state = "SUCCEEDED" THEN {job[j].attempts} ELSE {}

\* The owner reads the outcome of an answer from its run and the outcome of
\* the job from its row; the two never disagree about how it ended.
RunMirrorsJob ==
    \A j \in Answers :
        /\ job[j].state = "SUCCEEDED" <=> run[j] = "COMPLETED"
        /\ job[j].state = "FAILED" <=> run[j] = "FAILED"
        /\ job[j].state = "CANCELLED" <=> run[j] = "CANCELLED"

\* Nothing is billed for a job between the commit of a cancellation and the
\* moment a person queues it again.
CancelStopsBilling ==
    [][\A j \in Jobs : job[j].cancel /\ job'[j].cancel => requests'[j] = requests[j]]_vars

\* "A later DB/transport failure must not silently replay a billable
\* model-first analysis or synthesis request" (_fail): between two requests of
\* a person, model requests come from one attempt only.
NoSilentReplay == \A j \in Jobs : \A a, b \in billed[j] : a = b

\* An attempt commits its effects at most once, and only while it is the
\* newest: no stale worker finishes over a newer one (jobs.py docstring).
CommitsByNewest ==
    [][\A j \in Jobs : commits'[j] # commits[j] =>
          /\ commits'[j] = commits[j] \cup {job[j].attempts}
          /\ job[j].attempts \notin commits[j]]_vars

\* Every job that is queued or running ends, however its dispatch, its
\* processes and its leases are disturbed.
Settles == \A j \in Jobs : job[j].state \in Open ~> job[j].state \in Terminal

-------------------------------------------------------------------------------
(* What makes the properties inductive.                                    *)

\* Under SQLite one request at a time holds the write lock, and what it read
\* is still what is stored when it commits; only time can have passed.
RequestFresh(c) ==
    LET j == req[c].job
        row == req[c].row
    IN  /\ job[j].state = row.state
        /\ job[j].attempts = row.attempts
        /\ job[j].cancel = row.cancel
        /\ job[j].error = row.error
        /\ row.lease = "none" => job[j].lease = "none"
        /\ run[j] = req[c].run
        /\ row.state \in IF req[c].op = "cancel" THEN Open ELSE {"FAILED", "CANCELLED"}

RequestsFresh ==
    \A c \in Clients : req[c].op # "none" =>
        RequestFresh(c) /\ \A d \in Clients : req[d].op # "none" => d = c

\* cancel_requested is set only while a job runs, and explains its ending.
CancelRecorded ==
    \A j \in Jobs :
        /\ job[j].cancel => job[j].state \in {"RUNNING", "CANCELLED"}
        /\ job[j].state = "CANCELLED" => job[j].cancel

\* A worker that still holds its job and was stopped by a cancellation was
\* stopped by one that is still recorded.
CancelSeen ==
    \A w \in Workers :
        LET row == job[work[w].job]
        IN  work[w].pc = "failing" /\ work[w].exc = "cancelled"
            /\ row.attempts = work[w].attempt /\ row.state = "RUNNING" => row.cancel

\* The run of an open job has not ended, and a queued job has a queued run.
RunOpen ==
    \A j \in Answers :
        /\ job[j].state \in {"ABSENT", "QUEUED"} => run[j] = "QUEUED"
        /\ job[j].state = "RUNNING" => run[j] \in {"QUEUED", "RUNNING"}

\* The invariant of the engine on SQLite.
EngineInv ==
    /\ RequestsFresh
    /\ CancelRecorded
    /\ CancelSeen
    /\ RunOpen
    /\ EffectsOnce
    /\ RunMirrorsJob

\* No attempt number beyond the row's has committed, and a job that runs has
\* not committed under its present number.
CommitsBelow ==
    \A j \in Jobs :
        /\ \A a \in commits[j] : a <= job[j].attempts
        /\ job[j].state = "RUNNING" => job[j].attempts \notin commits[j]

\* Only answers are billed; a manual-retry job only under its present number,
\* and not before it runs.
BilledByPresent ==
    \A j \in Jobs :
        /\ j \notin Answers => billed[j] = {}
        /\ j \in Manual => /\ billed[j] \subseteq {job[j].attempts}
                           /\ job[j].state \in {"ABSENT", "QUEUED"} => billed[j] = {}

-------------------------------------------------------------------------------
(* The owner's view.                                                       *)

Outcome(j) ==
    CASE job[j].state = "ABSENT"    -> "absent"
      [] job[j].state \in Open      -> "open"
      [] job[j].state = "SUCCEEDED" -> "done"
      [] job[j].state = "FAILED"    -> "failed"
      [] job[j].state = "CANCELLED" -> "cancelled"

Promise == INSTANCE JobPromise WITH
    outcome <- [j \in Jobs |-> Outcome(j)],
    stop <- [j \in Jobs |-> job[j].cancel]

\* The engine keeps the promise made to the owner of a job (JobPromise).
KeepsPromise == Promise!Spec
===============================================================================
