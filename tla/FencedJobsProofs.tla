--------------------------- MODULE FencedJobsProofs ---------------------------
(***************************************************************************)
(* Theorems of the job engine, for every number of jobs, workers,          *)
(* processes and clients, both transports, and every bound.                *)
(***************************************************************************)
EXTENDS FencedJobs, TLAPS

-------------------------------------------------------------------------------
(* Types.                                                                  *)

\* A worker that is not idle has a job.
LEMMA ActiveHasJob ==
    ASSUME TypeOK, NEW w \in Workers, work[w].pc # "idle"
    PROVE  /\ work[w].job \in Jobs
           /\ work[w].attempt \in Nat
           /\ work[w].exc \in Exceptions \cup {"none"}
           /\ work[w].beating \in BOOLEAN
           /\ work[w] \in Attempt
BY DEF TypeOK, Work, Attempt, Idle

\* A request that was read and not committed has a job and the row it loaded.
LEMMA RequestHasRow ==
    ASSUME TypeOK, NEW c \in Clients, req[c].op # "none"
    PROVE  req[c].job \in Jobs /\ req[c].row \in Row /\ req[c].run \in RunStates
BY DEF TypeOK, Request, NoRequest

\* A flush of a well-formed row is a well-formed row.
LEMMA FlushType ==
    ASSUME NEW stored \in Row, NEW loaded \in Row, NEW assigned \in Row
    PROVE  Flush(stored, loaded, assigned) \in Row
BY DEF Flush, Column, Row

\* So are the rows that the transactions write.
LEMMA AssignedTypes ==
    ASSUME NEW row \in Row
    PROVE  /\ CancelledRow(row) \in Row
           /\ RequeuedRow(row) \in Row
           /\ InterruptedRow(row) \in Row
           /\ ClaimedRow(row) \in Row
           /\ FinishedRow(row) \in Row
           /\ \A ending \in {"CANCELLED", "QUEUED", "FAILED"}, exc \in Exceptions \cup {"none"} :
                FailedRow(row, ending, exc) \in Row
           /\ [row EXCEPT !.state = "QUEUED"] \in Row
           /\ [row EXCEPT !.lease = "over"] \in Row
<1>1. CancelledRow(row) \in Row /\ RequeuedRow(row) \in Row
  BY DEF CancelledRow, RequeuedRow, Row, Open, Terminal, Errors
<1>2. InterruptedRow(row) \in Row
  BY DEF InterruptedRow, Row, Open, Terminal, Errors
<1>3. ClaimedRow(row) \in Row /\ FinishedRow(row) \in Row
  <2>1. row.attempts + 1 \in Nat
    BY DEF Row
  <2>2. ClaimedRow(row) \in Row
    BY <2>1 DEF ClaimedRow, Row, Open
  <2>3. FinishedRow(row) \in Row
    BY DEF FinishedRow, Row, Terminal, Errors
  <2>. QED BY <2>2, <2>3
<1>4. ASSUME NEW ending \in {"CANCELLED", "QUEUED", "FAILED"}, NEW exc
      PROVE  FailedRow(row, ending, exc) \in Row
  BY DEF FailedRow, Row, Open, Terminal, Errors
<1>5. [row EXCEPT !.state = "QUEUED"] \in Row /\ [row EXCEPT !.lease = "over"] \in Row
  BY DEF Row, Open
<1>6. \A ending \in {"CANCELLED", "QUEUED", "FAILED"}, exc \in Exceptions \cup {"none"} :
        FailedRow(row, ending, exc) \in Row
  BY <1>4
<1>. QED BY <1>1, <1>2, <1>3, <1>5, <1>6

\* A claim takes the next number.
LEMMA ClaimedTypes ==
    ASSUME TypeOK, NEW j \in Jobs
    PROVE  /\ ClaimedRow(job[j]).attempts = job[j].attempts + 1
           /\ Claimed(j).attempt = job[j].attempts + 1
           /\ Claimed(j) \in Attempt
<1>1. job[j] \in Row
  BY DEF TypeOK
<1>2. ClaimedRow(job[j]).attempts = job[j].attempts + 1
  BY <1>1 DEF ClaimedRow, Row
<1>3. job[j].attempts + 1 \in Nat
  BY <1>1 DEF Row
<1>. QED BY <1>2, <1>3 DEF Claimed, Attempt

\* The initial state is well typed.
LEMMA InitTypeOK == Init => TypeOK
BY SetsAssumption DEF Init, TypeOK, AbsentRow, Row, RunStates, Work, Request, Open, Terminal, Errors

\* Every step of a cancelJob or retryJob request preserves the types.
LEMMA RequestTypes ==
    ASSUME TypeOK, NEW c \in Clients, RequestStep(c)
    PROVE  TypeOK'
<1>1. CASE \E j \in Jobs : ReadCancel(c, j)
  BY <1>1 DEF ReadCancel, TypeOK, Request
<1>2. CASE \E j \in Jobs : ReadRetry(c, j)
  BY <1>2 DEF ReadRetry, TypeOK, Request
<1>3. CASE CommitCancel(c)
  <2>1. req[c].job \in Jobs /\ req[c].row \in Row /\ req[c].run \in RunStates
    BY <1>3, RequestHasRow DEF CommitCancel
  <2>2. job' \in [Jobs -> Row]
    BY <1>3, <2>1, FlushType, AssignedTypes DEF CommitCancel, TypeOK
  <2>3. run' \in [Jobs -> RunStates]
    BY <1>3, <2>1 DEF CommitCancel, TypeOK, RunStates, Column
  <2>. QED BY <1>3, <2>2, <2>3 DEF CommitCancel, TypeOK, Request
<1>4. ASSUME NEW p \in Procs, CommitRetry(c, p) PROVE TypeOK'
  <2>1. req[c].job \in Jobs /\ req[c].row \in Row /\ req[c].run \in RunStates
    BY <1>4, RequestHasRow DEF CommitRetry
  <2>2. job' \in [Jobs -> Row]
    BY <1>4, <2>1, FlushType, AssignedTypes DEF CommitRetry, TypeOK
  <2>3. run' \in [Jobs -> RunStates]
    BY <1>4, <2>1 DEF CommitRetry, TypeOK, RunStates, Column
  <2>. QED BY <1>4, <2>1, <2>2, <2>3 DEF CommitRetry, TypeOK, Request
<1>5. CASE Abandon(c)
  BY <1>5 DEF Abandon, TypeOK, Request
<1>. QED BY <1>1, <1>2, <1>3, <1>4, <1>5 DEF RequestStep

\* Every step of a process preserves the types.
LEMMA ProcessTypes ==
    ASSUME TypeOK, NEW p \in Procs, ProcessStep(p)
    PROVE  TypeOK'
<1>1. ASSUME NEW j \in Jobs, Create(p, j) PROVE TypeOK'
  <2>1. job' \in [Jobs -> Row]
    BY <1>1, AssignedTypes DEF Create, TypeOK
  <2>. QED BY <1>1, <2>1 DEF Create, TypeOK
<1>2. ASSUME NEW j \in Jobs, Dispatch(p, j) PROVE TypeOK'
  <2>1. /\ inbox' \in [Procs -> SUBSET Jobs]
        /\ owed' \in [Procs -> SUBSET Jobs]
    BY <1>2 DEF Dispatch, TypeOK
  <2>. QED BY <1>2, <2>1 DEF Dispatch, TypeOK
<1>3. ASSUME NEW j \in Jobs, DispatchFails(p, j) PROVE TypeOK'
  BY <1>3, BoundsAssumption DEF DispatchFails, Upset, TypeOK
<1>4. ASSUME NEW j \in Jobs, DeliveryLost(p, j) PROVE TypeOK'
  BY <1>4, BoundsAssumption DEF DeliveryLost, Upset, TypeOK
<1>5. CASE Scan(p)
  BY <1>5 DEF Scan, TypeOK
<1>6. CASE Crash(p)
  <2>1. Pending(p) \in SUBSET Jobs
    BY ActiveHasJob DEF Pending, Active, TypeOK
  <2>2. work' \in [Workers -> Work]
    BY <1>6 DEF Crash, TypeOK, Work
  <2>. QED BY <1>6, <2>1, <2>2 DEF Crash, Upset, TypeOK
<1>7. CASE Stop(p)
  BY <1>7 DEF Stop, Upset, TypeOK
<1>8. CASE Halt(p)
  BY <1>8 DEF Halt, TypeOK
<1>9. CASE Boot(p)
  BY <1>9 DEF Boot, TypeOK
<1>. QED BY <1>1, <1>2, <1>3, <1>4, <1>5, <1>6, <1>7, <1>8, <1>9 DEF ProcessStep

\* What an active worker does next is recorded well formed.
LEMMA MovedTypes ==
    ASSUME TypeOK, NEW w \in Workers, Active(w)
    PROVE  /\ Closing(w) \in [Workers -> Work]
           /\ \A pc \in {"started", "working", "calling", "failing"},
                 exc \in Exceptions \cup {"none"} : Moved(w, pc, exc) \in [Workers -> Work]
           /\ [work EXCEPT ![w].beating = FALSE] \in [Workers -> Work]
<1>1. /\ work[w].job \in Jobs /\ work[w].attempt \in Nat /\ work[w].beating \in BOOLEAN
      /\ work[w] \in Attempt
  BY ActiveHasJob DEF Active
<1>2. [work[w] EXCEPT !.beating = FALSE] \in Attempt
  BY <1>1 DEF Attempt
<1>. QED BY <1>1, <1>2 DEF Closing, Moved, TypeOK, Work, Attempt

\* Every step of a worker preserves the types.
LEMMA WorkerTypes ==
    ASSUME TypeOK, NEW w \in Workers, WorkerStep(w)
    PROVE  TypeOK'
<1>1. ASSUME NEW j \in Jobs, Claim(w, j) PROVE TypeOK'
  <2>1. job' \in [Jobs -> Row]
    BY <1>1, AssignedTypes DEF Claim, TypeOK
  <2>2. work' \in [Workers -> Work]
    BY <1>1, ClaimedTypes DEF Claim, TypeOK, Work
  <2>3. inbox' \in [Procs -> SUBSET Jobs]
    BY <1>1 DEF Claim, Take, TypeOK
  <2>. QED BY <1>1, <2>1, <2>2, <2>3 DEF Claim, TypeOK
<1>2. ASSUME NEW j \in Jobs, ClaimInterrupted(w, j) PROVE TypeOK'
  <2>1. job' \in [Jobs -> Row]
    BY <1>2, AssignedTypes DEF ClaimInterrupted, Interrupt, TypeOK
  <2>2. run' \in [Jobs -> RunStates]
    BY <1>2 DEF ClaimInterrupted, Interrupt, InterruptedRow, TypeOK, Row, RunStates
  <2>3. inbox' \in [Procs -> SUBSET Jobs]
    BY <1>2 DEF ClaimInterrupted, Take, TypeOK
  <2>. QED BY <1>2, <2>1, <2>2, <2>3 DEF ClaimInterrupted, TypeOK
<1>3. ASSUME NEW j \in Jobs, ClaimNothing(w, j) PROVE TypeOK'
  BY <1>3 DEF ClaimNothing, Take, TypeOK
<1>4. ASSUME NEW j \in Jobs, Reserve(w, j) PROVE TypeOK'
  <2>1. job' \in [Jobs -> Row]
    BY <1>4, AssignedTypes DEF Reserve, TypeOK
  <2>2. work' \in [Workers -> Work]
    BY <1>4, ClaimedTypes DEF Reserve, TypeOK, Work
  <2>. QED BY <1>4, <2>1, <2>2 DEF Reserve, TypeOK
<1>5. CASE FenceRefuses(w)
  <2>1. work' \in [Workers -> Work]
    <3>1. Active(w) BY <1>5 DEF FenceRefuses, Active
    <3>2. Closing(w) \in [Workers -> Work] /\ Moved(w, "failing", "cancelled") \in [Workers -> Work]
      BY <3>1, MovedTypes DEF Exceptions
    <3>. QED BY <1>5, <3>2 DEF FenceRefuses
  <2>. QED BY <1>5, <2>1 DEF FenceRefuses, TypeOK
<1>6. CASE Start(w)
  BY <1>6, MovedTypes DEF Start, Active, TypeOK
<1>7. CASE Begin(w)
  BY <1>7, MovedTypes DEF Begin, Active, TypeOK, RunStates
<1>8. CASE Invoke(w)
  <2>1. work[w].job \in Jobs /\ work[w].attempt \in Nat
    BY <1>8, ActiveHasJob DEF Invoke
  <2>2. work' \in [Workers -> Work]
    BY <1>8, MovedTypes DEF Invoke, Active
  <2>. QED BY <1>8, <2>1, <2>2 DEF Invoke, TypeOK
<1>9. CASE Respond(w)
  BY <1>9, MovedTypes DEF Respond, Active, TypeOK
<1>10. CASE Finish(w)
  <2>1. work[w].job \in Jobs /\ work[w].attempt \in Nat
    BY <1>10, ActiveHasJob DEF Finish
  <2>2. work' \in [Workers -> Work]
    BY <1>10, MovedTypes DEF Finish, Active
  <2>3. job' \in [Jobs -> Row] /\ run' \in [Jobs -> RunStates]
    BY <1>10, <2>1, AssignedTypes DEF Finish, TypeOK, RunStates
  <2>. QED BY <1>10, <2>1, <2>2, <2>3 DEF Finish, TypeOK
<1>11. CASE Raise(w)
  <2>1. work' \in [Workers -> Work]
    <3>1. Active(w) BY <1>11 DEF Raise, Active
    <3>2. \A exc \in Exceptions : Moved(w, "failing", exc) \in [Workers -> Work]
      BY <3>1, MovedTypes
    <3>. QED BY <1>11, <3>2 DEF Raise, Exceptions
  <2>. QED BY <1>11, <2>1 DEF Raise, TypeOK
<1>12. CASE Fail(w)
  <2>1. work[w].job \in Jobs /\ work[w].exc \in Exceptions \cup {"none"}
    BY <1>12, ActiveHasJob DEF Fail
  <2>2. Ending(w) \in {"CANCELLED", "QUEUED", "FAILED"}
    BY DEF Ending
  <2>3. work' \in [Workers -> Work]
    BY <1>12, MovedTypes DEF Fail, Active
  <2>4. job' \in [Jobs -> Row] /\ run' \in [Jobs -> RunStates]
    BY <1>12, <2>1, <2>2, AssignedTypes DEF Fail, TypeOK, RunStates
  <2>. QED BY <1>12, <2>3, <2>4 DEF Fail, TypeOK
<1>13. CASE FailStale(w)
  BY <1>13, MovedTypes DEF FailStale, Active, TypeOK
<1>14. CASE FailUnrecorded(w)
  <2>1. work' \in [Workers -> Work]
    BY <1>14, MovedTypes DEF FailUnrecorded, Active
  <2>. QED BY <1>14, <2>1 DEF FailUnrecorded, Upset, TypeOK
<1>15. CASE Done(w)
  <2>1. work' \in [Workers -> Work]
    BY <1>15 DEF Done, TypeOK, Work
  <2>. QED BY <1>15, <2>1 DEF Done, TypeOK
<1>16. CASE HeartbeatStops(w)
  BY <1>16, MovedTypes DEF HeartbeatStops, TypeOK, Exceptions
<1>. QED
  BY <1>1, <1>2, <1>3, <1>4, <1>5, <1>6, <1>7, <1>8, <1>9, <1>10, <1>11, <1>12,
     <1>13, <1>14, <1>15, <1>16
  DEF WorkerStep, Pickup, Advance

\* Every step of the engine preserves the types.
LEMMA StepTypes == TypeOK /\ [Next]_vars => TypeOK'
<1>. SUFFICES ASSUME TypeOK, [Next]_vars PROVE TypeOK'
  OBVIOUS
<1>1. ASSUME NEW j \in Jobs, LeaseEnds(j) PROVE TypeOK'
  <2>1. job' \in [Jobs -> Row]
    BY <1>1, AssignedTypes DEF LeaseEnds, TypeOK
  <2>. QED BY <1>1, <2>1 DEF LeaseEnds, TypeOK
<1>2. ASSUME NEW j \in Jobs, LeaseLost(j) PROVE TypeOK'
  <2>1. job' \in [Jobs -> Row]
    BY <1>2, AssignedTypes DEF LeaseLost, TypeOK
  <2>. QED BY <1>2, <2>1 DEF LeaseLost, Upset, TypeOK
<1>3. CASE UNCHANGED vars
  BY <1>3 DEF vars, TypeOK
<1>. QED BY <1>1, <1>2, <1>3, RequestTypes, ProcessTypes, WorkerTypes DEF Next

\* Every reachable state is well typed: in particular the row a request writes
\* back, mixed from what it loaded and what is stored, is a legal row.
THEOREM TypeCorrect == Spec => []TypeOK
<1>. QED BY InitTypeOK, StepTypes, PTL DEF Spec

-------------------------------------------------------------------------------
(* Fencing tokens.                                                         *)

\* What any step may do to the token and the state of a row: a claim counts,
\* and nothing else makes a job run.
RowMoves(j) ==
    \/ job'[j].attempts = job[j].attempts + 1
    \/ /\ job'[j].attempts = job[j].attempts
       /\ job'[j].state = "RUNNING" => job[j].state = "RUNNING"

\* A flush never touches the token, and never makes a job run.
LEMMA FlushMoves ==
    ASSUME NEW stored \in Row, NEW loaded \in Row
    PROVE  /\ Flush(stored, loaded, CancelledRow(loaded)).attempts = stored.attempts
           /\ Flush(stored, loaded, RequeuedRow(loaded)).attempts = stored.attempts
           /\ Flush(stored, loaded, CancelledRow(loaded)).state \in {stored.state, "CANCELLED"}
           /\ Flush(stored, loaded, RequeuedRow(loaded)).state \in {stored.state, "QUEUED"}
<1>1. /\ CancelledRow(loaded).attempts = loaded.attempts
      /\ CancelledRow(loaded).state \in {loaded.state, "CANCELLED"}
  BY DEF CancelledRow, Row
<1>2. /\ RequeuedRow(loaded).attempts = loaded.attempts
      /\ RequeuedRow(loaded).state = "QUEUED"
  BY DEF RequeuedRow, Row
<1>. QED BY <1>1, <1>2 DEF Flush, Column

\* The rows that the engine writes keep the token, except a claimed one.
LEMMA WrittenRows ==
    ASSUME NEW row \in Row
    PROVE  /\ InterruptedRow(row).attempts = row.attempts
           /\ InterruptedRow(row).state # "RUNNING"
           /\ FinishedRow(row).attempts = row.attempts
           /\ FinishedRow(row).state = "SUCCEEDED"
           /\ \A ending, exc : /\ FailedRow(row, ending, exc).attempts = row.attempts
                               /\ FailedRow(row, ending, exc).state = ending
<1>1. InterruptedRow(row).attempts = row.attempts /\ InterruptedRow(row).state # "RUNNING"
  BY DEF InterruptedRow, Row
<1>2. FinishedRow(row).attempts = row.attempts /\ FinishedRow(row).state = "SUCCEEDED"
  BY DEF FinishedRow, Row
<1>3. ASSUME NEW ending, NEW exc
      PROVE  FailedRow(row, ending, exc).attempts = row.attempts /\ FailedRow(row, ending, exc).state = ending
  BY DEF FailedRow, Row
<1>. QED BY <1>1, <1>2, <1>3

\* Every step moves every row as RowMoves says.
LEMMA RowSteps ==
    ASSUME TypeOK, [Next]_vars, NEW j \in Jobs
    PROVE  RowMoves(j)
<1>. job \in [Jobs -> Row] /\ job[j] \in Row /\ job[j].attempts \in Nat
  BY DEF TypeOK, Row
<1>1. CASE UNCHANGED job
  BY <1>1 DEF RowMoves
<1>2. ASSUME NEW c \in Clients, CommitCancel(c) PROVE RowMoves(j)
  <2>1. req[c].job \in Jobs /\ req[c].row \in Row
    BY <1>2, RequestHasRow DEF CommitCancel
  <2>2. job' = [job EXCEPT ![req[c].job] = Flush(@, req[c].row, CancelledRow(req[c].row))]
    BY <1>2 DEF CommitCancel
  <2>. QED BY <2>1, <2>2, FlushMoves DEF RowMoves
<1>3. ASSUME NEW c \in Clients, NEW p \in Procs, CommitRetry(c, p) PROVE RowMoves(j)
  <2>1. req[c].job \in Jobs /\ req[c].row \in Row
    BY <1>3, RequestHasRow DEF CommitRetry
  <2>2. job' = [job EXCEPT ![req[c].job] = Flush(@, req[c].row, RequeuedRow(req[c].row))]
    BY <1>3 DEF CommitRetry
  <2>. QED BY <2>1, <2>2, FlushMoves DEF RowMoves
<1>4. ASSUME NEW p \in Procs, NEW k \in Jobs, Create(p, k) PROVE RowMoves(j)
  BY <1>4 DEF Create, RowMoves, Row
<1>5. ASSUME NEW k \in Jobs, LeaseEnds(k) \/ LeaseLost(k) PROVE RowMoves(j)
  BY <1>5 DEF LeaseEnds, LeaseLost, RowMoves, Row
<1>6. ASSUME NEW w \in Workers, NEW k \in Jobs, Claim(w, k) \/ Reserve(w, k) PROVE RowMoves(j)
  BY <1>6, ClaimedTypes DEF Claim, Reserve, RowMoves
<1>7. ASSUME NEW w \in Workers, NEW k \in Jobs, ClaimInterrupted(w, k) PROVE RowMoves(j)
  BY <1>7, WrittenRows DEF ClaimInterrupted, Interrupt, RowMoves
<1>8. ASSUME NEW w \in Workers, Finish(w) PROVE RowMoves(j)
  BY <1>8, WrittenRows DEF Finish, RowMoves
<1>9. ASSUME NEW w \in Workers, Fail(w) PROVE RowMoves(j)
  <2>1. Ending(w) # "RUNNING"
    BY DEF Ending
  <2>. QED BY <1>9, <2>1, WrittenRows DEF Fail, RowMoves
<1>10. CASE \E c \in Clients : RequestStep(c)
  BY <1>1, <1>2, <1>3, <1>10 DEF RequestStep, ReadCancel, ReadRetry, Abandon
<1>11. CASE \E p \in Procs : ProcessStep(p)
  BY <1>1, <1>4, <1>11 DEF ProcessStep, Dispatch, DispatchFails, DeliveryLost, Scan, Crash, Stop, Halt, Boot
<1>12. CASE \E w \in Workers : WorkerStep(w)
  BY <1>1, <1>6, <1>7, <1>8, <1>9, <1>12
  DEF WorkerStep, Pickup, Advance, ClaimNothing, HeartbeatStops, FenceRefuses, Start, Begin, Invoke,
      Respond, Raise, FailStale, FailUnrecorded, Done
<1>. QED BY <1>1, <1>5, <1>10, <1>11, <1>12 DEF Next, vars

\* What any step may do to a worker: it stays with its job and its token, or
\* it becomes idle, or it claims.
Stays(w) == Active(w)' => Active(w) /\ work'[w].job = work[w].job /\ work'[w].attempt = work[w].attempt

Claims(w) ==
    /\ work'[w].job \in Jobs
    /\ work'[w].attempt = job[work'[w].job].attempts + 1
    /\ job'[work'[w].job].attempts = job[work'[w].job].attempts + 1

\* In every step all workers stay, or one claims and the others do nothing.
LEMMA WorkSteps ==
    ASSUME TypeOK, [Next]_vars
    PROVE  \/ \A w \in Workers : Stays(w)
           \/ \E x \in Workers : Claims(x) /\ \A w \in Workers \ {x} : work'[w] = work[w]
<1>. work \in [Workers -> Work]
  BY DEF TypeOK
<1>1. CASE UNCHANGED work
  BY <1>1 DEF Stays, Active
<1>2. ASSUME NEW p \in Procs, Crash(p) PROVE \A w \in Workers : Stays(w)
  BY <1>2 DEF Crash, Stays, Active, Idle
<1>3. ASSUME NEW x \in Workers, NEW k \in Jobs, Claim(x, k) \/ Reserve(x, k)
      PROVE  Claims(x) /\ \A w \in Workers \ {x} : work'[w] = work[w]
  <2>1. /\ work' = [work EXCEPT ![x] = Claimed(k)]
        /\ job' = [job EXCEPT ![k] = ClaimedRow(@)]
    BY <1>3 DEF Claim, Reserve
  <2>2. Claimed(k).job = k /\ job \in [Jobs -> Row]
    BY DEF Claimed, TypeOK
  <2>. QED BY <2>1, <2>2, ClaimedTypes DEF Claims
<1>4. ASSUME NEW x \in Workers, Active(x),
             NEW pc, NEW exc, work' = Closing(x) \/ work' = Moved(x, pc, exc)
      PROVE  \A w \in Workers : Stays(w)
  BY <1>4 DEF Closing, Moved, Stays, Active
<1>5. ASSUME NEW x \in Workers,
             FenceRefuses(x) \/ Start(x) \/ Begin(x) \/ Invoke(x) \/ Respond(x) \/ Finish(x)
             \/ Raise(x) \/ Fail(x) \/ FailStale(x) \/ FailUnrecorded(x)
      PROVE  \A w \in Workers : Stays(w)
  <2>1. Active(x)
    BY <1>5 DEF FenceRefuses, Start, Begin, Invoke, Respond, Finish, Raise, Fail, FailStale,
                FailUnrecorded, Active
  <2>2. \E pc, exc : work' = Closing(x) \/ work' = Moved(x, pc, exc)
    BY <1>5 DEF FenceRefuses, Start, Begin, Invoke, Respond, Finish, Raise, Fail, FailStale,
                FailUnrecorded
  <2>. QED BY <1>4, <2>1, <2>2
<1>6. ASSUME NEW x \in Workers, Done(x) PROVE \A w \in Workers : Stays(w)
  BY <1>6 DEF Done, Stays, Active, Idle
<1>7. ASSUME NEW x \in Workers, HeartbeatStops(x) PROVE \A w \in Workers : Stays(w)
  <2>1. work' = [work EXCEPT ![x].beating = FALSE] /\ work[x] \in Attempt
    BY <1>7, ActiveHasJob DEF HeartbeatStops, Active
  <2>2. /\ [work[x] EXCEPT !.beating = FALSE].pc = work[x].pc
        /\ [work[x] EXCEPT !.beating = FALSE].job = work[x].job
        /\ [work[x] EXCEPT !.beating = FALSE].attempt = work[x].attempt
    BY <2>1 DEF Attempt
  <2>. QED BY <2>1, <2>2 DEF Stays, Active
<1>8. CASE \E c \in Clients : RequestStep(c)
  BY <1>1, <1>8 DEF RequestStep, ReadCancel, ReadRetry, CommitCancel, CommitRetry, Abandon
<1>9. CASE \E p \in Procs : ProcessStep(p)
  BY <1>1, <1>2, <1>9 DEF ProcessStep, Create, Dispatch, DispatchFails, DeliveryLost, Scan, Stop, Halt, Boot
<1>10. CASE \E w \in Workers : WorkerStep(w)
  BY <1>1, <1>3, <1>5, <1>6, <1>7, <1>10 DEF WorkerStep, Pickup, Advance, ClaimInterrupted, ClaimNothing
<1>. QED BY <1>1, <1>8, <1>9, <1>10 DEF Next, vars, LeaseEnds, LeaseLost

\* Two workers never act for one job under one token, and no worker is ahead
\* of the row: on every transport and at every isolation level.
THEOREM TokensAreUnique == Spec => []TokensUnique
<1>1. Init => TokensUnique
  BY DEF Init, TokensUnique, Active, Idle
<1>2. TypeOK /\ TokensUnique /\ [Next]_vars => TokensUnique'
  <2>. SUFFICES ASSUME TypeOK, TokensUnique, [Next]_vars PROVE TokensUnique'
    OBVIOUS
  <2>1. \A j \in Jobs : job[j].attempts \in Nat /\ job'[j].attempts \in Nat
                        /\ job[j].attempts <= job'[j].attempts
    BY RowSteps DEF RowMoves, TypeOK, Row
  <2>2. \A w \in Workers : Active(w) => work[w].job \in Jobs /\ work[w].attempt \in Nat
    BY ActiveHasJob DEF Active
  <2>3. CASE \A w \in Workers : Stays(w)
    BY <2>1, <2>2, <2>3 DEF TokensUnique, Stays, Active
  <2>4. ASSUME NEW x \in Workers, Claims(x), \A w \in Workers \ {x} : work'[w] = work[w]
        PROVE  TokensUnique'
    <3>1. ASSUME NEW w \in Workers, Active(w)' PROVE work'[w].attempt <= job'[work'[w].job].attempts
      BY <2>1, <2>2, <2>4, <3>1 DEF TokensUnique, Claims, Active
    <3>2. ASSUME NEW w \in Workers \ {x}, Active(w), work[w].job = work'[x].job
          PROVE  work[w].attempt < work'[x].attempt
      BY <2>1, <2>2, <2>4, <3>2 DEF TokensUnique, Claims
    <3>3. ASSUME NEW w \in Workers, NEW v \in Workers, Active(w)', Active(v)',
                 work'[v].job = work'[w].job, v # w
          PROVE  work'[v].attempt # work'[w].attempt
      <4>1. CASE w = x
        BY <2>1, <2>2, <2>4, <3>2, <3>3, <4>1 DEF Active, Claims
      <4>2. CASE v = x
        BY <2>1, <2>2, <2>4, <3>2, <3>3, <4>2 DEF Active, Claims
      <4>3. CASE w # x /\ v # x
        BY <2>4, <3>3, <4>3 DEF TokensUnique, Active
      <4>. QED BY <4>1, <4>2, <4>3
    <3>. QED BY <3>1, <3>3 DEF TokensUnique
  <2>. QED BY <2>3, <2>4, WorkSteps
<1>. QED BY <1>1, <1>2, TypeCorrect, PTL DEF Spec

-------------------------------------------------------------------------------
(* Commits.                                                                *)

\* Only the final transaction of a handler commits, under the row's token.
LEMMA CommitSteps ==
    ASSUME TypeOK, [Next]_vars, NEW j \in Jobs
    PROVE  \/ commits'[j] = commits[j]
           \/ /\ commits'[j] = commits[j] \cup {job[j].attempts}
              /\ job[j].state = "RUNNING"
              /\ job'[j].state = "SUCCEEDED"
              /\ job'[j].attempts = job[j].attempts
<1>. job \in [Jobs -> Row] /\ commits \in [Jobs -> SUBSET Nat]
  BY DEF TypeOK
<1>1. CASE UNCHANGED commits
  BY <1>1
<1>2. ASSUME NEW w \in Workers, Finish(w)
      PROVE  \/ commits'[j] = commits[j]
             \/ /\ commits'[j] = commits[j] \cup {job[j].attempts}
                /\ job[j].state = "RUNNING"
                /\ job'[j].state = "SUCCEEDED"
                /\ job'[j].attempts = job[j].attempts
  <2>1. work[w].job \in Jobs
    BY <1>2, ActiveHasJob DEF Finish
  <2>2. /\ commits' = [commits EXCEPT ![work[w].job] = @ \cup {work[w].attempt}]
        /\ job' = [job EXCEPT ![work[w].job] = FinishedRow(@)]
        /\ job[work[w].job].attempts = work[w].attempt
        /\ job[work[w].job].state = "RUNNING"
    BY <1>2 DEF Finish, Fenced, Holds
  <2>. QED BY <2>1, <2>2, WrittenRows
<1>3. CASE \E c \in Clients : RequestStep(c)
  BY <1>1, <1>3 DEF RequestStep, ReadCancel, ReadRetry, CommitCancel, CommitRetry, Abandon
<1>4. CASE \E p \in Procs : ProcessStep(p)
  BY <1>1, <1>4 DEF ProcessStep, Create, Dispatch, DispatchFails, DeliveryLost, Scan, Crash, Stop, Halt, Boot
<1>5. CASE \E w \in Workers : WorkerStep(w)
  BY <1>1, <1>2, <1>5
  DEF WorkerStep, Pickup, Advance, Claim, ClaimInterrupted, ClaimNothing, Reserve, HeartbeatStops,
      FenceRefuses, Start, Begin, Invoke, Respond, Raise, Fail, FailStale, FailUnrecorded, Done
<1>. QED BY <1>1, <1>3, <1>4, <1>5 DEF Next, vars, LeaseEnds, LeaseLost

\* No number beyond the row's has committed, nor the present one of a job that
\* runs: the invariant that makes every commit the first of its attempt.
THEOREM CommitsStayBelow == Spec => []CommitsBelow
<1>1. Init => CommitsBelow
  BY DEF Init, CommitsBelow, AbsentRow
<1>2. TypeOK /\ CommitsBelow /\ [Next]_vars => CommitsBelow'
  <2>. SUFFICES ASSUME TypeOK, CommitsBelow, [Next]_vars, NEW j \in Jobs
                PROVE  /\ \A a \in commits'[j] : a <= job'[j].attempts
                       /\ job'[j].state = "RUNNING" => job'[j].attempts \notin commits'[j]
    BY DEF CommitsBelow
  <2>1. /\ job[j].attempts \in Nat
        /\ commits[j] \subseteq Nat
        /\ \A a \in commits[j] : a <= job[j].attempts
        /\ job[j].state = "RUNNING" => job[j].attempts \notin commits[j]
    BY DEF TypeOK, Row, CommitsBelow
  <2>2. CASE commits'[j] = commits[j]
    BY <2>1, <2>2, RowSteps DEF RowMoves
  <2>3. CASE /\ commits'[j] = commits[j] \cup {job[j].attempts}
             /\ job'[j].state = "SUCCEEDED"
             /\ job'[j].attempts = job[j].attempts
    BY <2>1, <2>3
  <2>. QED BY <2>2, <2>3, CommitSteps
<1>. QED BY <1>1, <1>2, TypeCorrect, PTL DEF Spec

\* No stale worker finishes over a newer one, and no attempt finishes twice.
THEOREM NewestCommits == Spec => CommitsByNewest
<1>1. TypeOK /\ CommitsBelow /\ [Next]_vars =>
        [\A j \in Jobs : commits'[j] # commits[j] =>
            /\ commits'[j] = commits[j] \cup {job[j].attempts}
            /\ job[j].attempts \notin commits[j]]_vars
  BY CommitSteps DEF CommitsBelow
<1>. QED BY <1>1, TypeCorrect, CommitsStayBelow, PTL DEF Spec, CommitsByNewest

-------------------------------------------------------------------------------
(* Billing of manual-retry jobs.                                           *)

\* What makes BilledByPresent an invariant of one job's step.
PresentOnly(j, charged, row) ==
    /\ j \notin Answers => charged = {}
    /\ j \in Manual => /\ charged \subseteq {row.attempts}
                       /\ row.state \in {"ABSENT", "QUEUED"} => charged = {}

\* Steps that leave billed alone and neither queue a row nor change its token.
QuietRow(j) ==
    /\ billed'[j] = billed[j]
    /\ job'[j].attempts = job[j].attempts
    /\ job'[j].state \in {"ABSENT", "QUEUED"} => job[j].state \in {"ABSENT", "QUEUED"}

\* A step keeps the bill of every job to its present attempt.
LEMMA BilledSteps ==
    ASSUME TypeOK, [Next]_vars, NEW j \in Jobs, PresentOnly(j, billed[j], job[j])
    PROVE  PresentOnly(j, billed'[j], job'[j])
<1>. /\ job \in [Jobs -> Row] /\ job[j] \in Row /\ job[j].attempts \in Nat
     /\ billed \in [Jobs -> SUBSET Nat]
  BY DEF TypeOK, Row
<1>q. ASSUME QuietRow(j) PROVE PresentOnly(j, billed'[j], job'[j])
  BY <1>q DEF QuietRow, PresentOnly
<1>1. CASE UNCHANGED <<job, billed>>
  BY <1>1
<1>2. ASSUME NEW c \in Clients, CommitCancel(c) PROVE PresentOnly(j, billed'[j], job'[j])
  <2>1. req[c].job \in Jobs /\ req[c].row \in Row
    BY <1>2, RequestHasRow DEF CommitCancel
  <2>2. /\ job' = [job EXCEPT ![req[c].job] = Flush(@, req[c].row, CancelledRow(req[c].row))]
        /\ billed' = billed
    BY <1>2 DEF CommitCancel
  <2>. QED BY <1>q, <2>1, <2>2, FlushMoves DEF QuietRow
<1>3. ASSUME NEW c \in Clients, NEW p \in Procs, CommitRetry(c, p)
      PROVE  PresentOnly(j, billed'[j], job'[j])
  <2>1. /\ job' = [job EXCEPT ![req[c].job] = Flush(@, req[c].row, RequeuedRow(req[c].row))]
        /\ billed' = [billed EXCEPT ![req[c].job] = {}]
    BY <1>3 DEF CommitRetry
  <2>. QED BY <1>q, <2>1 DEF QuietRow, PresentOnly
<1>4. ASSUME NEW p \in Procs, NEW k \in Jobs, Create(p, k) PROVE PresentOnly(j, billed'[j], job'[j])
  BY <1>4 DEF Create, PresentOnly, Row
<1>5. ASSUME NEW k \in Jobs, LeaseEnds(k) \/ LeaseLost(k) PROVE PresentOnly(j, billed'[j], job'[j])
  BY <1>q, <1>5 DEF LeaseEnds, LeaseLost, QuietRow, Row
<1>6. ASSUME NEW w \in Workers, NEW k \in Jobs, Claim(w, k) PROVE PresentOnly(j, billed'[j], job'[j])
  <2>1. /\ job' = [job EXCEPT ![k] = ClaimedRow(@)] /\ billed' = billed
        /\ k \in Manual => job[k].state = "QUEUED"
    BY <1>6 DEF Claim, Claimable, Interrupted, Open
  <2>2. ClaimedRow(job[j]).state = "RUNNING"
    BY DEF ClaimedRow, Row
  <2>. QED BY <2>1, <2>2 DEF PresentOnly
<1>7. ASSUME NEW w \in Workers, NEW k \in Jobs, Reserve(w, k) PROVE PresentOnly(j, billed'[j], job'[j])
  BY <1>7 DEF Reserve, PresentOnly
<1>8. ASSUME NEW w \in Workers, NEW k \in Jobs, ClaimInterrupted(w, k)
      PROVE  PresentOnly(j, billed'[j], job'[j])
  <2>1. InterruptedRow(job[j]).state \notin {"ABSENT", "QUEUED"}
    BY DEF InterruptedRow, Row
  <2>. QED BY <1>q, <1>8, <2>1, WrittenRows DEF ClaimInterrupted, Interrupt, QuietRow
<1>9. ASSUME NEW w \in Workers, Finish(w) PROVE PresentOnly(j, billed'[j], job'[j])
  BY <1>q, <1>9, WrittenRows DEF Finish, QuietRow
<1>10. ASSUME NEW w \in Workers, Fail(w) PROVE PresentOnly(j, billed'[j], job'[j])
  <2>1. work[w].job \in Manual => Ending(w) \in {"CANCELLED", "FAILED"}
    BY DEF Ending, WillRetry
  <2>2. job' = [job EXCEPT ![work[w].job] = FailedRow(@, Ending(w), work[w].exc)] /\ billed' = billed
    BY <1>10 DEF Fail
  <2>3. CASE work[w].job \in Manual \/ j # work[w].job
    BY <1>q, <2>1, <2>2, <2>3, WrittenRows DEF QuietRow
  <2>4. CASE work[w].job \notin Manual /\ j = work[w].job
    BY <2>2, <2>4 DEF PresentOnly
  <2>. QED BY <2>3, <2>4
<1>11. ASSUME NEW w \in Workers, Invoke(w) PROVE PresentOnly(j, billed'[j], job'[j])
  <2>1. /\ billed' = [billed EXCEPT ![work[w].job] = @ \cup {work[w].attempt}]
        /\ job' = job
        /\ work[w].job \in Answers
        /\ job[work[w].job].attempts = work[w].attempt
        /\ job[work[w].job].state = "RUNNING"
    BY <1>11 DEF Invoke, Fenced, Holds
  <2>. QED BY <2>1 DEF PresentOnly
<1>12. CASE \E c \in Clients : RequestStep(c)
  BY <1>1, <1>2, <1>3, <1>12 DEF RequestStep, ReadCancel, ReadRetry, Abandon
<1>13. CASE \E p \in Procs : ProcessStep(p)
  BY <1>1, <1>4, <1>13
  DEF ProcessStep, Dispatch, DispatchFails, DeliveryLost, Scan, Crash, Stop, Halt, Boot
<1>14. CASE \E w \in Workers : WorkerStep(w)
  BY <1>1, <1>6, <1>7, <1>8, <1>9, <1>10, <1>11, <1>14
  DEF WorkerStep, Pickup, Advance, ClaimNothing, HeartbeatStops, FenceRefuses, Start, Begin,
      Respond, Raise, FailStale, FailUnrecorded, Done
<1>. QED BY <1>1, <1>5, <1>12, <1>13, <1>14 DEF Next, vars

\* A manual-retry job is billed under its present attempt only.
THEOREM BilledPresently == Spec => []BilledByPresent
<1>1. Init => BilledByPresent
  BY DEF Init, BilledByPresent
<1>2. TypeOK /\ BilledByPresent /\ [Next]_vars => BilledByPresent'
  BY BilledSteps DEF BilledByPresent, PresentOnly
<1>. QED BY <1>1, <1>2, TypeCorrect, PTL DEF Spec

\* Where every answer is a manual-retry job, no model request is repeated
\* between two requests of a person, whatever crashes or loses its lease.
THEOREM ManualNeverReplays ==
    ASSUME Answers \subseteq Manual
    PROVE  Spec => []NoSilentReplay
<1>1. BilledByPresent => NoSilentReplay
  BY DEF BilledByPresent, NoSilentReplay
<1>. QED BY <1>1, BilledPresently, PTL

-------------------------------------------------------------------------------
(* The engine on SQLite.                                                   *)

\* The parts of EngineInv that speak of one job.
Sound(j, row, r, done) ==
    /\ row.cancel => row.state \in {"RUNNING", "CANCELLED"}
    /\ row.state = "CANCELLED" => row.cancel
    /\ done = IF row.state = "SUCCEEDED" THEN {row.attempts} ELSE {}
    /\ j \in Answers =>
          /\ row.state \in {"ABSENT", "QUEUED"} => r = "QUEUED"
          /\ row.state = "RUNNING" => r \in {"QUEUED", "RUNNING"}
          /\ row.state = "SUCCEEDED" <=> r = "COMPLETED"
          /\ row.state = "FAILED" <=> r = "FAILED"
          /\ row.state = "CANCELLED" <=> r = "CANCELLED"

AllSound == \A j \in Jobs : Sound(j, job[j], run[j], commits[j])

\* EngineInv is what requests have read, what workers have seen, and AllSound.
LEMMA EngineParts ==
    ASSUME TypeOK
    PROVE  EngineInv <=> RequestsFresh /\ CancelSeen /\ AllSound
BY SetsAssumption DEF EngineInv, CancelRecorded, RunOpen, EffectsOnce, RunMirrorsJob, AllSound, Sound

\* A flush of what is still stored writes what the request assigned.
LEMMA FreshFlush ==
    ASSUME NEW c \in Clients, RequestFresh(c), NEW assigned
    PROVE  LET row == Flush(job[req[c].job], req[c].row, assigned)
           IN  /\ row.state = assigned.state
               /\ row.attempts = assigned.attempts
               /\ row.cancel = assigned.cancel
               /\ row.error = assigned.error
BY DEF RequestFresh, Flush, Column

\* A cancellation keeps its job sound: a queued one ends with its run.
LEMMA CancelSound ==
    ASSUME TypeOK, RequestsFresh, AllSound, NEW c \in Clients, CommitCancel(c)
    PROVE  AllSound'
<1>. DEFINE k == req[c].job
            loaded == req[c].row
<1>1. k \in Jobs /\ loaded \in Row /\ RequestFresh(c) /\ loaded.state \in Open
  BY RequestHasRow DEF CommitCancel, RequestsFresh, RequestFresh
<1>2. /\ CancelledRow(loaded).cancel = TRUE
      /\ CancelledRow(loaded).state = IF loaded.state = "QUEUED" THEN "CANCELLED" ELSE loaded.state
      /\ CancelledRow(loaded).attempts = loaded.attempts
  BY <1>1 DEF CancelledRow, Row
<1>3. /\ job'[k].cancel = TRUE
      /\ job'[k].state = IF job[k].state = "QUEUED" THEN "CANCELLED" ELSE "RUNNING"
      /\ job'[k].attempts = job[k].attempts
      /\ job[k].state \in Open
  <2>1. /\ loaded.state = job[k].state /\ loaded.attempts = job[k].attempts
        /\ job[k].state \in {"QUEUED", "RUNNING"}
    BY <1>1 DEF RequestFresh, Open
  <2>2. job'[k] = Flush(job[k], loaded, CancelledRow(loaded))
    BY <1>1 DEF CommitCancel, TypeOK
  <2>3. /\ job'[k].cancel = CancelledRow(loaded).cancel
        /\ job'[k].state = CancelledRow(loaded).state
        /\ job'[k].attempts = CancelledRow(loaded).attempts
    BY <1>1, <2>2, FreshFlush
  <2>. QED BY <1>2, <2>1, <2>3 DEF Open
<1>4. /\ \A j \in Jobs \ {k} : job'[j] = job[j] /\ run'[j] = run[j]
      /\ commits' = commits
      /\ k \in Answers => run'[k] = IF job[k].state = "QUEUED" THEN "CANCELLED" ELSE run[k]
  BY <1>1 DEF CommitCancel, TypeOK, RequestFresh, Column
<1>5. Sound(k, job'[k], run'[k], commits'[k])
  BY <1>1, <1>3, <1>4 DEF AllSound, Sound, Open
<1>. QED BY <1>4, <1>5 DEF AllSound

\* A retry keeps its job sound: job and run are queued, and no stop is left.
LEMMA RetrySound ==
    ASSUME TypeOK, RequestsFresh, AllSound, NEW c \in Clients, NEW p \in Procs, CommitRetry(c, p)
    PROVE  AllSound'
<1>. DEFINE k == req[c].job
            loaded == req[c].row
<1>1. k \in Jobs /\ loaded \in Row /\ RequestFresh(c) /\ loaded.state \in {"FAILED", "CANCELLED"}
  BY RequestHasRow DEF CommitRetry, RequestsFresh, RequestFresh
<1>2. /\ RequeuedRow(loaded).cancel = FALSE
      /\ RequeuedRow(loaded).state = "QUEUED"
      /\ RequeuedRow(loaded).attempts = loaded.attempts
  BY <1>1 DEF RequeuedRow, Row
<1>3. /\ job'[k].cancel = FALSE
      /\ job'[k].state = "QUEUED"
      /\ job[k].state \in {"FAILED", "CANCELLED"}
  BY <1>1, <1>2, FreshFlush DEF CommitRetry, TypeOK, RequestFresh
<1>4. /\ \A j \in Jobs \ {k} : job'[j] = job[j] /\ run'[j] = run[j]
      /\ commits' = commits
      /\ k \in Answers => run'[k] = "QUEUED"
  BY <1>1 DEF CommitRetry, TypeOK, RequestFresh, Column
<1>5. Sound(k, job'[k], run'[k], commits'[k])
  BY <1>1, <1>3, <1>4 DEF AllSound, Sound
<1>. QED BY <1>4, <1>5 DEF AllSound

\* A worker's claim, reservation or interruption keeps its job sound.
LEMMA ClaimSound ==
    ASSUME TypeOK, AllSound, NEW w \in Workers, NEW k \in Jobs,
           Claim(w, k) \/ Reserve(w, k) \/ ClaimInterrupted(w, k)
    PROVE  AllSound'
<1>. job \in [Jobs -> Row] /\ job[k] \in Row /\ run \in [Jobs -> RunStates] /\ Sound(k, job[k], run[k], commits[k])
  BY DEF TypeOK, AllSound
<1>1. CASE Claim(w, k) \/ Reserve(w, k)
  <2>1. /\ job' = [job EXCEPT ![k] = ClaimedRow(@)] /\ run' = run /\ commits' = commits
        /\ job[k].state \in Open \cup {"ABSENT"}
        /\ k \in Answers => job[k].state \in Open
    BY <1>1 DEF Claim, Claimable, Reserve, Open
  <2>2. ClaimedRow(job[k]).state = "RUNNING" /\ ClaimedRow(job[k]).cancel = job[k].cancel
    BY DEF ClaimedRow, Row
  <2>3. Sound(k, ClaimedRow(job[k]), run[k], commits[k])
    BY <2>1, <2>2 DEF Sound, Open
  <2>. QED BY <2>1, <2>3 DEF AllSound
<1>2. CASE ClaimInterrupted(w, k)
  <2>1. /\ job' = [job EXCEPT ![k] = InterruptedRow(@)] /\ commits' = commits
        /\ job[k].state = "RUNNING"
        /\ run' = IF k \in Answers /\ run[k] \notin {"COMPLETED", "CANCELLED"}
                  THEN [run EXCEPT ![k] = InterruptedRow(job[k]).state]
                  ELSE run
    BY <1>2 DEF ClaimInterrupted, Interrupted, Interrupt
  <2>2. /\ InterruptedRow(job[k]).state = IF job[k].cancel THEN "CANCELLED" ELSE "FAILED"
        /\ InterruptedRow(job[k]).cancel = job[k].cancel
    BY DEF InterruptedRow, Row
  <2>3. Sound(k, job'[k], run'[k], commits'[k])
    BY <2>1, <2>2 DEF Sound
  <2>4. \A j \in Jobs \ {k} : job'[j] = job[j] /\ run'[j] = run[j]
    BY <2>1
  <2>. QED BY <2>1, <2>3, <2>4 DEF AllSound
<1>. QED BY <1>1, <1>2

\* What a worker writes to its row and run keeps its job sound.
LEMMA WorkSound ==
    ASSUME TypeOK, AllSound, CancelSeen, NEW w \in Workers, Begin(w) \/ Finish(w) \/ Fail(w)
    PROVE  AllSound'
<1>. DEFINE k == work[w].job
<1>0. k \in Jobs
  BY ActiveHasJob DEF Begin, Finish, Fail
<1>. /\ job \in [Jobs -> Row] /\ job[k] \in Row /\ run \in [Jobs -> RunStates]
     /\ commits \in [Jobs -> SUBSET Nat] /\ Sound(k, job[k], run[k], commits[k])
  BY <1>0 DEF TypeOK, AllSound
<1>1. CASE Begin(w)
  <2>1. /\ job' = job /\ commits' = commits /\ job[k].state = "RUNNING"
        /\ run' = IF k \in Answers THEN [run EXCEPT ![k] = "RUNNING"] ELSE run
    BY <1>1 DEF Begin, Fenced, Holds
  <2>. QED BY <1>0, <2>1 DEF AllSound, Sound
<1>2. CASE Finish(w)
  <2>1. /\ job' = [job EXCEPT ![k] = FinishedRow(@)]
        /\ run' = IF k \in Answers THEN [run EXCEPT ![k] = "COMPLETED"] ELSE run
        /\ commits' = [commits EXCEPT ![k] = @ \cup {work[w].attempt}]
        /\ job[k].attempts = work[w].attempt /\ job[k].state = "RUNNING" /\ ~job[k].cancel
    BY <1>2 DEF Finish, Fenced, Holds
  <2>2. FinishedRow(job[k]).cancel = job[k].cancel
    BY DEF FinishedRow, Row
  <2>3. /\ job'[k] = FinishedRow(job[k])
        /\ commits'[k] = commits[k] \cup {job[k].attempts}
        /\ k \in Answers => run'[k] = "COMPLETED"
    BY <1>0, <2>1
  <2>4. /\ job'[k].state = "SUCCEEDED"
        /\ job'[k].attempts = job[k].attempts
        /\ ~job'[k].cancel
    BY <2>1, <2>2, <2>3, WrittenRows
  <2>5. commits'[k] = {job[k].attempts}
    BY <2>1, <2>3 DEF Sound
  <2>6. Sound(k, job'[k], run'[k], commits'[k])
    BY <2>3, <2>4, <2>5 DEF Sound
  <2>7. \A j \in Jobs \ {k} : job'[j] = job[j] /\ run'[j] = run[j] /\ commits'[j] = commits[j]
    BY <1>0, <2>1
  <2>. QED BY <2>6, <2>7 DEF AllSound
<1>3. CASE Fail(w)
  <2>. DEFINE ending == Ending(w)
  <2>1. /\ job' = [job EXCEPT ![k] = FailedRow(@, ending, work[w].exc)]
        /\ run' = IF k \in Answers /\ run[k] # "COMPLETED" THEN [run EXCEPT ![k] = ending] ELSE run
        /\ commits' = commits
        /\ job[k].attempts = work[w].attempt /\ job[k].state = "RUNNING"
        /\ work[w].pc = "failing"
    BY <1>3 DEF Fail, Holds
  <2>2. /\ ending \in {"CANCELLED", "QUEUED", "FAILED"}
        /\ job[k].cancel => ending = "CANCELLED"
        /\ ending = "CANCELLED" => job[k].cancel
    BY <2>1 DEF Ending, CancelSeen
  <2>3. FailedRow(job[k], ending, work[w].exc).cancel = job[k].cancel
    BY DEF FailedRow, Row
  <2>4. /\ job'[k] = FailedRow(job[k], ending, work[w].exc)
        /\ k \in Answers => run'[k] = ending
    BY <1>0, <2>1 DEF Sound
  <2>5. job'[k].state = ending /\ job'[k].cancel = job[k].cancel
    BY <2>3, <2>4, WrittenRows
  <2>6. Sound(k, job'[k], run'[k], commits'[k])
    BY <1>0, <2>1, <2>2, <2>4, <2>5 DEF Sound
  <2>7. \A j \in Jobs \ {k} : job'[j] = job[j] /\ run'[j] = run[j] /\ commits'[j] = commits[j]
    BY <1>0, <2>1
  <2>. QED BY <2>6, <2>7 DEF AllSound
<1>. QED BY <1>1, <1>2, <1>3

\* Every step keeps every job sound.
LEMMA SoundSteps ==
    ASSUME TypeOK, RequestsFresh, CancelSeen, AllSound, [Next]_vars
    PROVE  AllSound'
<1>. job \in [Jobs -> Row] /\ \A j \in Jobs : job[j] \in Row /\ Sound(j, job[j], run[j], commits[j])
  BY DEF TypeOK, AllSound
<1>1. CASE UNCHANGED <<job, run, commits>>
  BY <1>1 DEF AllSound
<1>2. ASSUME NEW p \in Procs, NEW k \in Jobs, Create(p, k) PROVE AllSound'
  <2>1. /\ \A j \in Jobs \ {k} : job'[j] = job[j]
        /\ job'[k].state = "QUEUED" /\ job'[k].cancel = job[k].cancel
        /\ job[k].state = "ABSENT" /\ run' = run /\ commits' = commits
    BY <1>2 DEF Create, Row
  <2>2. Sound(k, job'[k], run'[k], commits'[k])
    BY <2>1 DEF Sound
  <2>. QED BY <2>1, <2>2 DEF AllSound
<1>3. ASSUME NEW k \in Jobs, LeaseEnds(k) \/ LeaseLost(k) PROVE AllSound'
  <2>1. /\ \A j \in Jobs \ {k} : job'[j] = job[j]
        /\ job'[k].state = job[k].state /\ job'[k].cancel = job[k].cancel
        /\ job'[k].attempts = job[k].attempts /\ run' = run /\ commits' = commits
    BY <1>3 DEF LeaseEnds, LeaseLost, Row
  <2>2. Sound(k, job'[k], run'[k], commits'[k])
    BY <2>1 DEF Sound
  <2>. QED BY <2>1, <2>2 DEF AllSound
<1>4. CASE \E c \in Clients : RequestStep(c)
  BY <1>1, <1>4, CancelSound, RetrySound DEF RequestStep, ReadCancel, ReadRetry, Abandon
<1>5. CASE \E p \in Procs : ProcessStep(p)
  BY <1>1, <1>2, <1>5
  DEF ProcessStep, Dispatch, DispatchFails, DeliveryLost, Scan, Crash, Stop, Halt, Boot
<1>6. CASE \E w \in Workers : WorkerStep(w)
  BY <1>1, <1>6, ClaimSound, WorkSound
  DEF WorkerStep, Pickup, Advance, ClaimNothing, HeartbeatStops, FenceRefuses, Start, Invoke,
      Respond, Raise, FailStale, FailUnrecorded, Done
<1>. QED BY <1>1, <1>3, <1>4, <1>5, <1>6 DEF Next, vars

\* What a request has read stays true of row j and its run.
Kept(j) ==
    /\ job'[j].state = job[j].state
    /\ job'[j].attempts = job[j].attempts
    /\ job'[j].cancel = job[j].cancel
    /\ job'[j].error = job[j].error
    /\ job[j].lease = "none" => job'[j].lease = "none"
    /\ run'[j] = run[j]

\* While a request holds the write lock of SQLite, every step leaves what it
\* has read alone, or is its own end.
LEMMA LockedSteps ==
    ASSUME TypeOK, Serial, RequestsFresh, [Next]_vars, NEW c \in Clients, req[c].op # "none"
    PROVE  req' = [req EXCEPT ![c] = NoRequest] \/ (req' = req /\ \A j \in Jobs : Kept(j))
<1>. ~Unlocked /\ \A d \in Clients : req[d].op # "none" => d = c
  BY DEF Unlocked, RequestsFresh
<1>1. CASE UNCHANGED <<job, run, req>>
  BY <1>1 DEF Kept
<1>2. ASSUME NEW j \in Jobs, LeaseEnds(j) \/ LeaseLost(j)
      PROVE  req' = req /\ \A k \in Jobs : Kept(k)
  <2>1. /\ job' = [job EXCEPT ![j].lease = "over"] /\ job[j].lease # "none"
        /\ req' = req /\ run' = run
    BY <1>2 DEF LeaseEnds, LeaseLost
  <2>2. \A k \in Jobs : job[k] \in Row
    BY DEF TypeOK
  <2>3. \A k \in Jobs \ {j} : job'[k] = job[k]
    BY <2>1 DEF TypeOK
  <2>4. /\ job'[j].state = job[j].state /\ job'[j].attempts = job[j].attempts
        /\ job'[j].cancel = job[j].cancel /\ job'[j].error = job[j].error
    BY <2>1, <2>2 DEF TypeOK, Row
  <2>. QED BY <2>1, <2>3, <2>4 DEF Kept
<1>3. CASE \E d \in Clients : RequestStep(d)
  BY <1>3 DEF RequestStep, ReadCancel, ReadRetry, CommitCancel, CommitRetry, Abandon
<1>4. CASE \E p \in Procs : ProcessStep(p)
  BY <1>1, <1>4
  DEF ProcessStep, Create, Scan, Dispatch, DispatchFails, DeliveryLost, Crash, Stop, Halt, Boot
<1>5. ASSUME NEW w \in Workers, WorkerStep(w)
      PROVE  UNCHANGED <<job, run, req>>
  <2>1. ~Pickup(w) /\ ~\E j \in Jobs : Reserve(w, j)
    BY DEF Pickup, Claim, ClaimInterrupted, ClaimNothing, Take, Reserve
  <2>2. ~(Begin(w) \/ Finish(w) \/ Fail(w))
    BY DEF Begin, Finish, Fail
  <2>. QED BY <1>5, <2>1, <2>2
       DEF WorkerStep, Advance, HeartbeatStops, FenceRefuses, Start, Invoke, Respond, Raise,
           FailStale, FailUnrecorded, Done
<1>. QED BY <1>1, <1>2, <1>3, <1>4, <1>5 DEF Next, vars

\* A request begins by reading what is stored, and no other step begins one.
LEMMA FreshReads ==
    ASSUME TypeOK, [Next]_vars, \A c \in Clients : req[c].op = "none"
    PROVE  \/ req' = req
           \/ /\ UNCHANGED <<job, run>>
              /\ \E c \in Clients, j \in Jobs, op \in {"cancel", "retry"} :
                   /\ req' = [req EXCEPT ![c] = [op |-> op, job |-> j, row |-> job[j], run |-> run[j]]]
                   /\ job[j].state \in IF op = "cancel" THEN Open ELSE {"FAILED", "CANCELLED"}
<1>1. ASSUME NEW c \in Clients, RequestStep(c)
      PROVE  /\ UNCHANGED <<job, run>>
             /\ \E j \in Jobs, op \in {"cancel", "retry"} :
                  /\ req' = [req EXCEPT ![c] = [op |-> op, job |-> j, row |-> job[j], run |-> run[j]]]
                  /\ job[j].state \in IF op = "cancel" THEN Open ELSE {"FAILED", "CANCELLED"}
  <2>1. PICK j \in Jobs : ReadCancel(c, j) \/ ReadRetry(c, j)
    BY <1>1 DEF RequestStep, CommitCancel, CommitRetry, Abandon
  <2>2. CASE ReadCancel(c, j)
    BY <2>2 DEF ReadCancel
  <2>3. CASE ReadRetry(c, j)
    BY <2>3 DEF ReadRetry
  <2>. QED BY <2>1, <2>2, <2>3
<1>2. CASE \E p \in Procs : ProcessStep(p)
  BY <1>2
  DEF ProcessStep, Create, Scan, Dispatch, DispatchFails, DeliveryLost, Crash, Stop, Halt, Boot
<1>3. CASE \E w \in Workers : WorkerStep(w)
  BY <1>3
  DEF WorkerStep, Pickup, Advance, Claim, ClaimInterrupted, ClaimNothing, Reserve,
      HeartbeatStops, FenceRefuses, Start, Begin, Invoke, Respond, Finish, Raise, Fail,
      FailStale, FailUnrecorded, Done
<1>. QED BY <1>1, <1>2, <1>3 DEF Next, vars, LeaseEnds, LeaseLost

\* On SQLite no two requests overlap, and what a request read is what is stored.
LEMMA FreshSteps ==
    ASSUME TypeOK, Serial, RequestsFresh, [Next]_vars
    PROVE  RequestsFresh'
<1>. req \in [Clients -> Request]
  BY DEF TypeOK
<1>1. CASE \E c \in Clients : req[c].op # "none"
  <2>1. PICK c \in Clients : req[c].op # "none"
    BY <1>1
  <2>2. \A d \in Clients : req[d].op # "none" => d = c
    BY <2>1 DEF RequestsFresh
  <2>3. CASE req' = [req EXCEPT ![c] = NoRequest]
    BY <2>2, <2>3 DEF RequestsFresh, NoRequest
  <2>4. CASE req' = req /\ \A j \in Jobs : Kept(j)
    <3>1. req[c].job \in Jobs /\ RequestFresh(c)
      BY <2>1, RequestHasRow DEF RequestsFresh
    <3>2. RequestFresh(c)'
      BY <2>4, <3>1 DEF RequestFresh, Kept
    <3>. QED BY <2>2, <2>4, <3>2 DEF RequestsFresh
  <2>. QED BY <2>1, <2>3, <2>4, LockedSteps
<1>2. CASE \A c \in Clients : req[c].op = "none"
  <2>1. CASE req' = req
    BY <1>2, <2>1 DEF RequestsFresh
  <2>2. ASSUME NEW c \in Clients, NEW j \in Jobs, NEW op \in {"cancel", "retry"},
               UNCHANGED <<job, run>>,
               req' = [req EXCEPT ![c] = [op |-> op, job |-> j, row |-> job[j], run |-> run[j]]],
               job[j].state \in IF op = "cancel" THEN Open ELSE {"FAILED", "CANCELLED"}
        PROVE  RequestsFresh'
    <3>1. RequestFresh(c)'
      BY <2>2 DEF RequestFresh
    <3>2. \A d \in Clients : req'[d].op # "none" => d = c
      BY <1>2, <2>2
    <3>. QED BY <3>1, <3>2 DEF RequestsFresh
  <2>. QED BY <1>2, <2>1, <2>2, FreshReads
<1>. QED BY <1>1, <1>2

\* A row that runs on under its token keeps a stop request.
LEMMA StopsKept ==
    ASSUME TypeOK, RequestsFresh, [Next]_vars, NEW j \in Jobs,
           job'[j].attempts = job[j].attempts, job'[j].state = "RUNNING", job[j].cancel
    PROVE  job'[j].cancel
<1>. job \in [Jobs -> Row] /\ job[j] \in Row
  BY DEF TypeOK
<1>1. CASE UNCHANGED job
  BY <1>1
<1>2. ASSUME NEW c \in Clients, CommitCancel(c) PROVE job'[j].cancel
  <2>1. req[c].job \in Jobs /\ req[c].row \in Row /\ RequestFresh(c)
    BY <1>2, RequestHasRow DEF CommitCancel, RequestsFresh
  <2>2. CancelledRow(req[c].row).cancel
    BY <2>1 DEF CancelledRow, Row
  <2>. QED BY <1>2, <2>1, <2>2, FreshFlush DEF CommitCancel
<1>3. ASSUME NEW c \in Clients, NEW p \in Procs, CommitRetry(c, p) PROVE job'[j].cancel
  <2>1. req[c].job \in Jobs /\ req[c].row \in Row /\ RequestFresh(c)
    BY <1>3, RequestHasRow DEF CommitRetry, RequestsFresh
  <2>2. RequeuedRow(req[c].row).state = "QUEUED"
    BY <2>1 DEF RequeuedRow, Row
  <2>. QED BY <1>3, <2>1, <2>2, FreshFlush DEF CommitRetry
<1>4. ASSUME NEW p \in Procs, NEW k \in Jobs, Create(p, k) PROVE job'[j].cancel
  BY <1>4 DEF Create, Row
<1>5. ASSUME NEW k \in Jobs, LeaseEnds(k) \/ LeaseLost(k) PROVE job'[j].cancel
  BY <1>5 DEF LeaseEnds, LeaseLost, Row
<1>6. ASSUME NEW w \in Workers, NEW k \in Jobs, Claim(w, k) \/ Reserve(w, k) PROVE job'[j].cancel
  <2>1. job' = [job EXCEPT ![k] = ClaimedRow(@)]
    BY <1>6 DEF Claim, Reserve
  <2>2. ClaimedRow(job[j]).cancel = job[j].cancel
    BY DEF ClaimedRow, Row
  <2>. QED BY <2>1, <2>2
<1>7. ASSUME NEW w \in Workers, NEW k \in Jobs, ClaimInterrupted(w, k) PROVE job'[j].cancel
  BY <1>7, WrittenRows DEF ClaimInterrupted, Interrupt
<1>8. ASSUME NEW w \in Workers, Finish(w) PROVE job'[j].cancel
  BY <1>8, WrittenRows DEF Finish
<1>9. ASSUME NEW w \in Workers, Fail(w) PROVE job'[j].cancel
  <2>1. Ending(w) # "RUNNING"
    BY DEF Ending
  <2>. QED BY <1>9, <2>1, WrittenRows DEF Fail
<1>10. CASE \E c \in Clients : RequestStep(c)
  BY <1>1, <1>2, <1>3, <1>10 DEF RequestStep, ReadCancel, ReadRetry, Abandon
<1>11. CASE \E p \in Procs : ProcessStep(p)
  BY <1>1, <1>4, <1>11 DEF ProcessStep, Dispatch, DispatchFails, DeliveryLost, Scan, Crash, Stop, Halt, Boot
<1>12. CASE \E w \in Workers : WorkerStep(w)
  BY <1>1, <1>6, <1>7, <1>8, <1>9, <1>12
  DEF WorkerStep, Pickup, Advance, ClaimNothing, HeartbeatStops, FenceRefuses, Start, Begin, Invoke,
      Respond, Raise, FailStale, FailUnrecorded, Done
<1>. QED BY <1>1, <1>5, <1>10, <1>11, <1>12 DEF Next, vars

\* A worker that a cancellation has stopped.
Stopped(w) == work[w].pc = "failing" /\ work[w].exc = "cancelled"

\* Only a recorded stop request stops a worker.
LEMMA StopSteps ==
    ASSUME TypeOK, [Next]_vars, NEW w \in Workers, Stopped(w)'
    PROVE  \/ /\ Stopped(w)
              /\ work'[w].job = work[w].job
              /\ work'[w].attempt = work[w].attempt
           \/ job[work'[w].job].cancel /\ job' = job
<1>. work \in [Workers -> Work]
  BY DEF TypeOK
<1>1. CASE work'[w] = work[w]
  BY <1>1 DEF Stopped
<1>2. ASSUME NEW x \in Workers, work' = Closing(x)
      PROVE  work'[w] = work[w]
  BY <1>2 DEF Closing, Stopped
<1>3. ASSUME NEW x \in Workers, NEW pc, NEW exc, work' = Moved(x, pc, exc),
             pc # "failing" \/ exc # "cancelled"
      PROVE  work'[w] = work[w]
  BY <1>3 DEF Moved, Stopped
<1>4. ASSUME NEW p \in Procs, Crash(p) PROVE work'[w] = work[w]
  BY <1>4 DEF Crash, Stopped, Idle
<1>5. ASSUME NEW x \in Workers, NEW k \in Jobs, Claim(x, k) \/ Reserve(x, k)
      PROVE  work'[w] = work[w]
  BY <1>5 DEF Claim, Reserve, Claimed, Stopped
<1>6. ASSUME NEW x \in Workers, FenceRefuses(x)
      PROVE  work'[w] = work[w] \/ (job[work'[w].job].cancel /\ job' = job)
  BY <1>2, <1>6 DEF FenceRefuses, Moved
<1>7. ASSUME NEW x \in Workers, HeartbeatStops(x)
      PROVE  /\ Stopped(w)
             /\ work'[w].job = work[w].job
             /\ work'[w].attempt = work[w].attempt
  <2>1. work' = [work EXCEPT ![x].beating = FALSE] /\ work[x] \in Attempt
    BY <1>7, ActiveHasJob DEF HeartbeatStops, Active
  <2>2. /\ [work[x] EXCEPT !.beating = FALSE].pc = work[x].pc
        /\ [work[x] EXCEPT !.beating = FALSE].job = work[x].job
        /\ [work[x] EXCEPT !.beating = FALSE].exc = work[x].exc
        /\ [work[x] EXCEPT !.beating = FALSE].attempt = work[x].attempt
    BY <2>1 DEF Attempt
  <2>. QED BY <2>1, <2>2 DEF Stopped
<1>8. ASSUME NEW x \in Workers, Done(x) PROVE work'[w] = work[w]
  BY <1>8 DEF Done, Stopped, Idle
<1>9. ASSUME NEW x \in Workers,
             Start(x) \/ Begin(x) \/ Invoke(x) \/ Respond(x) \/ Finish(x)
             \/ Raise(x) \/ Fail(x) \/ FailStale(x) \/ FailUnrecorded(x)
      PROVE  work'[w] = work[w]
  BY <1>2, <1>3, <1>9
  DEF Start, Begin, Invoke, Respond, Finish, Raise, Fail, FailStale, FailUnrecorded
<1>10. CASE \E c \in Clients : RequestStep(c)
  BY <1>1, <1>10 DEF RequestStep, ReadCancel, ReadRetry, CommitCancel, CommitRetry, Abandon
<1>11. CASE \E p \in Procs : ProcessStep(p)
  BY <1>1, <1>4, <1>11 DEF ProcessStep, Create, Dispatch, DispatchFails, DeliveryLost, Scan, Stop, Halt, Boot
<1>12. CASE \E x \in Workers : WorkerStep(x)
  BY <1>1, <1>5, <1>6, <1>7, <1>8, <1>9, <1>12
  DEF WorkerStep, Pickup, Advance, ClaimInterrupted, ClaimNothing
<1>. QED BY <1>1, <1>10, <1>11, <1>12 DEF Next, vars, LeaseEnds, LeaseLost

\* A worker stopped by a cancellation still finds it recorded, unless it has
\* lost its job: a newer claim has a newer token.
LEMMA SeenSteps ==
    ASSUME TypeOK, TokensUnique, RequestsFresh, CancelSeen, [Next]_vars
    PROVE  CancelSeen'
<1>. SUFFICES ASSUME NEW w \in Workers, Stopped(w)',
                     job'[work'[w].job].attempts = work'[w].attempt,
                     job'[work'[w].job].state = "RUNNING"
              PROVE  job'[work'[w].job].cancel
  BY DEF CancelSeen, Stopped
<1>1. CASE job[work'[w].job].cancel /\ job' = job
  BY <1>1
<1>2. CASE Stopped(w) /\ work'[w].job = work[w].job /\ work'[w].attempt = work[w].attempt
  <2>. DEFINE k == work[w].job
  <2>1. k \in Jobs /\ work[w].attempt \in Nat /\ work[w].attempt <= job[k].attempts
    BY <1>2, ActiveHasJob DEF Stopped, TokensUnique, Active
  <2>2. job[k].attempts \in Nat
    BY <2>1 DEF TypeOK, Row
  <2>3. job'[k].attempts = job[k].attempts /\ job[k].state = "RUNNING"
    BY <1>2, <2>1, <2>2, RowSteps DEF RowMoves
  <2>4. job[k].cancel
    BY <1>2, <2>3 DEF CancelSeen, Stopped
  <2>. QED BY <1>2, <2>1, <2>3, <2>4, StopsKept
<1>. QED BY <1>1, <1>2, StopSteps

\* EngineInv is an invariant of the engine on SQLite.
THEOREM EngineInvariant ==
    ASSUME Serial
    PROVE  Spec => []EngineInv
<1>1. Init => EngineInv
  BY SetsAssumption DEF Init, EngineInv, RequestsFresh, CancelRecorded, CancelSeen, RunOpen, EffectsOnce,
     RunMirrorsJob, AbsentRow, NoRequest, Idle
<1>2. TypeOK /\ TypeOK' /\ TokensUnique /\ EngineInv /\ [Next]_vars => EngineInv'
  <2>. SUFFICES ASSUME TypeOK, TypeOK', TokensUnique, EngineInv, [Next]_vars PROVE EngineInv'
    OBVIOUS
  <2>1. RequestsFresh /\ CancelSeen /\ AllSound
    BY EngineParts
  <2>2. RequestsFresh' /\ CancelSeen' /\ AllSound'
    BY <2>1, FreshSteps, SeenSteps, SoundSteps
  <2>. QED BY <2>2, SetsAssumption
       DEF EngineInv, CancelRecorded, RunOpen, EffectsOnce, RunMirrorsJob, AllSound, Sound
<1>. QED BY <1>1, <1>2, TypeCorrect, TokensAreUnique, PTL DEF Spec

\* A handler's effects are committed by the row's success, once.
THEOREM EffectsAreOnce ==
    ASSUME Serial
    PROVE  Spec => []EffectsOnce
<1>1. EngineInv => EffectsOnce
  BY DEF EngineInv
<1>. QED BY <1>1, EngineInvariant, PTL

\* The run of an answer and its job never disagree about how it ended.
THEOREM RunsMirrorJobs ==
    ASSUME Serial
    PROVE  Spec => []RunMirrorsJob
<1>1. EngineInv => RunMirrorsJob
  BY DEF EngineInv
<1>. QED BY <1>1, EngineInvariant, PTL

-------------------------------------------------------------------------------
(* Billing and cancellation.                                               *)

\* Only a model request counts, and the fence before it saw no stop request.
LEMMA CountSteps ==
    ASSUME TypeOK, [Next]_vars, NEW j \in Jobs, job[j].cancel
    PROVE  requests'[j] = requests[j]
<1>. requests \in [Jobs -> Nat]
  BY DEF TypeOK
<1>1. CASE UNCHANGED requests
  BY <1>1
<1>2. ASSUME NEW w \in Workers, Invoke(w) PROVE requests'[j] = requests[j]
  BY <1>2 DEF Invoke, Fenced
<1>3. CASE \E c \in Clients : RequestStep(c)
  BY <1>1, <1>3 DEF RequestStep, ReadCancel, ReadRetry, CommitCancel, CommitRetry, Abandon
<1>4. CASE \E p \in Procs : ProcessStep(p)
  BY <1>1, <1>4 DEF ProcessStep, Create, Dispatch, DispatchFails, DeliveryLost, Scan, Crash, Stop, Halt, Boot
<1>5. CASE \E w \in Workers : WorkerStep(w)
  BY <1>1, <1>2, <1>5
  DEF WorkerStep, Pickup, Advance, Claim, ClaimInterrupted, ClaimNothing, Reserve, HeartbeatStops,
      FenceRefuses, Start, Begin, Respond, Finish, Raise, Fail, FailStale, FailUnrecorded, Done
<1>. QED BY <1>1, <1>3, <1>4, <1>5 DEF Next, vars, LeaseEnds, LeaseLost

\* Nothing is billed for a job whose cancellation has committed.
THEOREM CancellationStopsBilling == Spec => CancelStopsBilling
<1>1. TypeOK /\ [Next]_vars =>
        [\A j \in Jobs : job[j].cancel /\ job'[j].cancel => requests'[j] = requests[j]]_vars
  BY CountSteps
<1>. QED BY <1>1, TypeCorrect, PTL DEF Spec, CancelStopsBilling

-------------------------------------------------------------------------------
(* The promise to the owner, on SQLite.                                    *)

\* The ways a step changes one job as its owner sees it.
Seen(k) ==
    \/ /\ job'[k].cancel = job[k].cancel
       /\ job'[k].state = job[k].state \/ {job[k].state, job'[k].state} \subseteq Open
    \/ /\ job'[k].cancel = job[k].cancel
       /\ job[k].state = "ABSENT" /\ job'[k].state \in Open
    \/ /\ job'[k].cancel
       /\ job[k].state \in Open /\ job'[k].state \in Open \cup {"CANCELLED"}
    \/ /\ job'[k].cancel = job[k].cancel
       /\ job[k].state \in Open
       /\ job'[k].state = IF job[k].cancel THEN "CANCELLED" ELSE "FAILED"
    \/ /\ ~job[k].cancel /\ ~job'[k].cancel
       /\ job[k].state \in Open /\ job'[k].state = "SUCCEEDED"
    \/ /\ ~job'[k].cancel
       /\ job[k].state \in {"FAILED", "CANCELLED"} /\ job'[k].state = "QUEUED"

Only(k) == \A j \in Jobs \ {k} : job'[j] = job[j]

\* Each of them is a step of the promise, or none.
LEMMA SeenIsPromised ==
    ASSUME TypeOK, TypeOK', NEW k \in Jobs, Only(k), Seen(k)
    PROVE  [Promise!Next]_(Promise!promise)
<1>. DEFINE view == [j \in Jobs |-> Outcome(j)]
            stops == [j \in Jobs |-> job[j].cancel]
<1>1. \A j \in Jobs : job[j].cancel \in BOOLEAN /\ job'[j].cancel \in BOOLEAN
  BY DEF TypeOK, Row
<1>2. view' = [view EXCEPT ![k] = Outcome(k)']
  <2>1. ASSUME NEW j \in Jobs \ {k} PROVE Outcome(j)' = Outcome(j)
    <3>1. job'[j] = job[j]
      BY DEF Only
    <3>. QED BY <3>1 DEF Outcome
  <2>2. \A j \in Jobs : view'[j] = IF j = k THEN Outcome(k)' ELSE view[j]
    BY <2>1
  <2>. QED BY <2>2
<1>3. stops' = [stops EXCEPT ![k] = job'[k].cancel]
  BY DEF Only
<1>4. /\ view[k] = Outcome(k)
      /\ stops[k] = job[k].cancel
  OBVIOUS
<1>o. /\ job[k].state = "ABSENT" => Outcome(k) = "absent"
      /\ job[k].state \in Open => Outcome(k) = "open"
      /\ job[k].state = "FAILED" => Outcome(k) = "failed"
      /\ job[k].state = "CANCELLED" => Outcome(k) = "cancelled"
      /\ job'[k].state \in Open => Outcome(k)' = "open"
      /\ job'[k].state = "SUCCEEDED" => Outcome(k)' = "done"
      /\ job'[k].state = "FAILED" => Outcome(k)' = "failed"
      /\ job'[k].state = "CANCELLED" => Outcome(k)' = "cancelled"
  BY DEF Outcome, Open
<1>5. CASE /\ job'[k].cancel = job[k].cancel
           /\ job'[k].state = job[k].state \/ {job[k].state, job'[k].state} \subseteq Open
  <2>1. Outcome(k)' = Outcome(k)
    BY <1>5 DEF Outcome, Open
  <2>2. view' = view /\ stops' = stops
    BY <1>2, <1>3, <1>4, <1>5, <2>1
  <2>. QED BY <2>2 DEF Promise!promise
<1>6. CASE /\ job'[k].cancel = job[k].cancel
           /\ job[k].state = "ABSENT" /\ job'[k].state \in Open
  <2>1. Promise!Submit(k)
    BY <1>2, <1>3, <1>4, <1>o, <1>6 DEF Promise!Submit, Promise!Becomes
  <2>. QED BY <2>1 DEF Promise!Next
<1>7. CASE /\ job'[k].cancel
           /\ job[k].state \in Open /\ job'[k].state \in Open \cup {"CANCELLED"}
  <2>1. Promise!Ask(k)
    BY <1>1, <1>2, <1>3, <1>4, <1>o, <1>7 DEF Promise!Ask, Promise!Becomes
  <2>. QED BY <2>1 DEF Promise!Next
<1>8. CASE /\ job'[k].cancel = job[k].cancel
           /\ job[k].state \in Open
           /\ job'[k].state = IF job[k].cancel THEN "CANCELLED" ELSE "FAILED"
  <2>1. Promise!GiveUp(k)
    BY <1>2, <1>3, <1>4, <1>o, <1>8 DEF Promise!GiveUp, Promise!Becomes
  <2>. QED BY <2>1 DEF Promise!Next
<1>9. CASE /\ ~job[k].cancel /\ ~job'[k].cancel
           /\ job[k].state \in Open /\ job'[k].state = "SUCCEEDED"
  <2>1. Promise!Complete(k)
    BY <1>1, <1>2, <1>3, <1>4, <1>o, <1>9 DEF Promise!Complete, Promise!Becomes
  <2>. QED BY <2>1 DEF Promise!Next
<1>10. CASE /\ ~job'[k].cancel
            /\ job[k].state \in {"FAILED", "CANCELLED"} /\ job'[k].state = "QUEUED"
  <2>1. Promise!Reopen(k)
    BY <1>1, <1>2, <1>3, <1>4, <1>o, <1>10 DEF Promise!Reopen, Promise!Becomes, Open
  <2>. QED BY <2>1 DEF Promise!Next
<1>. QED BY <1>5, <1>6, <1>7, <1>8, <1>9, <1>10 DEF Seen

\* A request's commit is seen by the owner of its job only.
LEMMA RequestsSeen ==
    ASSUME TypeOK, RequestsFresh, NEW c \in Clients,
           CommitCancel(c) \/ \E p \in Procs : CommitRetry(c, p)
    PROVE  req[c].job \in Jobs /\ Only(req[c].job) /\ Seen(req[c].job)
<1>. DEFINE k == req[c].job
            loaded == req[c].row
<1>1. k \in Jobs /\ loaded \in Row /\ RequestFresh(c)
  BY RequestHasRow DEF CommitCancel, CommitRetry, RequestsFresh
<1>2. CASE CommitCancel(c)
  <2>1. /\ CancelledRow(loaded).cancel = TRUE
        /\ CancelledRow(loaded).state = IF loaded.state = "QUEUED" THEN "CANCELLED" ELSE loaded.state
    BY <1>1 DEF CancelledRow, Row
  <2>2. loaded.state \in Open /\ job[k].state \in Open
    BY <1>1, <1>2 DEF CommitCancel, RequestFresh
  <2>3. job'[k].cancel /\ job'[k].state \in Open \cup {"CANCELLED"}
    BY <1>1, <1>2, <2>1, <2>2, FreshFlush DEF CommitCancel, TypeOK
  <2>. QED BY <1>1, <1>2, <2>2, <2>3 DEF CommitCancel, TypeOK, Only, Seen
<1>3. ASSUME NEW p \in Procs, CommitRetry(c, p) PROVE Only(k) /\ Seen(k)
  <2>1. RequeuedRow(loaded).cancel = FALSE /\ RequeuedRow(loaded).state = "QUEUED"
    BY <1>1 DEF RequeuedRow, Row
  <2>2. job[k].state \in {"FAILED", "CANCELLED"}
    BY <1>1, <1>3 DEF CommitRetry, RequestFresh
  <2>3. job'[k].cancel = FALSE /\ job'[k].state = "QUEUED"
    BY <1>1, <1>3, <2>1, FreshFlush DEF CommitRetry, TypeOK
  <2>. QED BY <1>1, <1>3, <2>2, <2>3 DEF CommitRetry, TypeOK, Only, Seen
<1>. QED BY <1>1, <1>2, <1>3

\* So is what a worker writes to the row of a job.
LEMMA WritesSeen ==
    ASSUME TypeOK, CancelSeen, NEW w \in Workers, NEW k \in Jobs,
           \/ Claim(w, k) \/ Reserve(w, k) \/ ClaimInterrupted(w, k)
           \/ (Finish(w) \/ Fail(w)) /\ k = work[w].job
    PROVE  Only(k) /\ Seen(k)
<1>. job \in [Jobs -> Row] /\ job[k] \in Row /\ job[k].cancel \in BOOLEAN
  BY DEF TypeOK, Row
<1>1. CASE Claim(w, k) \/ Reserve(w, k)
  <2>1. /\ job' = [job EXCEPT ![k] = ClaimedRow(@)]
        /\ job[k].state \in Open \cup {"ABSENT"}
    BY <1>1 DEF Claim, Claimable, Reserve, Open
  <2>2. ClaimedRow(job[k]).state = "RUNNING" /\ ClaimedRow(job[k]).cancel = job[k].cancel
    BY DEF ClaimedRow, Row
  <2>. QED BY <2>1, <2>2 DEF Only, Seen, Open
<1>2. CASE ClaimInterrupted(w, k)
  <2>1. job' = [job EXCEPT ![k] = InterruptedRow(@)] /\ job[k].state = "RUNNING"
    BY <1>2 DEF ClaimInterrupted, Interrupted, Interrupt
  <2>2. /\ InterruptedRow(job[k]).state = IF job[k].cancel THEN "CANCELLED" ELSE "FAILED"
        /\ InterruptedRow(job[k]).cancel = job[k].cancel
    BY DEF InterruptedRow, Row
  <2>. QED BY <2>1, <2>2 DEF Only, Seen, Open
<1>3. CASE Finish(w) /\ k = work[w].job
  <2>1. /\ job' = [job EXCEPT ![k] = FinishedRow(@)]
        /\ job[k].state = "RUNNING" /\ ~job[k].cancel
    BY <1>3 DEF Finish, Fenced, Holds
  <2>2. FinishedRow(job[k]).state = "SUCCEEDED" /\ FinishedRow(job[k]).cancel = job[k].cancel
    BY DEF FinishedRow, Row
  <2>. QED BY <2>1, <2>2 DEF Only, Seen, Open
<1>4. CASE Fail(w) /\ k = work[w].job
  <2>. DEFINE ending == Ending(w)
  <2>1. /\ job' = [job EXCEPT ![k] = FailedRow(@, ending, work[w].exc)]
        /\ job[k].attempts = work[w].attempt /\ job[k].state = "RUNNING"
        /\ work[w].pc = "failing"
    BY <1>4 DEF Fail, Holds
  <2>2. /\ ending \in {"CANCELLED", "QUEUED", "FAILED"}
        /\ job[k].cancel <=> ending = "CANCELLED"
    BY <1>4, <2>1 DEF Ending, CancelSeen
  <2>3. /\ FailedRow(job[k], ending, work[w].exc).cancel = job[k].cancel
        /\ FailedRow(job[k], ending, work[w].exc).state = ending
    BY DEF FailedRow, Row
  <2>. QED BY <2>1, <2>2, <2>3 DEF Only, Seen, Open
<1>. QED BY <1>1, <1>2, <1>3, <1>4

\* Every step of the engine is a step of the promise, or none.
LEMMA PromiseSteps ==
    ASSUME TypeOK, TypeOK', RequestsFresh, CancelSeen, [Next]_vars
    PROVE  [Promise!Next]_(Promise!promise)
<1>. job \in [Jobs -> Row] /\ \A j \in Jobs : job[j] \in Row
  BY DEF TypeOK
<1>k. ASSUME NEW k \in Jobs, Only(k), Seen(k) PROVE [Promise!Next]_(Promise!promise)
  BY <1>k, SeenIsPromised
<1>1. CASE UNCHANGED job
  BY <1>1 DEF Promise!promise, Outcome
<1>2. ASSUME NEW p \in Procs, NEW k \in Jobs, Create(p, k) PROVE Only(k) /\ Seen(k)
  BY <1>2 DEF Create, Only, Seen, Row, Open
<1>3. ASSUME NEW k \in Jobs, LeaseEnds(k) \/ LeaseLost(k) PROVE Only(k) /\ Seen(k)
  BY <1>3 DEF LeaseEnds, LeaseLost, Only, Seen, Row
<1>4. ASSUME NEW w \in Workers, Finish(w) \/ Fail(w)
      PROVE  work[w].job \in Jobs /\ Only(work[w].job) /\ Seen(work[w].job)
  <2>1. work[w].job \in Jobs
    BY <1>4, ActiveHasJob DEF Finish, Fail
  <2>. QED BY <1>4, <2>1, WritesSeen
<1>5. CASE \E c \in Clients : RequestStep(c)
  BY <1>k, <1>1, <1>5, RequestsSeen DEF RequestStep, ReadCancel, ReadRetry, Abandon
<1>6. CASE \E p \in Procs : ProcessStep(p)
  BY <1>k, <1>1, <1>2, <1>6
  DEF ProcessStep, Dispatch, DispatchFails, DeliveryLost, Scan, Crash, Stop, Halt, Boot
<1>7. CASE \E w \in Workers : WorkerStep(w)
  BY <1>k, <1>1, <1>4, <1>7, WritesSeen
  DEF WorkerStep, Pickup, Advance, ClaimNothing, HeartbeatStops, FenceRefuses, Start, Begin, Invoke,
      Respond, Raise, FailStale, FailUnrecorded, Done
<1>. QED BY <1>k, <1>1, <1>3, <1>5, <1>6, <1>7 DEF Next, vars

\* On SQLite the engine keeps the promise made to the owner of a job.
THEOREM PromiseKept ==
    ASSUME Serial
    PROVE  Spec => KeepsPromise
<1>1. Init => Promise!Init
  <2>. SUFFICES ASSUME Init PROVE Promise!Init
    OBVIOUS
  <2>1. \A j \in Jobs : job[j].state = "ABSENT" /\ job[j].cancel = FALSE
    BY DEF Init, AbsentRow
  <2>2. ASSUME NEW j \in Jobs PROVE Outcome(j) = "absent"
    <3>1. job[j].state = "ABSENT"
      BY <2>1
    <3>. QED BY <3>1 DEF Outcome, Open
  <2>. QED BY <2>1, <2>2 DEF Promise!Init
<1>2. EngineInv => RequestsFresh /\ CancelSeen
  BY DEF EngineInv
<1>3. TypeOK /\ TypeOK' /\ EngineInv /\ [Next]_vars => [Promise!Next]_(Promise!promise)
  BY <1>2, PromiseSteps
<1>. QED BY <1>1, <1>3, TypeCorrect, EngineInvariant, PTL DEF Spec, KeepsPromise, Promise!Spec
===============================================================================
