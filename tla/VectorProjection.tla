--------------------------- MODULE VectorProjection ---------------------------
(***************************************************************************)
(* The search projection of one version of a resource (backend/fund_kb:    *)
(* vector_indexing.py, retrieval.py, the INVALIDATE and PURGE jobs of      *)
(* jobs.py, hybrid_retrieval.py).  Two stores that share no transaction    *)
(* have to agree: the SQL database says which generation of points readers *)
(* may use (the receipt), the vector store holds the points.  An attempt   *)
(* of an index job builds a generation of its own, activates it, commits   *)
(* the receipt and prunes the others, while people edit, suspend, delete   *)
(* and discard, other attempts do the same, and deletions decided earlier  *)
(* arrive late.                                                            *)
(*                                                                         *)
(* A stamp is the metadata signature: it changes with everything that      *)
(* readers may rely on, the stamps of what the version rests on included,  *)
(* and every change here gets a new one.  The text of a generation is the  *)
(* stamp under which its records were read.  There is no stamp, and no     *)
(* index, of a version that is worked on, or rests on one that is.         *)
(***************************************************************************)
EXTENDS Naturals, FiniteSets

CONSTANTS
    Jobs,         \* VECTOR_INDEX jobs, numbered as they are created
    Invals,       \* INVALIDATE jobs and threads at one time
    MaxAttempts,  \* attempts of a job, 4 in the code
    MaxEvents,    \* bound on changes and other events together
    Batches,      \* batches in which the points of a version are written
    Blank         \* stamps under which the version has no text

ASSUME BoundsAssumption ==
    /\ Jobs \in SUBSET Nat /\ Jobs # {}   \* a draft comes with a job
    /\ MaxAttempts \in Nat
    /\ MaxEvents \in Nat /\ Batches \in Nat \ {0}
ASSUME BlankAssumption == Blank \in SUBSET Nat

Gens == Jobs \X (1..MaxAttempts)   \* a generation belongs to an attempt
NoGen == <<>>
Stamps == 0..MaxEvents

VARIABLES
    local,     \* one process on SQLite, or several on a database server
    source,    \* the version and its resource
    receipt,   \* the row vector-receipt: of table runtime_policies
    job,       \* rows of table jobs
    store,     \* the points of each generation in the vector store
    writing,   \* reservations of the writers (_Shared.writers)
    work,      \* what the thread of each attempt does
    inval,     \* INVALIDATE jobs, and what their threads are about to do
    looking,   \* a request between reading the queue and its commit
    reader,    \* a search
    events,    \* forced requests, failures, crashes, stalls, obstacles and so on so far
    wiped,     \* history: how a deletion of the version met each generation
    cleared,   \* history: the vectors of the removed version were deleted
    obstacle,  \* work on the version, and the state of what it rests on
    passed     \* history: its last change was passed over, with nothing queued

vars == <<local, source, receipt, job, store, writing, work, inval, looking,
          reader, events, wiped, cleared, obstacle, passed>>

-------------------------------------------------------------------------------
\* own: the stamp of the last change of the version or its resource itself
Source == [stamp: Stamps, own: Stamps, life: {"live", "paused", "trashed", "gone"}]

Receipt == [state: {"NONE", "READY", "EMPTY"}, gen: Gens \cup {NoGen},
            stamp: Stamps]

Row == [state: {"ABSENT", "QUEUED", "RUNNING", "SUCCEEDED", "FAILED", "CANCELLED"},
        attempt: 0..MaxAttempts, held: BOOLEAN, cancel: BOOLEAN,
        force: BOOLEAN, removed: BOOLEAN, broken: BOOLEAN]

NoRow == [state |-> "ABSENT", attempt |-> 0, held |-> FALSE, cancel |-> FALSE,
          force |-> FALSE, removed |-> FALSE, broken |-> FALSE]

Points == [written: 0..Batches, ready: BOOLEAN, stamp: Stamps]
NoPoints == [written |-> 0, ready |-> FALSE, stamp |-> 0]

\* The local variables of run_index_job for this version.
Work == [at: {"idle", "begun", "removing", "planned", "read", "staging",
              "embedding", "staged", "activated", "pruning", "skipping",
              "closing", "dropping", "failing"},
         plan: Stamps, old: Receipt, done: 0..Batches,
         why: {"none", "changed", "error", "stopped"}]

NoReceipt == [state |-> "NONE", gen |-> NoGen, stamp |-> 0]
Idle == [at |-> "idle", plan |-> 0, old |-> NoReceipt, done |-> 0, why |-> "none"]

Reader == [at: {"idle", "searching", "found"},
           gen: Gens \cup {NoGen}, stamp: Stamps, text: Stamps]
NoSearch == [at |-> "idle", gen |-> NoGen, stamp |-> 0, text |-> 0]

\* An OPEN upload, or a job of the version (SCAN_PARSE, PUBLISH, COMPILE); and
\* whether what it rests on is in use, and nobody works on it.
Obstacle == [work: {"never", "open", "over"}, rest: {"usable", "barred"}]

\* An INVALIDATE job is open, will delete, or will have the version indexed;
\* one of another resource only deletes; so does a thread without its lease.
Course == {"none", "open", "delete", "follow", "foreign", "stale"}

ShapeOK ==
    /\ local \in BOOLEAN
    /\ source \in Source
    /\ receipt \in Receipt
    /\ job \in [Jobs -> Row]
    /\ store \in [Gens -> Points]
    /\ writing \in SUBSET Gens
    /\ work \in [Gens -> Work]
    /\ inval \in [Invals -> Course]
    /\ looking \in [open: BOOLEAN, seen: SUBSET Jobs]
    /\ reader \in Reader
    /\ events \in Nat
    /\ wiped \in [Gens -> {"no", "followed", "lost"}]
    /\ cleared \in BOOLEAN

TypeOK == ShapeOK /\ obstacle \in Obstacle /\ passed \in BOOLEAN

\* A draft was created, and its first index job is queued.
Init ==
    /\ local \in BOOLEAN
    /\ source = [stamp |-> 0, own |-> 0, life |-> "live"]
    /\ receipt = NoReceipt
    /\ job = [j \in Jobs |-> IF \A k \in Jobs : j <= k
                             THEN [NoRow EXCEPT !.state = "QUEUED"] ELSE NoRow]
    /\ store = [g \in Gens |-> NoPoints]
    /\ writing = {}
    /\ work = [g \in Gens |-> Idle]
    /\ inval = [i \in Invals |-> "none"]
    /\ looking = [open |-> FALSE, seen |-> {}]
    /\ reader = NoSearch
    /\ events = 0
    /\ wiped = [g \in Gens |-> "no"]
    /\ cleared = FALSE
    /\ obstacle = [work |-> "never", rest |-> "usable"]
    /\ passed = FALSE

-------------------------------------------------------------------------------
(* Fences, checkpoints and locks.                                          *)

Owns(g) == /\ job[g[1]].state = "RUNNING" /\ job[g[1]].attempt = g[2]
           /\ job[g[1]].held

\* _fence refuses a stale attempt, and a job that was asked to stop.
Fenced(g) == Owns(g) /\ ~job[g[1]].cancel

\* WORK_IN_PROGRESS, on the version or on one that it rests on; or the latter
\* is suspended or deleted.
Obstructed == obstacle.work = "open" \/ obstacle.rest = "barred"

\* The row is readable and has the signature of the plan.
Unchanged(g) == source.life = "live" /\ source.stamp = work[g].plan /\ ~Obstructed

Checkpoint(g) == Fenced(g) /\ Unchanged(g)

\* A thread in its last transaction.
Activating == \E g \in Gens : work[g].at = "activated"

\* Slip: the last transaction does not lock the rows of the version.
LockedByRequest == looking.open

\* That transaction, and a request that has written its change, keep the rows
\* of the version locked.
Locked == looking.open \/ Activating

\* SQLite has one writer, which cannot commit while a search is reading.
DatabaseFree == local => ~Activating /\ reader.at = "idle"
CanCommit == DatabaseFree /\ ~Locked

\* The transaction in progress holds the row of the job.
Holding(j) == \E g \in Gens : g[1] = j /\ work[g].at = "activated"

\* count and payload checks of projection_is_complete
Complete(g) == /\ g \notin writing /\ store[g].ready
               /\ store[g].written = Batches

\* current_receipts: what a search of the page may use, if the page is in the
\* catalog at all
Covered == /\ source.life = "live" /\ receipt.stamp = source.stamp /\ ~Obstructed
           /\ receipt.state = "READY" /\ Complete(receipt.gen)

Room == source.stamp + events < MaxEvents

Event == Room /\ events' = events + 1

-------------------------------------------------------------------------------
(* Requests, and the index jobs they queue.                                *)

\* Slip: work that is running is taken for work to come.
QueuedOrRunning == {j \in Jobs : job[j].state \in {"QUEUED", "RUNNING"} /\ ~job[j].cancel}

Queued == {j \in Jobs : job[j].state = "QUEUED" /\ ~job[j].cancel}

\* _queue_index takes a queued job that covers the request, or creates one.
Enqueue(seen, force, removed) ==
    LET usable == {j \in seen : ~force \/ job[j].force}
        fresh == {j \in Jobs : job[j].state = "ABSENT"}
    IN  IF usable # {}
        THEN \E j \in usable :
                job' = [job EXCEPT ![j].removed = @ \/ removed]
        ELSE \E j \in fresh :
                /\ \A k \in fresh : j <= k
                /\ job' = [job EXCEPT ![j] = [NoRow EXCEPT !.state = "QUEUED",
                                    !.force = force, !.removed = removed]]

Becomes(life) ==
    /\ Room
    /\ source' = [stamp |-> source.stamp + 1, own |-> source.stamp + 1, life |-> life]

\* Nothing is queued that will look at the version later.
PassedOver == passed' = (passed \/ (source.life = "live" /\ Queued = {}))

OpenInval == \E i \in Invals :
    inval[i] = "none" /\ inval' = [inval EXCEPT ![i] = "open"]

\* On a server the request reads the queue, and commits later.
LookAtQueue ==
    /\ ~local /\ ~Locked
    /\ looking' = [open |-> TRUE, seen |-> Queued]
    /\ UNCHANGED <<local, source, receipt, job, store, writing, work, inval,
                   reader, events, wiped, cleared, obstacle, passed>>

Commits(removed) ==
    /\ looking' = [open |-> FALSE, seen |-> {}]
    /\ \/ /\ local /\ CanCommit
          /\ Enqueue(Queued, FALSE, removed)
       \/ /\ ~local /\ looking.open
          /\ Enqueue(looking.seen, FALSE, removed)
    /\ passed' = FALSE
    /\ UNCHANGED <<local, receipt, store, writing, work, reader, events,
                   wiped, cleared>>

\* Editing, submitting, reviewing or relating a version.
Edit == /\ source.life = "live" /\ Becomes("live") /\ Commits(FALSE)
        /\ UNCHANGED <<inval, obstacle>>

Suspend == /\ source.life = "live" /\ Becomes("paused") /\ Commits(FALSE)
           /\ OpenInval /\ UNCHANGED obstacle

Resume == /\ source.life = "paused" /\ Becomes("live") /\ Commits(FALSE)
          /\ OpenInval /\ UNCHANGED obstacle

\* Only a version that is the draft of a resource in use can be discarded, and
\* only if no upload and no job of it is on record.
Discard == /\ source.life = "live" /\ obstacle.work = "never"
           /\ Becomes("gone") /\ Commits(TRUE) /\ UNCHANGED <<inval, obstacle>>

\* An upload is started, a publication or a compilation is requested: this
\* changes no stamp and queues no index.  Rows that refer to the version cannot
\* be added while an index job has locked it.
BeginWork ==
    /\ source.life = "live" /\ obstacle.work # "open"
    /\ DatabaseFree /\ ~Activating /\ Event
    /\ obstacle' = [obstacle EXCEPT !.work = "open"]
    /\ UNCHANGED <<local, source, receipt, job, store, writing, work, inval, looking,
                   reader, wiped, cleared, passed>>

\* Parsing or publishing succeeds: this changes the stamp and queues an index,
\* if the owner of the job still may.  An upload that is cancelled, a job that
\* fails or is cancelled, and a compilation change and queue nothing here.
EndWork ==
    /\ obstacle.work = "open"
    /\ obstacle' = [obstacle EXCEPT !.work = "over"]
    /\ UNCHANGED inval
    /\ \/ source.life = "live" /\ Becomes("live") /\ Commits(FALSE)
       \/ /\ source.life = "live" /\ Becomes("live") /\ CanCommit /\ PassedOver
          /\ UNCHANGED <<local, receipt, job, store, writing, work, looking, reader,
                         events, wiped, cleared>>
       \/ /\ DatabaseFree
          /\ UNCHANGED <<local, source, receipt, job, store, writing, work, looking,
                         reader, events, wiped, cleared, passed>>

\* What the version rests on is worked on, suspended or deleted; then it is in
\* use again; or it is changed, and with it the stamp of this version.  None of
\* this queues an index of this version or waits for the locks of its rows.
Bar ==
    /\ source.life = "live" /\ obstacle.rest = "usable" /\ DatabaseFree /\ Event
    /\ obstacle' = [obstacle EXCEPT !.rest = "barred"]
    /\ UNCHANGED <<local, source, receipt, job, store, writing, work, inval, looking,
                   reader, wiped, cleared, passed>>

Unbar ==
    /\ source.life = "live" /\ obstacle.rest = "barred" /\ DatabaseFree
    /\ obstacle' = [obstacle EXCEPT !.rest = "usable"]
    /\ UNCHANGED <<local, source, receipt, job, store, writing, work, inval, looking,
                   reader, events, wiped, cleared, passed>>

RestChanges ==
    /\ source.life = "live" /\ Room /\ DatabaseFree
    /\ source' = [source EXCEPT !.stamp = @ + 1]
    /\ \E rest \in {"usable", "barred"} : obstacle' = [obstacle EXCEPT !.rest = rest]
    /\ PassedOver
    /\ UNCHANGED <<local, receipt, job, store, writing, work, inval, looking, reader,
                   events, wiped, cleared>>

Unqueued == UNCHANGED <<local, receipt, job, store, writing, work, looking,
                        reader, events, wiped, cleared, obstacle, passed>>

Trash == /\ source.life \in {"live", "paused"} /\ Becomes("trashed")
         /\ CanCommit /\ OpenInval /\ Unqueued

Restore == /\ source.life = "trashed" /\ Becomes("paused")
           /\ CanCommit /\ OpenInval /\ Unqueued

\* The INVALIDATE job of a source suspends this resource in its transaction,
\* and will delete its vectors.
Cascade == /\ source.life \in {"live", "paused"} /\ Becomes("paused")
           /\ CanCommit /\ Unqueued
           /\ \E i \in Invals : inval[i] = "none" /\ inval' = [inval EXCEPT ![i] = "foreign"]

\* An editor asks for the index to be built again.
RequestIndex ==
    /\ DatabaseFree /\ source.life # "gone" /\ Event
    /\ Enqueue(Queued, TRUE, FALSE) /\ passed' = FALSE
    /\ UNCHANGED <<local, source, receipt, store, writing, work, inval, looking,
                   reader, wiped, cleared, obstacle>>

CancelJob(j) ==
    /\ job[j].state \in {"QUEUED", "RUNNING"} /\ ~job[j].cancel
    /\ DatabaseFree /\ ~Holding(j) /\ Event
    /\ job' = [job EXCEPT ![j] = [job[j] EXCEPT !.cancel = TRUE,
                    !.state = IF job[j].state = "QUEUED" THEN "CANCELLED" ELSE "RUNNING"]]
    /\ UNCHANGED <<local, source, receipt, store, writing, work, inval, looking,
                   reader, wiped, cleared, obstacle, passed>>

-------------------------------------------------------------------------------
(* INVALIDATE and PURGE.                                                   *)

\* delete_versions drops the reservations of writers, then the points.  The
\* writers of another process keep theirs.
DeleteVersion(how) ==
    /\ writing' = IF local THEN {} ELSE writing
    /\ store' = [g \in Gens |-> NoPoints]
    /\ wiped' = [g \in Gens |-> IF store[g].ready THEN how ELSE wiped[g]]
    /\ cleared' = (cleared \/ source.life = "gone")

\* The first transaction of _invalidate looks at the resource.
ReadInvalidate(i) ==
    /\ inval[i] = "open" /\ DatabaseFree
    /\ inval' = [inval EXCEPT ![i] =
                    IF source.life \in {"paused", "trashed"} THEN "delete" ELSE "follow"]
    /\ UNCHANGED <<local, source, receipt, job, store, writing, work, looking,
                   reader, events, wiped, cleared, obstacle, passed>>

\* The deletion comes later, and whatever has happened since.
DeleteInvalidated(i) ==
    /\ inval[i] \in {"delete", "foreign", "stale"}
    /\ DeleteVersion(IF inval[i] = "delete" THEN "followed" ELSE "lost")
    /\ inval' = [inval EXCEPT ![i] = IF @ = "delete" THEN "follow" ELSE "none"]
    /\ UNCHANGED <<local, source, receipt, job, work, looking, reader, events,
                   obstacle, passed>>

\* The job succeeds and has its resource indexed, in its last transaction, if
\* its owner still may (vector.followup_not_authorized).
FollowUp(i) ==
    /\ inval[i] = "follow" /\ DatabaseFree
    /\ \/ Enqueue(Queued, FALSE, FALSE) /\ passed' = FALSE /\ UNCHANGED events
       \/ Event /\ PassedOver /\ UNCHANGED job
    /\ inval' = [inval EXCEPT ![i] = "none"]
    /\ UNCHANGED <<local, source, receipt, store, writing, work, looking, reader,
                   wiped, cleared, obstacle>>

\* The thread loses its lease: the job runs again beside it.
StallInvalidate(i) ==
    /\ Event
    /\ \/ /\ inval[i] = "delete"
          /\ \E k \in Invals : /\ inval[k] = "none"
                               /\ inval' = [inval EXCEPT ![i] = "stale", ![k] = "open"]
       \/ inval[i] = "foreign" /\ inval' = [inval EXCEPT ![i] = "stale"]
       \/ inval[i] = "follow" /\ inval' = [inval EXCEPT ![i] = "open"]
    /\ UNCHANGED <<local, source, receipt, job, store, writing, work, looking,
                   reader, wiped, cleared, obstacle, passed>>

\* Vectors are deleted inside the transaction of _purge, under its locks; the
\* transaction may still fail.  Index jobs do not hold it up.
Purge ==
    /\ source.life = "trashed" /\ obstacle.work # "open" /\ CanCommit
    /\ \A i \in Invals : inval[i] \notin {"open", "delete", "follow"}
    /\ \/ Becomes("gone") /\ UNCHANGED events
       \/ Event /\ UNCHANGED source
    /\ writing' = IF local THEN {} ELSE writing
    /\ store' = [g \in Gens |-> NoPoints]
    /\ wiped' = [g \in Gens |-> IF store[g].ready THEN "lost" ELSE wiped[g]]
    /\ cleared' = (source'.life = "gone")
    /\ UNCHANGED <<local, receipt, job, work, inval, looking, reader, obstacle, passed>>

-------------------------------------------------------------------------------
(* The job engine, as far as it matters here (see FencedJobs).             *)

Started(j) == [job[j] EXCEPT !.state = "RUNNING", !.held = TRUE,
                             !.attempt = job[j].attempt + 1]

\* Slip: only queued jobs are claimed.
ClaimQueued(j) ==
    /\ job[j].state = "QUEUED" /\ DatabaseFree /\ job[j].attempt < MaxAttempts
    /\ job' = [job EXCEPT ![j] = Started(j)]
    /\ work' = [work EXCEPT ![<<j, job[j].attempt + 1>>].at = "begun"]
    /\ UNCHANGED <<local, source, receipt, store, writing, inval, looking,
                   reader, events, wiped, cleared, obstacle, passed>>

\* A queued job, or a running one whose lease is over, gets a new attempt.
Claim(j) ==
    /\ job[j].state = "QUEUED" \/ (job[j].state = "RUNNING" /\ ~job[j].held)
    /\ DatabaseFree
    /\ IF job[j].attempt < MaxAttempts
       THEN /\ job' = [job EXCEPT ![j] = Started(j)]
            /\ work' = [work EXCEPT ![<<j, job[j].attempt + 1>>].at = "begun"]
       ELSE /\ job' = [job EXCEPT ![j] = [job[j] EXCEPT !.state = "FAILED", !.broken = TRUE]]
            /\ UNCHANGED work
    /\ UNCHANGED <<local, source, receipt, store, writing, inval, looking,
                   reader, events, wiped, cleared, obstacle, passed>>

Alive(g) == work[g].at # "idle"

\* Time passes after a crash.
LeaseEnds(j) ==
    /\ job[j].state = "RUNNING" /\ job[j].held /\ ~Alive(<<j, job[j].attempt>>)
    /\ job' = [job EXCEPT ![j].held = FALSE]
    /\ UNCHANGED <<local, source, receipt, store, writing, work, inval, looking,
                   reader, events, wiped, cleared, obstacle, passed>>

\* A thread that is alive loses its lease only by a stall.
LeaseLost(j) ==
    /\ job[j].state = "RUNNING" /\ job[j].held /\ Alive(<<j, job[j].attempt>>)
    /\ ~Holding(j) /\ Event
    /\ job' = [job EXCEPT ![j].held = FALSE]
    /\ UNCHANGED <<local, source, receipt, store, writing, work, inval, looking,
                   reader, wiped, cleared, obstacle, passed>>

\* The process of g dies, with its reservations and transactions.
Crash(g) ==
    /\ Alive(g) /\ Event
    /\ work' = [h \in Gens |-> IF local \/ h = g THEN Idle ELSE work[h]]
    /\ writing' = IF local THEN {} ELSE writing \ {g}
    /\ UNCHANGED <<local, source, receipt, job, store, inval, looking, reader,
                   wiped, cleared, obstacle, passed>>

-------------------------------------------------------------------------------
(* run_index_job.                                                          *)

Goes(g, at) == work' = [work EXCEPT ![g].at = at]

Drops(g, why) == work' = [work EXCEPT ![g] = [Idle EXCEPT !.at = "dropping", !.why = why]]

OnlyWork == UNCHANGED <<local, source, receipt, job, store, writing, inval,
                        looking, reader, events, wiped, cleared, obstacle, passed>>

\* index_plan leaves a version out that is worked on, or rests on one that is;
\* the job goes on without it, and succeeds.
LeaveOut(g) ==
    /\ work[g].at = "begun" /\ source.life = "live" /\ Obstructed
    /\ Goes(g, "closing") /\ PassedOver
    /\ UNCHANGED <<local, source, receipt, job, store, writing, inval, looking,
                   reader, events, wiped, cleared, obstacle>>

\* index_plan: any other version in use is indexed under its stamp; one that
\* was discarded after it had been indexed is removed.
Plan(g) ==
    /\ work[g].at = "begun" /\ ~(source.life = "live" /\ Obstructed)
    /\ work' = [work EXCEPT ![g] = [Idle EXCEPT
                    !.at = CASE source.life = "live" -> "planned"
                             [] source.life = "gone" /\ job[g[1]].removed
                                    /\ receipt.state # "NONE" -> "removing"
                             [] OTHER -> "closing",
                    !.plan = source.stamp, !.old = receipt]]
    /\ OnlyWork

Remove(g) ==
    /\ work[g].at = "removing"
    /\ DeleteVersion("lost")
    /\ Goes(g, "closing")
    /\ UNCHANGED <<local, source, receipt, job, inval, looking, reader, events,
                   obstacle, passed>>

\* The receipt that the plan found is of this stamp, and is borne out.
UpToDate(g) ==
    LET old == work[g].old
    IN  /\ ~job[g[1]].force /\ old.stamp = work[g].plan
        /\ \/ old.state = "EMPTY"
           \/ old.state = "READY" /\ Complete(old.gen)

Skip(g) ==
    /\ work[g].at = "planned" /\ UpToDate(g)
    /\ work' = [work EXCEPT ![g] = [Idle EXCEPT !.at = "skipping"]]
    /\ OnlyWork

\* Checkpoint, then records and stamp in one reading transaction.
ReadRecords(g) ==
    /\ work[g].at = "planned" /\ ~UpToDate(g)
    /\ Checkpoint(g)
    /\ work' = [work EXCEPT ![g] = [work[g] EXCEPT
                    !.at = IF source.stamp \in Blank THEN "staged" ELSE "read",
                    !.old = NoReceipt]]
    /\ OnlyWork

\* stage_version begins: the reservation.
Reserve(g) ==
    /\ work[g].at = "read"
    /\ writing' = writing \cup {g}
    /\ Goes(g, "staging")
    /\ UNCHANGED <<local, source, receipt, job, store, inval, looking, reader,
                   events, wiped, cleared, obstacle, passed>>

\* The checkpoint around each batch, without the lock of the vector store.
CheckBatch(g) ==
    /\ work[g].at = "staging" /\ work[g].done < Batches
    /\ Checkpoint(g)
    /\ Goes(g, "embedding") /\ OnlyWork

\* Slip: the reservation is not looked at again.
ReservedOnce(g) == TRUE

Reserved(g) == g \in writing

\* Texts have been embedded; the points are written under the lock.
Upsert(g) ==
    /\ work[g].at = "embedding" /\ Reserved(g)
    /\ store' = [store EXCEPT ![g] = [written |-> store[g].written + 1, ready |-> FALSE,
                                      stamp |-> work[g].plan]]

\* Slip: the writer forgets how far it is.
WriteBatchUncounted(g) ==
    /\ Upsert(g)
    /\ Goes(g, "staging")
    /\ UNCHANGED <<local, source, receipt, job, writing, inval, looking, reader,
                   events, wiped, cleared, obstacle, passed>>

WriteBatch(g) ==
    /\ Upsert(g)
    /\ work' = [work EXCEPT ![g] = [work[g] EXCEPT !.at = "staging",
                                                   !.done = work[g].done + 1]]
    /\ UNCHANGED <<local, source, receipt, job, writing, inval, looking, reader,
                   events, wiped, cleared, obstacle, passed>>

\* The last checkpoint; the reservation ends.
EndStaging(g) ==
    /\ work[g].at = "staging" /\ work[g].done = Batches
    /\ Checkpoint(g) /\ Reserved(g)
    /\ writing' = writing \ {g}
    /\ Goes(g, "staged")
    /\ UNCHANGED <<local, source, receipt, job, store, inval, looking, reader,
                   events, wiped, cleared, obstacle, passed>>

\* All points of the generation are there, whoever deleted meanwhile.
CountMatches(g) == store[g].written = Batches

\* The last transaction fences, locks the rows, compares stamps and hashes,
\* and makes the generation ready in the vector store.
Activate(g) ==
    /\ work[g].at = "staged" /\ CanCommit
    /\ Checkpoint(g)
    /\ \/ work[g].plan \in Blank /\ UNCHANGED store
       \/ /\ work[g].plan \notin Blank /\ CountMatches(g)
          /\ store' = [store EXCEPT ![g].ready = TRUE]
    /\ Goes(g, "activated")
    /\ UNCHANGED <<local, source, receipt, job, writing, inval, looking, reader,
                   events, wiped, cleared, obstacle, passed>>

\* The receipt commits.
CommitReceipt(g) ==
    /\ work[g].at = "activated" /\ (local => reader.at = "idle")
    /\ receipt' = [state |-> IF work[g].plan \in Blank THEN "EMPTY" ELSE "READY",
                   gen |-> g, stamp |-> work[g].plan]
    /\ work' = [work EXCEPT ![g] = [Idle EXCEPT !.at = "pruning"]]
    /\ passed' = FALSE
    /\ UNCHANGED <<local, source, job, store, writing, inval, looking, reader,
                   events, wiped, cleared, obstacle>>

\* Slip: a prune keeps the generation of its own attempt.
KeptOwn(g) == {g}

\* The generation that a prune keeps: that of the receipt as committed now.
Kept(g) == IF receipt.state = "READY" THEN {receipt.gen} ELSE {}

\* prune_committed_projection, after an index or a skip.
Prune(g) ==
    /\ work[g].at \in {"pruning", "skipping"} /\ CanCommit /\ Fenced(g)
    /\ store' = IF receipt.state = "NONE" THEN store
                ELSE [h \in Gens |-> IF store[h].ready /\ h \notin Kept(g)
                                     THEN NoPoints ELSE store[h]]
    /\ Goes(g, "closing")
    /\ UNCHANGED <<local, source, receipt, job, writing, inval, looking, reader,
                   events, wiped, cleared, obstacle, passed>>

\* Once the receipt is committed, what is not pruned now can be pruned later.
PruneLater(g) ==
    /\ work[g].at = "pruning" /\ Event
    /\ Goes(g, "closing")
    /\ UNCHANGED <<local, source, receipt, job, store, writing, inval, looking,
                   reader, wiped, cleared, obstacle, passed>>

\* The row of a job of which the attempt ends.
Ended(j, state) == [job[j] EXCEPT !.state = state, !.held = FALSE]

Close(g) ==
    /\ work[g].at = "closing" /\ Fenced(g) /\ DatabaseFree
    /\ job' = [job EXCEPT ![g[1]] = Ended(g[1], "SUCCEEDED")]
    /\ work' = [work EXCEPT ![g] = Idle]
    /\ UNCHANGED <<local, source, receipt, store, writing, inval, looking, reader,
                   events, wiped, cleared, obstacle, passed>>

\* A check refuses: the lease or the job is lost, or the source has changed.
Refused(g) ==
    /\ \/ work[g].at = "planned" /\ ~UpToDate(g) /\ ~Checkpoint(g)
       \/ work[g].at = "staging" /\ ~Checkpoint(g)
       \/ work[g].at = "staged" /\ ~Locked /\ ~Checkpoint(g)
       \/ work[g].at \in {"pruning", "skipping", "closing"} /\ ~Fenced(g)
    /\ Drops(g, IF Fenced(g) THEN "changed" ELSE "stopped")
    /\ IF Fenced(g) /\ source.stamp = work[g].plan THEN PassedOver ELSE UNCHANGED passed
    /\ UNCHANGED <<local, source, receipt, job, store, writing, inval, looking,
                   reader, events, wiped, cleared, obstacle>>

\* The reservation is gone (PROJECTION_BUILD_CANCELLED), or the points are.
Undone(g) ==
    /\ \/ work[g].at = "embedding" /\ ~Reserved(g)
       \/ /\ work[g].at = "staging" /\ ~Reserved(g)
          /\ work[g].done = Batches /\ Checkpoint(g)
       \/ /\ work[g].at = "staged" /\ ~Locked /\ Checkpoint(g)
          /\ work[g].plan \notin Blank /\ ~CountMatches(g)
    /\ Drops(g, "error")
    /\ OnlyWork

\* The vector store or the model fails; a write may have landed even so.
Break(g) ==
    /\ work[g].at \in {"begun", "removing", "planned", "read", "staging",
                     "embedding", "staged", "activated", "skipping"} /\ Event
    /\ \/ UNCHANGED store
       \/ Upsert(g)
       \/ /\ work[g].at = "staged" /\ Checkpoint(g) /\ ~Locked
          /\ work[g].plan \notin Blank /\ CountMatches(g)
          /\ store' = [store EXCEPT ![g].ready = TRUE]
    /\ Drops(g, "error")
    /\ UNCHANGED <<local, source, receipt, job, writing, inval, looking, reader,
                   wiped, cleared, obstacle, passed>>

\* discard_projection: only points of this generation that are not ready.
DropStaged(g) ==
    /\ work[g].at = "dropping"
    /\ writing' = writing \ {g}
    /\ \/ UNCHANGED events /\ store' = [store EXCEPT ![g] = IF @.ready THEN @ ELSE NoPoints]
       \/ Event /\ UNCHANGED store
    /\ Goes(g, "failing")
    /\ UNCHANGED <<local, source, receipt, job, inval, looking, reader, wiped, cleared,
                   obstacle, passed>>

\* _fail: a stale attempt changes nothing; some errors are tried again.
Fail(g) ==
    /\ work[g].at = "failing" /\ DatabaseFree
    /\ \/ ~Owns(g) /\ UNCHANGED job
       \/ /\ Owns(g) /\ job[g[1]].cancel
          /\ job' = [job EXCEPT ![g[1]] = Ended(g[1], "CANCELLED")]
       \/ /\ Fenced(g)
          /\ job' = [job EXCEPT ![g[1]] = [Ended(g[1], "FAILED") EXCEPT
                                              !.broken = (work[g].why = "error")]]
       \/ /\ Fenced(g) /\ work[g].why = "error" /\ g[2] < MaxAttempts
          /\ job' = [job EXCEPT ![g[1]] = Ended(g[1], "QUEUED")]
    /\ work' = [work EXCEPT ![g] = Idle]
    /\ UNCHANGED <<local, source, receipt, store, writing, inval, looking, reader,
                   events, wiped, cleared, obstacle, passed>>

-------------------------------------------------------------------------------
(* A search (hybrid_retrieval.py): it learns which generation it may use,  *)
(* asks the vector store, and checks again before it shows anything.       *)

OnlyReader == UNCHANGED <<local, source, receipt, job, store, writing, work,
                          inval, looking, events, wiped, cleared, obstacle, passed>>

BeginSearch ==
    /\ reader.at = "idle" /\ Covered
    /\ reader' = [at |-> "searching", gen |-> receipt.gen, stamp |-> source.stamp, text |-> 0]
    /\ OnlyReader

\* The filter admits ready points of the generation; embedding the query takes
\* time, and there may be none left.
SearchStore ==
    /\ reader.at = "searching"
    /\ reader' = IF store[reader.gen].ready
                 THEN [reader EXCEPT !.at = "found", !.text = store[reader.gen].stamp]
                 ELSE NoSearch
    /\ OnlyReader

\* Slip: a usable receipt is enough.
StillReady == Covered

\* Catalog and receipts again: the page has its old signature, and the receipt
\* names the generation of the hit.
StillCurrent == /\ Covered /\ reader.gen = receipt.gen
                /\ reader.stamp = source.stamp

\* A hit is shown, or dropped.
Serve == reader.at = "found" /\ StillCurrent /\ reader' = NoSearch /\ OnlyReader

Withhold == reader.at = "found" /\ ~StillCurrent /\ reader' = NoSearch /\ OnlyReader

-------------------------------------------------------------------------------
Request ==
    \/ LookAtQueue \/ Edit \/ Suspend \/ Resume \/ Discard
    \/ Trash \/ Restore \/ Cascade \/ RequestIndex \/ Purge
    \/ \E j \in Jobs : CancelJob(j)
    \/ BeginWork \/ EndWork \/ Bar \/ Unbar \/ RestChanges

InvalStep(i) == ReadInvalidate(i) \/ DeleteInvalidated(i) \/ FollowUp(i)

Build(g) ==
    \/ LeaveOut(g) \/ Plan(g) \/ Remove(g) \/ Skip(g) \/ ReadRecords(g) \/ Reserve(g)
    \/ CheckBatch(g) \/ WriteBatch(g) \/ EndStaging(g) \/ Activate(g)
    \/ CommitReceipt(g) \/ Prune(g) \/ Close(g)
    \/ Refused(g) \/ Undone(g) \/ DropStaged(g) \/ Fail(g)

Search == BeginSearch \/ SearchStore \/ Serve \/ Withhold

Next ==
    \/ Request \/ Search
    \/ \E i \in Invals : InvalStep(i) \/ StallInvalidate(i)
    \/ \E j \in Jobs : Claim(j) \/ LeaseEnds(j) \/ LeaseLost(j)
    \/ \E g \in Gens : Build(g) \/ Break(g) \/ PruneLater(g) \/ Crash(g)

Spec == Init /\ [][Next]_vars

\* A thread that can go on eventually does, also when it has to wait for other
\* transactions; the recovery loop keeps scanning, and a search ends.
FairSpec ==
    /\ Spec
    /\ \A g \in Gens : SF_vars(Build(g))
    /\ \A j \in Jobs : SF_vars(Claim(j)) /\ WF_vars(LeaseEnds(j))
    /\ \A i \in Invals : SF_vars(InvalStep(i))
    /\ WF_vars(SearchStore \/ Serve \/ Withhold)

-------------------------------------------------------------------------------
(* Properties.                                                             *)

\* Only losers are pruned: whatever attempts race, stall or die, the generation
\* that the committed receipt names stays complete in the vector store, except
\* where a deletion of the whole version met it (prune_committed_projection).
WinnerSurvives ==
    receipt.state = "READY" /\ wiped[receipt.gen] = "no" => Complete(receipt.gen)

\* A receipt is committed only for the version as it is at that moment, although
\* the texts were read, embedded and activated long before; on a server what it
\* rests on is not locked and may have changed since (run_index_job).
CommittedIsCurrent ==
    [][receipt' # receipt => /\ source.life = "live"
                             /\ source.own <= receipt'.stamp
                             /\ local => receipt'.stamp = source.stamp]_vars

\* What a search shows is the text of the version as it is when it is shown,
\* although the hit was fetched from another store before (_search_catalog).
ServedIsCurrent ==
    [][Serve => source.life = "live" /\ reader.text = source.stamp]_vars

\* After the vectors of a purged or discarded version were deleted, no late
\* writer makes any of its text searchable; in one process, where deletions
\* and writers see each other, none is left at all (delete_versions).
RemovedStaysGone ==
    cleared => \A g \in Gens : /\ ~store[g].ready
                               /\ local => store[g].written = 0

\* Somebody was told: a job failed for good, or was cancelled.
GivenUp == \E j \in Jobs : job[j].state = "CANCELLED" \/ job[j].broken

\* On SQLite no edit is lost silently by the index jobs themselves (the comment
\* in _queue_index): a version in use whose stamp is not in the receipt has a job
\* that will look at it, or it was passed over since an index was last queued:
\* left out of a plan or refused because of work on it or on what it rests on,
\* or changed with nothing queued, by what it rests on or by a job whose owner
\* had lost access.  On a database server the queued job that an edit relies on
\* can be taken, and read its plan, before the edit commits.
LocalEditsFollowed ==
    local => \/ source.life # "live" \/ GivenUp \/ passed
             \/ \E j \in Jobs : job[j].state \in {"QUEUED", "RUNNING"}
             \/ receipt.state # "NONE" /\ receipt.stamp = source.stamp

\* A follow-up finds no number for its job: a bound of the model.
Waiting == \E i \in Invals : /\ inval[i] = "follow"
                             /\ \A j \in Jobs : job[j].state # "ABSENT"

\* On SQLite a version in use becomes searchable, and stays so, unless nobody
\* stops changing it, an obstacle stays, it was passed over, a job was given up,
\* or its points were deleted by a thread without lease or by the INVALIDATE job
\* of another resource.
EventuallySearchable ==
    local => <>[](\/ source.life # "live" \/ GivenUp \/ Waiting
                  \/ Obstructed \/ passed
                  \/ receipt.state # "NONE" /\ wiped[receipt.gen] = "lost"
                  \/ Covered
                  \/ receipt.state = "EMPTY" /\ receipt.stamp = source.stamp)
===============================================================================
