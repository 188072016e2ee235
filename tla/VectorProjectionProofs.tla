------------------------ MODULE VectorProjectionProofs ------------------------
(***************************************************************************)
(* Theorems of VectorProjection, for any jobs, attempts, INVALIDATE jobs,  *)
(* batches and stamps, on SQLite and on a database server.                 *)
(***************************************************************************)
EXTENDS VectorProjection, WellFoundedInduction, TLAPS

-------------------------------------------------------------------------------
(* The inductive invariant.                                                *)

\* The attempt of g has not begun.
NotYet(g) == g[2] > job[g[1]].attempt

Early == {"begun", "removing", "planned", "read"}
Building == Early \cup {"staging", "embedding", "staged", "activated", "skipping"}

\* Only a claim begins an attempt, and nothing is written for it before.
Untouched ==
    /\ \A j \in Jobs : job[j].state = "ABSENT" => job[j].attempt = 0
    /\ \A g \in Gens : NotYet(g) => work[g] = Idle
    /\ \A g \in Gens : NotYet(g) \/ work[g].at \in Early =>
                            store[g].written = 0 /\ work[g].done = 0

\* No more points than batches.
Counted ==
    /\ \A g \in Gens : work[g].at \in {"staging", "embedding"} => store[g].written <= work[g].done
    /\ \A g \in Gens : work[g].at = "embedding" => work[g].done < Batches
    /\ \A g \in Gens : store[g].ready => store[g].written = Batches

\* A generation is built under one stamp.
OwnText == \A g \in Gens :
    /\ work[g].at \in {"staging", "embedding", "staged", "activated"}
    /\ store[g].written > 0
    => store[g].stamp = work[g].plan

\* Neither the receipt nor a search names what is still being built.
NotNamed == \A g \in Gens :
    NotYet(g) \/ work[g].at \in Building => receipt.gen # g /\ reader.gen # g

\* The generation that the receipt names has the text of its stamp.
ReceiptText ==
    /\ receipt.state # "NONE" <=> receipt.gen \in Gens
    /\ \A g \in Gens : receipt.gen = g /\ store[g].written > 0
                            => store[g].stamp = receipt.stamp

\* So has what a search finds.
ReaderText ==
    /\ reader.at # "idle" => reader.gen \in Gens
    /\ \A g \in Gens : reader.at # "idle" /\ reader.gen = g /\ store[g].written > 0
                            => store[g].stamp = reader.stamp
    /\ reader.at = "found" => reader.text = reader.stamp

Reservations == \A g \in Gens :
    g \in writing => work[g].at \in {"staging", "embedding", "dropping"}

\* A last transaction keeps the rows of the version as it found them; what the
\* version rests on, only where there is one writer.
RowsKept ==
    /\ source.own <= source.stamp
    /\ \A g \in Gens : work[g].at = "activated" =>
            /\ source.life = "live" /\ ~looking.open
            /\ source.own <= work[g].plan /\ work[g].plan <= source.stamp
            /\ local => source.stamp = work[g].plan
    /\ looking.open => ~local

\* It has made its generation ready, unless a deletion came in between.
ActivatedReady == \A g \in Gens :
    work[g].at = "activated" /\ work[g].plan \notin Blank /\ wiped[g] = "no" => Complete(g)

\* What was removed cannot become ready; without a reservation, nothing can be
\* written either.
Removed ==
    cleared => /\ source.life = "gone"
               /\ \A g \in Gens : ~store[g].ready
               /\ local => \A g \in Gens : /\ store[g].written = 0
                                           /\ work[g].at = "embedding" => g \notin writing

VecInv ==
    /\ ShapeOK /\ Untouched /\ Counted
    /\ OwnText /\ NotNamed /\ ReceiptText /\ ReaderText
    /\ Reservations /\ RowsKept /\ ActivatedReady /\ WinnerSurvives /\ Removed

-------------------------------------------------------------------------------
(* Requests and the job engine change neither generations nor receipts.    *)

LEMMA NotAGeneration == \A g \in Gens : NoGen # g
BY DEF NoGen, Gens

LEMMA Constants ==
    /\ Batches \in Nat \ {0} /\ MaxAttempts \in Nat /\ MaxEvents \in Nat
    /\ 0 \in Stamps /\ NoRow \in Row /\ NoPoints \in Points
    /\ NoReceipt \in Receipt /\ Idle \in Work /\ NoSearch \in Reader
BY BoundsAssumption
DEF Stamps, NoRow, Row, NoPoints, Points, NoReceipt, Receipt, Idle, Work, NoSearch, Reader

\* The version changes, unless its rows are locked; or what it rests on does.
SourceMoves ==
    /\ source.life # "gone" /\ source'.own <= source'.stamp
    /\ \/ ~Activating
       \/ /\ ~local /\ source'.life = source.life /\ source'.own = source.own
          /\ source'.stamp = source.stamp + 1

\* What a step outside run_index_job and the searches leaves alone.
Outside ==
    /\ UNCHANGED <<local, receipt, store, writing, work, reader, wiped, cleared>>
    /\ source' = source \/ SourceMoves
    /\ \A j \in Jobs : job'[j].attempt = job[j].attempt
    /\ \A j \in Jobs : job'[j].state = "ABSENT" => job[j].state = "ABSENT"
    /\ looking'.open => looking.open \/ (~local /\ ~Activating)

LEMMA OutsideKeeps ==
    ASSUME VecInv, Outside, ShapeOK'
    PROVE  VecInv'
<1>1. \A g \in Gens : g[1] \in Jobs
  BY DEF Gens
<1>2. \A g \in Gens : NotYet(g)' <=> NotYet(g)
  BY <1>1 DEF Outside, NotYet
<1>3. Untouched'
  BY <1>1, <1>2 DEF VecInv, Outside, Untouched
<1>4. Counted' /\ OwnText' /\ ReceiptText' /\ ReaderText' /\ Reservations'
  BY DEF VecInv, Outside, Counted, OwnText, ReceiptText, ReaderText, Reservations
<1>5. NotNamed'
  BY <1>2 DEF VecInv, Outside, NotNamed
<1>6. RowsKept'
  <2>1. source.stamp \in Nat /\ \A g \in Gens : work[g].plan \in Nat
    BY DEF VecInv, ShapeOK, Source, Work, Stamps
  <2>2. source'.own <= source'.stamp /\ (looking'.open => ~local')
    BY DEF VecInv, Outside, SourceMoves, RowsKept
  <2>3. CASE ~Activating
    BY <2>2, <2>3 DEF Outside, RowsKept, Activating
  <2>4. CASE Activating
    <3>1. ~looking.open /\ ~looking'.open
      BY <2>4 DEF VecInv, Outside, RowsKept, Activating
    <3>. QED BY <2>1, <2>2, <2>4, <3>1 DEF VecInv, Outside, SourceMoves, RowsKept
  <2>. QED BY <2>3, <2>4
<1>7. ActivatedReady' /\ WinnerSurvives'
  BY DEF VecInv, Outside, ActivatedReady, WinnerSurvives, Complete
<1>8. Removed'
  BY DEF VecInv, Outside, SourceMoves, Removed
<1>. QED BY <1>3, <1>4, <1>5, <1>6, <1>7, <1>8 DEF VecInv

\* A request takes a queued job or creates one.
LEMMA EnqueueEffect ==
    ASSUME VecInv, NEW seen \in SUBSET Jobs, NEW force \in BOOLEAN, NEW removed \in BOOLEAN,
           Enqueue(seen, force, removed)
    PROVE  /\ job' \in [Jobs -> Row]
           /\ \A j \in Jobs : job'[j].attempt = job[j].attempt
           /\ \A j \in Jobs : job'[j].state = "ABSENT" => job[j].state = "ABSENT"
<1>1. job \in [Jobs -> Row]
  BY DEF VecInv, ShapeOK
<1>2. CASE \E j \in seen : job' = [job EXCEPT ![j].removed = @ \/ removed]
  <2>1. PICK k \in seen : job' = [job EXCEPT ![k] = [job[k] EXCEPT !.removed = job[k].removed \/ removed]]
    BY <1>2
  <2>2. [job[k] EXCEPT !.removed = job[k].removed \/ removed] \in Row
    <3>1. job[k] \in Row /\ (job[k].removed \/ removed) \in BOOLEAN
      BY <1>1
    <3>. QED BY <3>1 DEF Row
  <2>. QED BY <1>1, <2>1, <2>2 DEF Row
<1>3. CASE \E j \in Jobs : /\ job[j].state = "ABSENT"
                           /\ job' = [job EXCEPT ![j] = [NoRow EXCEPT !.state = "QUEUED",
                                           !.force = force, !.removed = removed]]
  <2>1. PICK k \in Jobs : /\ job[k].state = "ABSENT"
                          /\ job' = [job EXCEPT ![k] = [NoRow EXCEPT !.state = "QUEUED",
                                           !.force = force, !.removed = removed]]
    BY <1>3
  <2>2. [NoRow EXCEPT !.state = "QUEUED", !.force = force, !.removed = removed] \in Row
    BY Constants DEF NoRow, Row
  <2>3. job[k].attempt = 0
    BY <2>1 DEF VecInv, Untouched
  <2>. QED BY <1>1, <2>1, <2>2, <2>3 DEF NoRow
<1>. QED BY <1>2, <1>3 DEF Enqueue

LEMMA BecomesEffect ==
    ASSUME VecInv, NEW life \in {"live", "paused", "trashed", "gone"}, Becomes(life)
    PROVE  source' \in Source /\ source'.own <= source'.stamp /\ source'.own = source'.stamp
<1>1. source.stamp \in 0..MaxEvents /\ events \in Nat
  BY DEF VecInv, ShapeOK, Source, Stamps
<1>2. source.stamp + 1 \in Stamps
  BY <1>1, Constants DEF Becomes, Room, Stamps
<1>. QED BY <1>1, <1>2 DEF Becomes, Source

LEMMA OpenInvalEffect ==
    ASSUME VecInv, OpenInval
    PROVE  inval' \in [Invals -> Course]
BY DEF VecInv, ShapeOK, OpenInval, Course

LEMMA CommitsEffect ==
    ASSUME VecInv, NEW removed \in BOOLEAN, Commits(removed)
    PROVE  /\ job' \in [Jobs -> Row]
           /\ \A j \in Jobs : job'[j].attempt = job[j].attempt
           /\ \A j \in Jobs : job'[j].state = "ABSENT" => job[j].state = "ABSENT"
           /\ looking' \in [open: BOOLEAN, seen: SUBSET Jobs] /\ ~looking'.open
           /\ UNCHANGED <<local, receipt, store, writing, work, reader, events, wiped, cleared>>
           /\ ~Activating
<1>1. Queued \in SUBSET Jobs /\ looking.seen \in SUBSET Jobs
  BY DEF Queued, VecInv, ShapeOK
<1>2. \/ CanCommit /\ Enqueue(Queued, FALSE, removed)
      \/ looking.open /\ Enqueue(looking.seen, FALSE, removed)
  BY DEF Commits
<1>3. ~Activating
  BY <1>2 DEF CanCommit, Locked, VecInv, RowsKept, Activating
<1>4. \/ Enqueue(Queued, FALSE, removed) \/ Enqueue(looking.seen, FALSE, removed)
  BY <1>2
<1>5. /\ job' \in [Jobs -> Row]
      /\ \A j \in Jobs : job'[j].attempt = job[j].attempt
      /\ \A j \in Jobs : job'[j].state = "ABSENT" => job[j].state = "ABSENT"
  <2>1. CASE Enqueue(Queued, FALSE, removed)
    BY <2>1, <1>1, EnqueueEffect
  <2>2. CASE Enqueue(looking.seen, FALSE, removed)
    BY <2>2, <1>1, EnqueueEffect
  <2>. QED BY <1>4, <2>1, <2>2
<1>. QED BY <1>3, <1>5 DEF Commits

LEMMA EndWorkKeeps ==
    ASSUME VecInv, EndWork
    PROVE  VecInv'
<1>1. CASE source.life = "live" /\ Becomes("live") /\ Commits(FALSE)
  <2>1. source' \in Source /\ source'.own <= source'.stamp
    BY <1>1, BecomesEffect
  <2>2. /\ job' \in [Jobs -> Row]
        /\ \A j \in Jobs : job'[j].attempt = job[j].attempt
        /\ \A j \in Jobs : job'[j].state = "ABSENT" => job[j].state = "ABSENT"
        /\ looking' \in [open: BOOLEAN, seen: SUBSET Jobs] /\ ~looking'.open
        /\ UNCHANGED <<local, receipt, store, writing, work, reader, events, wiped, cleared>>
        /\ ~Activating
    BY <1>1, CommitsEffect
  <2>3. ShapeOK'
    BY <2>1, <2>2 DEF EndWork, VecInv, ShapeOK
  <2>4. Outside
    BY <1>1, <2>1, <2>2 DEF Outside, SourceMoves
  <2>. QED BY <2>3, <2>4, OutsideKeeps
<1>2. CASE /\ source.life = "live" /\ Becomes("live") /\ CanCommit
           /\ UNCHANGED <<local, receipt, job, store, writing, work, looking, reader,
                          events, wiped, cleared>>
  <2>1. source' \in Source /\ source'.own <= source'.stamp
    BY <1>2, BecomesEffect
  <2>2. ShapeOK'
    BY <1>2, <2>1 DEF EndWork, VecInv, ShapeOK
  <2>3. Outside
    BY <1>2, <2>1 DEF CanCommit, Locked, Outside, SourceMoves
  <2>. QED BY <2>2, <2>3, OutsideKeeps
<1>3. CASE UNCHANGED <<local, source, receipt, job, store, writing, work, looking,
                       reader, events, wiped, cleared>>
  <2>1. ShapeOK'
    BY <1>3 DEF EndWork, VecInv, ShapeOK
  <2>2. Outside
    BY <1>3 DEF Outside, VecInv, RowsKept
  <2>. QED BY <2>1, <2>2, OutsideKeeps
<1>. QED BY <1>1, <1>2, <1>3 DEF EndWork

LEMMA RestChangesKeeps ==
    ASSUME VecInv, RestChanges
    PROVE  VecInv'
<1>1. /\ source \in Source /\ source.stamp \in 0..MaxEvents /\ source.own \in 0..MaxEvents
      /\ source.own <= source.stamp /\ events \in Nat /\ MaxEvents \in Nat
  BY Constants DEF VecInv, ShapeOK, RowsKept, Source, Stamps
<1>2. /\ source' = [source EXCEPT !.stamp = source.stamp + 1]
      /\ source.stamp + events < MaxEvents /\ source.life = "live"
      /\ UNCHANGED <<local, receipt, job, store, writing, work, inval, looking, reader,
                     events, wiped, cleared>>
      /\ local => ~Activating
  BY DEF RestChanges, Room, DatabaseFree
<1>3. /\ source'.stamp = source.stamp + 1 /\ source'.own = source.own
      /\ source'.life = source.life
  BY <1>1, <1>2 DEF Source
<1>4. source' \in Source
  <2>1. source.stamp + 1 \in Stamps
    BY <1>1, <1>2 DEF Stamps
  <2>. QED BY <1>1, <1>2, <2>1 DEF Source
<1>5. ShapeOK'
  BY <1>2, <1>4 DEF VecInv, ShapeOK
<1>6. SourceMoves
  BY <1>1, <1>2, <1>3 DEF SourceMoves
<1>7. Outside
  BY <1>2, <1>6 DEF Outside, VecInv, RowsKept, Activating
<1>. QED BY <1>5, <1>7, OutsideKeeps

LEMMA RequestKeeps ==
    ASSUME VecInv, Request, ~Purge
    PROVE  VecInv'
<1>1. CASE LookAtQueue
  <2>1. Queued \in SUBSET Jobs
    BY DEF Queued
  <2>2. ShapeOK'
    BY <1>1, <2>1 DEF LookAtQueue, VecInv, ShapeOK
  <2>3. Outside
    BY <1>1 DEF LookAtQueue, Locked, Outside
  <2>. QED BY <2>2, <2>3, OutsideKeeps
<1>2. CASE Edit \/ Suspend \/ Resume \/ Discard
  <2>1. PICK removed \in BOOLEAN, life \in {"live", "paused", "gone"} :
            Commits(removed) /\ Becomes(life) /\ source.life # "gone"
    BY <1>2 DEF Edit, Suspend, Resume, Discard
  <2>2. /\ inval' \in [Invals -> Course]
    BY <1>2, OpenInvalEffect DEF Edit, Suspend, Resume, Discard, VecInv, ShapeOK
  <2>3. source' \in Source /\ source'.own <= source'.stamp
    BY <2>1, BecomesEffect
  <2>4. /\ job' \in [Jobs -> Row]
        /\ \A j \in Jobs : job'[j].attempt = job[j].attempt
        /\ \A j \in Jobs : job'[j].state = "ABSENT" => job[j].state = "ABSENT"
        /\ looking' \in [open: BOOLEAN, seen: SUBSET Jobs] /\ ~looking'.open
        /\ UNCHANGED <<local, receipt, store, writing, work, reader, events, wiped, cleared>>
        /\ ~Activating
    BY <2>1, CommitsEffect
  <2>5. ShapeOK'
    BY <2>2, <2>3, <2>4 DEF VecInv, ShapeOK
  <2>6. Outside
    BY <2>1, <2>3, <2>4 DEF Outside, SourceMoves
  <2>. QED BY <2>5, <2>6, OutsideKeeps
<1>3. CASE Trash \/ Restore \/ Cascade
  <2>1. PICK life \in {"paused", "trashed"} :
            Becomes(life) /\ source.life # "gone" /\ CanCommit /\ Unqueued
    BY <1>3 DEF Trash, Restore, Cascade
  <2>2. inval' \in [Invals -> Course]
    BY <1>3, OpenInvalEffect DEF Trash, Restore, Cascade, VecInv, ShapeOK, Course
  <2>3. source' \in Source /\ source'.own <= source'.stamp
    BY <2>1, BecomesEffect
  <2>4. ShapeOK'
    BY <2>1, <2>2, <2>3 DEF Unqueued, VecInv, ShapeOK
  <2>5. Outside
    BY <2>1, <2>3 DEF Unqueued, CanCommit, Locked, Outside, SourceMoves
  <2>. QED BY <2>4, <2>5, OutsideKeeps
<1>4. CASE RequestIndex
  <2>1. Queued \in SUBSET Jobs
    BY DEF Queued
  <2>2. /\ job' \in [Jobs -> Row]
        /\ \A j \in Jobs : job'[j].attempt = job[j].attempt
        /\ \A j \in Jobs : job'[j].state = "ABSENT" => job[j].state = "ABSENT"
    BY <1>4, <2>1, EnqueueEffect DEF RequestIndex
  <2>3. ShapeOK'
    BY <1>4, <2>2 DEF RequestIndex, Event, VecInv, ShapeOK
  <2>4. Outside
    BY <1>4, <2>2 DEF RequestIndex, Outside
  <2>. QED BY <2>3, <2>4, OutsideKeeps
<1>5. ASSUME NEW j \in Jobs, CancelJob(j)
      PROVE  VecInv'
  <2>1. job[j] \in Row
    BY DEF VecInv, ShapeOK
  <2> DEFINE s == IF job[j].state = "QUEUED" THEN "CANCELLED" ELSE "RUNNING"
  <2>2. job' = [job EXCEPT ![j] = [job[j] EXCEPT !.cancel = TRUE, !.state = s]]
    BY <1>5, <2>1 DEF CancelJob, Row, VecInv, ShapeOK
  <2>s. s \in {"CANCELLED", "QUEUED", "RUNNING"}
    BY <1>5 DEF CancelJob
  <2> HIDE DEF s
  <2>3. [job[j] EXCEPT !.cancel = TRUE, !.state = s] \in Row
    BY <2>1, <2>s DEF Row
  <2>4. ShapeOK'
    BY <1>5, <2>2, <2>3 DEF CancelJob, Event, VecInv, ShapeOK
  <2>5. Outside
    BY <1>5, <2>1, <2>2, <2>s DEF CancelJob, Outside, VecInv, ShapeOK, Row
  <2>. QED BY <2>4, <2>5, OutsideKeeps
<1>6. CASE BeginWork \/ Bar \/ Unbar
  <2>1. ShapeOK'
    BY <1>6 DEF BeginWork, Bar, Unbar, Event, VecInv, ShapeOK
  <2>2. Outside
    BY <1>6 DEF BeginWork, Bar, Unbar, Outside, VecInv, RowsKept
  <2>. QED BY <2>1, <2>2, OutsideKeeps
<1>7. CASE EndWork
  BY <1>7, EndWorkKeeps
<1>8. CASE RestChanges
  BY <1>8, RestChangesKeeps
<1>. QED BY <1>1, <1>2, <1>3, <1>4, <1>5, <1>6, <1>7, <1>8 DEF Request

LEMMA LeaseKeeps ==
    ASSUME VecInv, NEW j \in Jobs, LeaseEnds(j) \/ LeaseLost(j)
    PROVE  VecInv'
<1>1. job[j] \in Row
  BY DEF VecInv, ShapeOK
<1>2. job' = [job EXCEPT ![j] = [job[j] EXCEPT !.held = FALSE]]
  BY DEF LeaseEnds, LeaseLost
<1>3. [job[j] EXCEPT !.held = FALSE] \in Row
  BY <1>1 DEF Row
<1>4. ShapeOK'
  BY <1>2, <1>3 DEF LeaseEnds, LeaseLost, Event, VecInv, ShapeOK
<1>5. Outside
  BY <1>1, <1>2 DEF LeaseEnds, LeaseLost, Outside, VecInv, ShapeOK, Row
<1>. QED BY <1>4, <1>5, OutsideKeeps

LEMMA InvalidateKeeps ==
    ASSUME VecInv, NEW i \in Invals, ReadInvalidate(i) \/ StallInvalidate(i) \/ FollowUp(i)
    PROVE  VecInv'
<1>1. inval' \in [Invals -> Course]
  BY DEF ReadInvalidate, StallInvalidate, FollowUp, VecInv, ShapeOK, Course
<1>2. CASE ReadInvalidate(i) \/ StallInvalidate(i)
  <2>1. ShapeOK'
    BY <1>1, <1>2 DEF ReadInvalidate, StallInvalidate, Event, VecInv, ShapeOK
  <2>2. Outside
    BY <1>2 DEF ReadInvalidate, StallInvalidate, Outside, VecInv, RowsKept
  <2>. QED BY <2>1, <2>2, OutsideKeeps
<1>3. CASE FollowUp(i)
  <2>1. Queued \in SUBSET Jobs
    BY DEF Queued
  <2>2. /\ job' \in [Jobs -> Row]
        /\ \A j \in Jobs : job'[j].attempt = job[j].attempt
        /\ \A j \in Jobs : job'[j].state = "ABSENT" => job[j].state = "ABSENT"
    BY <1>3, <2>1, EnqueueEffect DEF FollowUp, VecInv, ShapeOK
  <2>a. events' \in Nat
    <3>1. UNCHANGED events \/ events' = events + 1
      BY <1>3 DEF FollowUp, Event
    <3>. QED BY <3>1 DEF VecInv, ShapeOK
  <2>3. ShapeOK'
    BY <1>1, <1>3, <2>2, <2>a DEF FollowUp, VecInv, ShapeOK
  <2>4. Outside
    BY <1>3, <2>2 DEF FollowUp, Outside
  <2>. QED BY <2>3, <2>4, OutsideKeeps
<1>. QED BY <1>2, <1>3

-------------------------------------------------------------------------------
(* Deletions of a whole version.                                           *)

\* A deletion, whatever becomes of the source.
Deletes ==
    /\ UNCHANGED <<local, receipt, job, looking, reader>>
    /\ store' = [g \in Gens |-> NoPoints]
    /\ writing' = IF local THEN {} ELSE writing
    /\ \E how \in {"followed", "lost"} :
            wiped' = [g \in Gens |-> IF store[g].ready THEN how ELSE wiped[g]]
    /\ \/ source' = source
       \/ source.life # "gone" /\ ~Activating /\ source'.own <= source'.stamp
    /\ cleared' => source'.life = "gone"
    /\ \/ work' = work
       \/ \E g \in Gens : /\ work[g].at = "removing"
                          /\ work' = [work EXCEPT ![g].at = "closing"]

LEMMA DeletesKeeps ==
    ASSUME VecInv, Deletes, ShapeOK'
    PROVE  VecInv'
<1>1. \A g \in Gens : /\ g[1] \in Jobs /\ work[g] \in Work
                      /\ \/ work'[g] = work[g]
                         \/ /\ work[g].at = "removing" /\ work'[g].at = "closing"
                            /\ work'[g].plan = work[g].plan
                            /\ work'[g].done = work[g].done
  BY DEF Gens, Deletes, VecInv, ShapeOK, Work
<1>2. \A g \in Gens : NotYet(g)' <=> NotYet(g)
  BY <1>1 DEF Deletes, NotYet
<1>3. \A g \in Gens : NotYet(g) => work[g] = Idle
  BY DEF VecInv, Untouched
<1>4. \A g \in Gens : store'[g].written = 0 /\ ~store'[g].ready
  BY DEF Deletes, NoPoints
<1>5. Untouched'
  BY <1>1, <1>2, <1>3, <1>4 DEF Deletes, VecInv, Untouched, Idle, Early
<1>6. Counted'
  BY <1>1, <1>4 DEF Deletes, VecInv, Counted, ShapeOK, Work
<1>7. OwnText' /\ ReceiptText' /\ ReaderText'
  BY <1>4 DEF Deletes, VecInv, OwnText, ReceiptText, ReaderText
<1>8. NotNamed'
  BY <1>1, <1>2 DEF Deletes, VecInv, NotNamed, Building, Early
<1>9. Reservations'
  BY <1>1 DEF Deletes, VecInv, Reservations
<1>10. RowsKept'
  BY <1>1 DEF Deletes, VecInv, RowsKept, Activating
<1>11. ActivatedReady'
  BY <1>1 DEF Deletes, VecInv, ActivatedReady, Complete
<1>12. WinnerSurvives'
  <2>1. receipt.state = "READY" => receipt.gen \in Gens
    BY DEF VecInv, ReceiptText
  <2>. QED BY <2>1 DEF Deletes, VecInv, WinnerSurvives, Complete
<1>13. Removed'
  BY <1>1, <1>4 DEF Deletes, VecInv, Removed
<1>. QED BY <1>5, <1>6, <1>7, <1>8, <1>9, <1>10, <1>11, <1>12, <1>13 DEF VecInv

LEMMA DeletionKeeps ==
    ASSUME VecInv,
           (\E i \in Invals : DeleteInvalidated(i)) \/ Purge \/ (\E g \in Gens : Remove(g))
    PROVE  VecInv'
<1>1. /\ [g \in Gens |-> NoPoints] \in [Gens -> Points]
      /\ (IF local THEN {} ELSE writing) \in SUBSET Gens
      /\ \A how \in {"followed", "lost"} : [g \in Gens |-> IF store[g].ready THEN how ELSE wiped[g]]
             \in [Gens -> {"no", "followed", "lost"}]
  BY Constants DEF VecInv, ShapeOK
<1>2. CASE \E i \in Invals : DeleteInvalidated(i)
  <2>1. PICK i \in Invals : DeleteInvalidated(i)
    BY <1>2
  <2>2. PICK how \in {"followed", "lost"} : DeleteVersion(how)
    BY <2>1 DEF DeleteInvalidated
  <2>3. inval' \in [Invals -> Course]
    BY <2>1 DEF DeleteInvalidated, VecInv, ShapeOK, Course
  <2>4. cleared' \in BOOLEAN
    BY <2>2 DEF DeleteVersion, VecInv, ShapeOK
  <2>5. ShapeOK'
    BY <1>1, <2>1, <2>2, <2>3, <2>4 DEF DeleteInvalidated, DeleteVersion, VecInv, ShapeOK
  <2>6. Deletes
    <3>1. \E k \in {"followed", "lost"} :
              wiped' = [g \in Gens |-> IF store[g].ready THEN k ELSE wiped[g]]
      BY <2>2 DEF DeleteVersion
    <3>2. cleared' => source'.life = "gone"
      BY <2>1, <2>2 DEF DeleteInvalidated, DeleteVersion, VecInv, Removed
    <3>3. /\ UNCHANGED <<local, receipt, job, looking, reader, source, work>>
          /\ store' = [h \in Gens |-> NoPoints]
          /\ writing' = IF local THEN {} ELSE writing
      BY <2>1, <2>2 DEF DeleteInvalidated, DeleteVersion
    <3>. QED BY <3>1, <3>2, <3>3 DEF Deletes
  <2>. QED BY <2>5, <2>6, DeletesKeeps
<1>3. CASE Purge
  <2>1. /\ source' \in Source /\ events' \in Nat
        /\ source' = source \/ source'.own <= source'.stamp
    BY <1>3, BecomesEffect DEF Purge, Event, VecInv, ShapeOK
  <2>2. ShapeOK'
    BY <1>1, <1>3, <2>1 DEF Purge, VecInv, ShapeOK
  <2>3. Deletes
    BY <1>3, <2>1 DEF Purge, Deletes, CanCommit, Locked
  <2>. QED BY <2>2, <2>3, DeletesKeeps
<1>4. CASE \E g \in Gens : Remove(g)
  <2>1. PICK g \in Gens : Remove(g)
    BY <1>4
  <2>2. cleared' \in BOOLEAN
    BY <2>1 DEF Remove, DeleteVersion, VecInv, ShapeOK
  <2>3. work' \in [Gens -> Work]
    <3>1. work[g] \in Work
      BY DEF VecInv, ShapeOK
    <3>2. [work[g] EXCEPT !.at = "closing"] \in Work
      BY <3>1 DEF Work
    <3>. QED BY <2>1, <3>2 DEF Remove, Goes, VecInv, ShapeOK
  <2>4. ShapeOK'
    BY <1>1, <2>1, <2>2, <2>3 DEF Remove, DeleteVersion, VecInv, ShapeOK
  <2>5. Deletes
    BY <2>1 DEF Remove, Goes, DeleteVersion, Deletes, VecInv, Removed
  <2>. QED BY <2>4, <2>5, DeletesKeeps
<1>. QED BY <1>2, <1>3, <1>4

-------------------------------------------------------------------------------
(* A step of one attempt, which touches its own points and reservation.    *)

\* The attempt of g goes on to w, its points become q.
Moves(g, w, q) ==
    /\ UNCHANGED <<local, source, receipt, looking, reader, wiped, cleared>>
    /\ \A j \in Jobs : job'[j].attempt = job[j].attempt
    /\ \A j \in Jobs : job'[j].state = "ABSENT" => job[j].state = "ABSENT"
    /\ work' = [work EXCEPT ![g] = w]
    /\ store' = [store EXCEPT ![g] = q]
    /\ \A h \in Gens : h # g => (h \in writing' <=> h \in writing)

\* What the points and the work of g may become.
Fits(g, w, q) ==
    /\ w.at \in Early => q.written = 0 /\ w.done = 0
    /\ w.at \in {"staging", "embedding"} => q.written <= w.done
    /\ w.at = "embedding" => w.done < Batches
    /\ q.ready => q.written = Batches
    /\ w.at \in {"staging", "embedding", "staged", "activated"} /\ q.written > 0
           => q.stamp = w.plan
    /\ w.at \in Building => work[g].at \in Building
    /\ g \in writing' => w.at \in {"staging", "embedding", "dropping"}

\* What is named is left alone, what was removed does not come back, and an
\* activated generation is ready and current.
Safe(g, w, q) ==
    /\ receipt.gen = g \/ reader.gen = g =>
           /\ q = store[g] \/ (q.written = 0 /\ ~store[g].ready)
           /\ g \in writing' => g \in writing
    /\ cleared => /\ ~q.ready
                  /\ local => q.written = 0 /\ (w.at = "embedding" => g \notin writing')
    /\ w.at = "activated" =>
           /\ source.life = "live" /\ source.stamp = w.plan /\ ~looking.open
           /\ w.plan \notin Blank => q.ready /\ q.written = Batches /\ g \notin writing'

LEMMA MovesKeeps ==
    ASSUME VecInv, NEW g \in Gens, NEW w \in Work, NEW q \in Points,
           work[g].at # "idle", Moves(g, w, q), Fits(g, w, q), Safe(g, w, q), ShapeOK'
    PROVE  VecInv'
<1>1. \A h \in Gens : h[1] \in Jobs
  BY DEF Gens
<1>2. \A h \in Gens : NotYet(h)' <=> NotYet(h)
  BY <1>1 DEF Moves, NotYet
<1>3. ~NotYet(g)
  BY DEF VecInv, Untouched, Idle
<1>4. /\ work'[g] = w /\ store'[g] = q
      /\ \A h \in Gens : h # g => work'[h] = work[h] /\ store'[h] = store[h]
  BY DEF Moves, VecInv, ShapeOK
<1>5. Untouched'
  BY <1>1, <1>2, <1>3, <1>4 DEF Moves, Fits, VecInv, Untouched
<1>6. Counted' /\ OwnText' /\ Reservations'
  BY <1>4 DEF Moves, Fits, VecInv, Counted, OwnText, Reservations
<1>7. NotNamed'
  BY <1>2, <1>3, <1>4 DEF Moves, Fits, VecInv, NotNamed
<1>8. ReceiptText' /\ ReaderText'
  BY <1>4 DEF Moves, Safe, VecInv, ReceiptText, ReaderText
<1>9. RowsKept'
  <2>1. source.stamp <= source.stamp
    BY DEF VecInv, ShapeOK, Source, Stamps
  <2>. QED BY <1>4, <2>1 DEF Moves, Safe, VecInv, RowsKept
<1>10. ActivatedReady'
  BY <1>4 DEF Moves, Safe, VecInv, ActivatedReady, Complete
<1>11. WinnerSurvives'
  <2>1. receipt.state = "READY" => receipt.gen \in Gens
    BY DEF VecInv, ReceiptText
  <2>. QED BY <1>4, <2>1 DEF Moves, Safe, VecInv, WinnerSurvives, Complete
<1>12. Removed'
  BY <1>4 DEF Moves, Safe, VecInv, Removed
<1>. QED BY <1>5, <1>6, <1>7, <1>8, <1>9, <1>10, <1>11, <1>12 DEF VecInv

LEMMA MovesTypes ==
    ASSUME VecInv, NEW g \in Gens, NEW w \in Work, NEW q \in Points, Moves(g, w, q),
           job' \in [Jobs -> Row], writing' \in SUBSET Gens, events' \in Nat,
           UNCHANGED inval
    PROVE  ShapeOK'
BY DEF Moves, VecInv, ShapeOK

\* Steps of one thread that change its own work only, or pass a change over.
OthersKept == UNCHANGED <<local, source, receipt, job, store, writing, inval, looking,
                          reader, events, wiped, cleared>>

LEMMA OnlyWorkMoves ==
    ASSUME VecInv, NEW g \in Gens, NEW w \in Work, work[g].at \notin {"idle", "dropping"},
           work' = [work EXCEPT ![g] = w], OthersKept,
           w.at \in Early => work[g].at \in Early /\ w.done = 0,
           w.at \in {"staging", "embedding"} =>
               /\ work[g].at = "staging" /\ w = [work[g] EXCEPT !.at = w.at]
               /\ w.done < Batches
               /\ w.at = "embedding" => source.life = "live",
           w.at = "staged" => store[g].written = 0,
           w.at # "activated",
           w.at \in Building => work[g].at \in Building,
           work[g].at \notin {"staging", "embedding"} \/ w.at \in {"embedding", "dropping"}
    PROVE  VecInv'
<1>1. work[g] \in Work /\ store[g] \in Points
  BY DEF VecInv, ShapeOK
<1>2. Moves(g, w, store[g])
  BY DEF OthersKept, Moves, VecInv, ShapeOK
<1>3. ShapeOK'
  BY <1>1, <1>2, MovesTypes DEF OthersKept, VecInv, ShapeOK
<1>4. w.at \in {"staging", "embedding"} => /\ work[g].at = "staging"
                                           /\ w.done = work[g].done /\ w.plan = work[g].plan
  BY <1>1 DEF Work
<1>5. Fits(g, w, store[g])
  <2>1. w.at \in Early => store[g].written = 0 /\ w.done = 0
    BY DEF VecInv, Untouched
  <2>2. w.at \in {"staging", "embedding"} => store[g].written <= w.done
    BY <1>4 DEF VecInv, Counted
  <2>3. w.at \in {"staging", "embedding", "staged", "activated"} /\ store[g].written > 0
           => store[g].stamp = w.plan
    BY <1>1, <1>4 DEF VecInv, OwnText, Points
  <2>4. g \in writing' => w.at \in {"staging", "embedding", "dropping"}
    <3>1. CASE work[g].at \in {"staging", "embedding"}
      BY <3>1
    <3>2. CASE work[g].at \notin {"staging", "embedding"}
      BY <3>2 DEF OthersKept, VecInv, Reservations
    <3>. QED BY <3>1, <3>2
  <2>. QED BY <2>1, <2>2, <2>3, <2>4 DEF Fits, VecInv, Counted
<1>6. Safe(g, w, store[g])
  BY DEF Safe, OthersKept, VecInv, Removed
<1>. QED BY <1>1, <1>2, <1>3, <1>5, <1>6, MovesKeeps

LEMMA QuietStepKeeps ==
    ASSUME VecInv, NEW g \in Gens,
           \/ LeaveOut(g) \/ Plan(g) \/ Skip(g) \/ ReadRecords(g) \/ CheckBatch(g)
           \/ Refused(g) \/ Undone(g)
    PROVE  VecInv'
<1>0. work[g] \in Work /\ store[g] \in Points /\ source.stamp \in Stamps /\ receipt \in Receipt
  BY DEF VecInv, ShapeOK, Source
<1>z. Idle \in Work /\ NoReceipt \in Receipt /\ Batches \in Nat
  BY Constants
<1>1. CASE Plan(g)
  <2>1. PICK at \in {"planned", "removing", "closing"} :
            work' = [work EXCEPT ![g] = [Idle EXCEPT !.at = at, !.plan = source.stamp,
                                                     !.old = receipt]]
    BY <1>1 DEF Plan
  <2> DEFINE w == [Idle EXCEPT !.at = at, !.plan = source.stamp, !.old = receipt]
  <2>2. w \in Work /\ w.at = at /\ w.done = 0
    BY <1>0, <1>z DEF Work, Idle
  <2> HIDE DEF w
  <2>3. work[g].at = "begun" /\ OthersKept
    BY <1>1 DEF Plan, OnlyWork, OthersKept
  <2>. QED BY <2>1, <2>2, <2>3, OnlyWorkMoves DEF Early, Building, w
<1>2. CASE Skip(g)
  <2> DEFINE w == [Idle EXCEPT !.at = "skipping"]
  <2>1. w \in Work /\ w.at = "skipping"
    BY <1>z DEF Work, Idle
  <2>2. work' = [work EXCEPT ![g] = w] /\ work[g].at = "planned" /\ OthersKept
    BY <1>2 DEF Skip, OnlyWork, OthersKept
  <2> HIDE DEF w
  <2>. QED BY <2>1, <2>2, OnlyWorkMoves DEF Early, Building
<1>3. CASE ReadRecords(g)
  <2>1. PICK at \in {"staged", "read"} :
            work' = [work EXCEPT ![g] = [work[g] EXCEPT !.at = at, !.old = NoReceipt]]
    BY <1>3 DEF ReadRecords
  <2> DEFINE w == [work[g] EXCEPT !.at = at, !.old = NoReceipt]
  <2>2. w \in Work /\ w.at = at /\ w.done = work[g].done
    BY <1>0, <1>z DEF Work
  <2>3. work' = [work EXCEPT ![g] = w]
    BY <2>1
  <2> HIDE DEF w
  <2>4. work[g].at = "planned" /\ OthersKept
    BY <1>3 DEF ReadRecords, OnlyWork, OthersKept
  <2>5. store[g].written = 0 /\ work[g].done = 0
    BY <2>4 DEF VecInv, Untouched, Early
  <2>. QED BY <2>2, <2>3, <2>4, <2>5, OnlyWorkMoves DEF Early, Building
<1>4. CASE CheckBatch(g)
  <2> DEFINE w == [work[g] EXCEPT !.at = "embedding"]
  <2>1. w \in Work /\ w.at = "embedding" /\ w.done = work[g].done
    BY <1>0 DEF Work
  <2>2. work' = [work EXCEPT ![g] = w]
    BY <1>4 DEF CheckBatch, Goes
  <2>3. w = [work[g] EXCEPT !.at = w.at]
    BY <2>1
  <2> HIDE DEF w
  <2>4. /\ work[g].at = "staging" /\ work[g].done < Batches /\ OthersKept
        /\ source.life = "live"
    BY <1>4 DEF CheckBatch, Checkpoint, Unchanged, OnlyWork, OthersKept
  <2>. QED BY <2>1, <2>2, <2>3, <2>4, OnlyWorkMoves DEF Early, Building
<1>5. CASE Refused(g) \/ Undone(g)
  <2>1. PICK why \in {"changed", "error", "stopped"} : Drops(g, why) /\ OthersKept
    BY <1>5 DEF Refused, Undone, OnlyWork, OthersKept
  <2> DEFINE w == [Idle EXCEPT !.at = "dropping", !.why = why]
  <2>2. w \in Work /\ w.at = "dropping"
    BY <1>z DEF Work, Idle
  <2>3. work' = [work EXCEPT ![g] = w]
    BY <2>1 DEF Drops
  <2> HIDE DEF w
  <2>4. work[g].at \notin {"idle", "dropping"}
    BY <1>5 DEF Refused, Undone
  <2>. QED BY <2>1, <2>2, <2>3, <2>4, OnlyWorkMoves DEF Early, Building
<1>6. CASE LeaveOut(g)
  <2> DEFINE w == [work[g] EXCEPT !.at = "closing"]
  <2>1. w \in Work /\ w.at = "closing"
    BY <1>0 DEF Work
  <2>2. work' = [work EXCEPT ![g] = w] /\ work[g].at = "begun" /\ OthersKept
    BY <1>6 DEF LeaveOut, Goes, OthersKept
  <2> HIDE DEF w
  <2>. QED BY <2>1, <2>2, OnlyWorkMoves DEF Early, Building
<1>. QED BY <1>1, <1>2, <1>3, <1>4, <1>5, <1>6

\* What is known of the points that an attempt writes.
LEMMA UpsertEffect ==
    ASSUME VecInv, NEW g \in Gens, Upsert(g)
    PROVE  /\ work[g].at = "embedding" /\ g \in writing
           /\ [written |-> store[g].written + 1, ready |-> FALSE, stamp |-> work[g].plan] \in Points
           /\ store[g].written < Batches /\ store[g].written <= work[g].done
           /\ work[g].done < Batches
           /\ receipt.gen # g /\ reader.gen # g
           /\ cleared => ~local
<1>1. work[g] \in Work /\ store[g] \in Points
  BY DEF VecInv, ShapeOK
<1>2. work[g].at = "embedding" /\ g \in writing
  BY DEF Upsert, Reserved
<1>3. store[g].written <= work[g].done /\ work[g].done < Batches
  BY <1>2 DEF VecInv, Counted
<1>4. store[g].written \in 0..Batches /\ work[g].done \in 0..Batches /\ Batches \in Nat
  BY <1>1, Constants DEF Points, Work
<1>5. store[g].written < Batches /\ store[g].written + 1 \in 0..Batches
  BY <1>3, <1>4
<1>6. work[g].plan \in Stamps
  BY <1>1 DEF Work
<1>7. receipt.gen # g /\ reader.gen # g
  BY <1>2 DEF VecInv, NotNamed, Building
<1>8. cleared => ~local
  BY <1>2 DEF VecInv, Removed
<1>. QED BY <1>2, <1>3, <1>5, <1>6, <1>7, <1>8 DEF Points

LEMMA StagingKeeps ==
    ASSUME VecInv, NEW g \in Gens, Reserve(g) \/ EndStaging(g) \/ WriteBatch(g)
    PROVE  VecInv'
<1>0. work[g] \in Work /\ store[g] \in Points /\ Batches \in Nat \ {0}
  BY Constants DEF VecInv, ShapeOK
<1>1. CASE Reserve(g)
  <2> DEFINE w == [work[g] EXCEPT !.at = "staging"]
  <2>1. w \in Work /\ w.at = "staging" /\ w.done = work[g].done /\ w.plan = work[g].plan
    BY <1>0 DEF Work
  <2>2. work' = [work EXCEPT ![g] = w]
    BY <1>1 DEF Reserve, Goes
  <2> HIDE DEF w
  <2>3. work[g].at = "read" /\ writing' = writing \cup {g}
        /\ UNCHANGED <<local, source, receipt, job, store, inval, looking, reader,
                       events, wiped, cleared>>
    BY <1>1 DEF Reserve
  <2>4. store[g].written = 0 /\ work[g].done = 0
    BY <2>3 DEF VecInv, Untouched, Early
  <2>5. receipt.gen # g /\ reader.gen # g
    BY <2>3 DEF VecInv, NotNamed, Building, Early
  <2>6. Moves(g, w, store[g])
    BY <2>2, <2>3 DEF Moves, VecInv, ShapeOK
  <2>7. ShapeOK'
    BY <1>0, <2>1, <2>3, <2>6, MovesTypes DEF VecInv, ShapeOK
  <2>8. Fits(g, w, store[g])
    BY <2>1, <2>3, <2>4 DEF Fits, VecInv, Counted, Early, Building
  <2>9. Safe(g, w, store[g])
    BY <2>1, <2>5 DEF Safe, VecInv, Removed
  <2>. QED BY <1>0, <2>1, <2>3, <2>6, <2>7, <2>8, <2>9, MovesKeeps
<1>2. CASE EndStaging(g)
  <2> DEFINE w == [work[g] EXCEPT !.at = "staged"]
  <2>1. w \in Work /\ w.at = "staged" /\ w.plan = work[g].plan
    BY <1>0 DEF Work
  <2>2. work' = [work EXCEPT ![g] = w]
    BY <1>2 DEF EndStaging, Goes
  <2> HIDE DEF w
  <2>3. work[g].at = "staging" /\ writing' = writing \ {g}
        /\ UNCHANGED <<local, source, receipt, job, store, inval, looking, reader,
                       events, wiped, cleared>>
    BY <1>2 DEF EndStaging
  <2>4. Moves(g, w, store[g])
    BY <2>2, <2>3 DEF Moves, VecInv, ShapeOK
  <2>5. ShapeOK'
    BY <1>0, <2>1, <2>3, <2>4, MovesTypes DEF VecInv, ShapeOK
  <2>6. Fits(g, w, store[g])
    BY <2>1, <2>3 DEF Fits, VecInv, Counted, OwnText, Early, Building
  <2>7. Safe(g, w, store[g])
    BY <2>1, <2>3 DEF Safe, VecInv, Removed
  <2>. QED BY <1>0, <2>1, <2>3, <2>4, <2>5, <2>6, <2>7, MovesKeeps
<1>3. CASE WriteBatch(g)
  <2> DEFINE w == [work[g] EXCEPT !.at = "staging", !.done = work[g].done + 1]
             q == [written |-> store[g].written + 1, ready |-> FALSE, stamp |-> work[g].plan]
  <2>0. Upsert(g)
    BY <1>3 DEF WriteBatch
  <2>1. /\ work[g].at = "embedding" /\ g \in writing /\ q \in Points
        /\ store[g].written < Batches /\ store[g].written <= work[g].done
        /\ work[g].done < Batches
        /\ receipt.gen # g /\ reader.gen # g
        /\ cleared => ~local
    BY <2>0, UpsertEffect
  <2>2. work[g].done + 1 \in 0..Batches
    BY <1>0, <2>1 DEF Work
  <2>3. w \in Work /\ w.at = "staging" /\ w.done = work[g].done + 1 /\ w.plan = work[g].plan
    BY <1>0, <2>2 DEF Work
  <2>4. q.written = store[g].written + 1 /\ ~q.ready /\ q.stamp = work[g].plan
    OBVIOUS
  <2>5. work' = [work EXCEPT ![g] = w] /\ store' = [store EXCEPT ![g] = q]
        /\ UNCHANGED <<local, source, receipt, job, writing, inval, looking, reader,
                       events, wiped, cleared>>
    BY <1>3 DEF WriteBatch, Upsert
  <2> HIDE DEF w, q
  <2>6. Moves(g, w, q)
    BY <2>5 DEF Moves
  <2>7. ShapeOK'
    BY <2>1, <2>3, <2>5, <2>6, MovesTypes DEF VecInv, ShapeOK
  <2>8. store[g].written \in Nat /\ work[g].done \in Nat
    BY <1>0 DEF Points, Work
  <2>9. Fits(g, w, q)
    BY <2>1, <2>3, <2>4, <2>8 DEF Fits, Early, Building
  <2>10. Safe(g, w, q)
    BY <2>1, <2>3, <2>4, <2>5 DEF Safe
  <2>. QED BY <2>1, <2>3, <2>6, <2>7, <2>9, <2>10, MovesKeeps
<1>. QED BY <1>1, <1>2, <1>3

LEMMA ActivateKeeps ==
    ASSUME VecInv, NEW g \in Gens, Activate(g)
    PROVE  VecInv'
<1>0. work[g] \in Work /\ store[g] \in Points
  BY DEF VecInv, ShapeOK
<1> DEFINE w == [work[g] EXCEPT !.at = "activated"]
           q == IF work[g].plan \in Blank THEN store[g] ELSE [store[g] EXCEPT !.ready = TRUE]
<1>1. w \in Work /\ w.at = "activated" /\ w.plan = work[g].plan
  BY <1>0 DEF Work
<1>2. /\ work' = [work EXCEPT ![g] = w] /\ store' = [store EXCEPT ![g] = q]
      /\ UNCHANGED <<local, source, receipt, job, writing, inval, looking, reader,
                     events, wiped, cleared>>
  BY DEF Activate, Goes, VecInv, ShapeOK
<1>3. /\ q \in Points /\ q.written = store[g].written /\ q.stamp = store[g].stamp
      /\ work[g].plan \in Blank => q = store[g]
      /\ work[g].plan \notin Blank => q.ready /\ q.written = Batches
  BY <1>0 DEF Points, Activate, CountMatches
<1>4. /\ work[g].at = "staged" /\ source.life = "live" /\ source.stamp = work[g].plan
      /\ ~looking.open
  BY DEF Activate, Checkpoint, Unchanged, CanCommit, Locked
<1>5. g \notin writing /\ receipt.gen # g /\ reader.gen # g
  BY <1>4 DEF VecInv, Reservations, NotNamed, Building
<1> HIDE DEF w, q
<1>6. Moves(g, w, q)
  BY <1>2 DEF Moves
<1>7. ShapeOK'
  BY <1>1, <1>2, <1>3, <1>6, MovesTypes DEF VecInv, ShapeOK
<1>8. Fits(g, w, q)
  BY <1>1, <1>2, <1>3, <1>4, <1>5 DEF Fits, VecInv, Counted, OwnText, Early, Building
<1>9. Safe(g, w, q)
  BY <1>1, <1>2, <1>3, <1>4, <1>5 DEF Safe, VecInv, Removed
<1>. QED BY <1>1, <1>3, <1>4, <1>6, <1>7, <1>8, <1>9, MovesKeeps

\* Steps by which an attempt leaves what it was doing.
LEMMA LeavingKeeps ==
    ASSUME VecInv, NEW g \in Gens, NEW w \in Work, NEW q \in Points, Moves(g, w, q),
           job' \in [Jobs -> Row], writing' \in SUBSET writing, events' \in Nat,
           UNCHANGED inval, work[g].at # "idle",
           w.at \in {"idle", "closing", "dropping", "failing"},
           g \in writing' => w.at = "dropping",
           \/ q = store[g]
           \/ q.written = 0 /\ ~q.ready /\ ~store[g].ready
           \/ /\ q.ready => q.written = Batches /\ source.life = "live"
              /\ receipt.gen # g /\ reader.gen # g
              /\ cleared => ~local
    PROVE  VecInv'
<1>1. ShapeOK'
  BY MovesTypes DEF VecInv, ShapeOK
<1>2. Batches \in Nat \ {0} /\ store[g] \in Points
  BY Constants DEF VecInv, ShapeOK
<1>3. Fits(g, w, q)
  BY <1>2 DEF Fits, Early, Building, VecInv, Counted
<1>4. Safe(g, w, q)
  BY DEF Safe, VecInv, Removed
<1>. QED BY <1>1, <1>3, <1>4, MovesKeeps

LEMMA BreakKeeps ==
    ASSUME VecInv, NEW g \in Gens, Break(g)
    PROVE  VecInv'
<1>0. work[g] \in Work /\ store[g] \in Points /\ Idle \in Work
  BY Constants DEF VecInv, ShapeOK
<1> DEFINE w == [Idle EXCEPT !.at = "dropping", !.why = "error"]
<1>1. w \in Work /\ w.at = "dropping"
  BY <1>0 DEF Work, Idle
<1>2. /\ work' = [work EXCEPT ![g] = w] /\ events' \in Nat
      /\ UNCHANGED <<local, source, receipt, job, writing, inval, looking, reader,
                     wiped, cleared>>
      /\ work[g].at # "idle"
  BY DEF Break, Drops, Event, VecInv, ShapeOK
<1> HIDE DEF w
<1>3. CASE UNCHANGED store
  <2>1. Moves(g, w, store[g])
    BY <1>2, <1>3 DEF Moves, VecInv, ShapeOK
  <2>. QED BY <1>0, <1>1, <1>2, <2>1, LeavingKeeps DEF VecInv, ShapeOK
<1>4. CASE Upsert(g)
  <2> DEFINE q == [written |-> store[g].written + 1, ready |-> FALSE, stamp |-> work[g].plan]
  <2>1. q \in Points /\ receipt.gen # g /\ reader.gen # g /\ (cleared => ~local)
    BY <1>4, UpsertEffect
  <2>2. ~q.ready /\ store' = [store EXCEPT ![g] = q]
    BY <1>4 DEF Upsert
  <2> HIDE DEF q
  <2>3. Moves(g, w, q)
    BY <1>2, <2>2 DEF Moves
  <2>. QED BY <1>1, <1>2, <2>1, <2>2, <2>3, LeavingKeeps DEF VecInv, ShapeOK
<1>5. CASE /\ work[g].at = "staged" /\ Checkpoint(g) /\ CountMatches(g)
           /\ store' = [store EXCEPT ![g].ready = TRUE]
  <2> DEFINE q == [store[g] EXCEPT !.ready = TRUE]
  <2>1. q \in Points /\ q.written = Batches /\ store' = [store EXCEPT ![g] = q]
    BY <1>0, <1>5 DEF Points, CountMatches
  <2> HIDE DEF q
  <2>2. receipt.gen # g /\ reader.gen # g
    BY <1>5 DEF VecInv, NotNamed, Building
  <2>3. source.life = "live" /\ ~cleared
    BY <1>5 DEF Checkpoint, Unchanged, VecInv, Removed
  <2>4. Moves(g, w, q)
    BY <1>2, <2>1 DEF Moves
  <2>. QED BY <1>1, <1>2, <2>1, <2>2, <2>3, <2>4, LeavingKeeps DEF VecInv, ShapeOK
<1>. QED BY <1>3, <1>4, <1>5 DEF Break

LEMMA DropStagedKeeps ==
    ASSUME VecInv, NEW g \in Gens, DropStaged(g)
    PROVE  VecInv'
<1>0. work[g] \in Work /\ store[g] \in Points /\ NoPoints \in Points
  BY Constants DEF VecInv, ShapeOK
<1> DEFINE w == [work[g] EXCEPT !.at = "failing"]
<1>1. w \in Work /\ w.at = "failing"
  BY <1>0 DEF Work
<1>2. /\ work' = [work EXCEPT ![g] = w] /\ events' \in Nat /\ writing' = writing \ {g}
      /\ UNCHANGED <<local, source, receipt, job, inval, looking, reader, wiped, cleared>>
      /\ work[g].at = "dropping"
  BY DEF DropStaged, Goes, Event, VecInv, ShapeOK
<1>3. PICK q \in {store[g], NoPoints} : /\ store' = [store EXCEPT ![g] = q]
                                        /\ q = store[g] \/ ~store[g].ready
  BY DEF DropStaged, VecInv, ShapeOK
<1> HIDE DEF w
<1>4. Moves(g, w, q)
  BY <1>2, <1>3 DEF Moves
<1>5. q \in Points /\ (q = store[g] \/ (q.written = 0 /\ ~q.ready /\ ~store[g].ready))
  <2>1. CASE q = store[g]
    BY <1>0, <2>1
  <2>2. CASE q = NoPoints /\ ~store[g].ready
    BY <1>0, <2>2 DEF NoPoints
  <2>. QED BY <1>3, <2>1, <2>2
<1>. QED BY <1>1, <1>2, <1>4, <1>5, LeavingKeeps DEF VecInv, ShapeOK

LEMMA EndedType ==
    ASSUME VecInv, NEW j \in Jobs, NEW state \in {"QUEUED", "SUCCEEDED", "FAILED", "CANCELLED"}
    PROVE  /\ Ended(j, state) \in Row
           /\ Ended(j, state).attempt = job[j].attempt
           /\ Ended(j, state).state = state
<1>1. job[j] \in Row
  BY DEF VecInv, ShapeOK
<1>. QED BY <1>1 DEF Ended, Row

LEMMA FinishKeeps ==
    ASSUME VecInv, NEW g \in Gens, PruneLater(g) \/ Close(g) \/ Fail(g)
    PROVE  VecInv'
<1>0. work[g] \in Work /\ store[g] \in Points /\ Idle \in Work /\ Idle.at = "idle" /\ g[1] \in Jobs
  BY Constants DEF VecInv, ShapeOK, Idle, Gens
<1>1. CASE PruneLater(g)
  <2> DEFINE w == [work[g] EXCEPT !.at = "closing"]
  <2>1. w \in Work /\ w.at = "closing"
    BY <1>0 DEF Work
  <2>2. /\ work' = [work EXCEPT ![g] = w] /\ events' \in Nat /\ work[g].at = "pruning"
        /\ UNCHANGED <<local, source, receipt, job, store, writing, inval, looking,
                       reader, wiped, cleared>>
    BY <1>1 DEF PruneLater, Goes, Event, VecInv, ShapeOK
  <2> HIDE DEF w
  <2>3. Moves(g, w, store[g])
    BY <2>2 DEF Moves, VecInv, ShapeOK
  <2>4. g \notin writing
    BY <2>2 DEF VecInv, Reservations
  <2>. QED BY <1>0, <2>1, <2>2, <2>3, <2>4, LeavingKeeps DEF VecInv, ShapeOK
<1>2. CASE Close(g) \/ Fail(g)
  <2>1. /\ work' = [work EXCEPT ![g] = Idle] /\ work[g].at \in {"closing", "failing"}
        /\ UNCHANGED <<local, source, receipt, store, writing, inval, looking, reader,
                       events, wiped, cleared>>
    BY <1>2 DEF Close, Fail
  <2>2. \/ UNCHANGED job
        \/ \E state \in {"QUEUED", "SUCCEEDED", "FAILED", "CANCELLED"}, error \in BOOLEAN :
               job' = [job EXCEPT ![g[1]] = [Ended(g[1], state) EXCEPT !.broken = error]]
        \/ \E state \in {"QUEUED", "SUCCEEDED", "FAILED", "CANCELLED"} :
               job' = [job EXCEPT ![g[1]] = Ended(g[1], state)]
    BY <1>2 DEF Close, Fail
  <2>3. \/ UNCHANGED job
        \/ \E row \in Row : /\ job' = [job EXCEPT ![g[1]] = row]
                            /\ row.attempt = job[g[1]].attempt /\ row.state # "ABSENT"
    <3>1. ASSUME NEW state \in {"QUEUED", "SUCCEEDED", "FAILED", "CANCELLED"}, NEW error \in BOOLEAN,
                 job' = [job EXCEPT ![g[1]] = [Ended(g[1], state) EXCEPT !.broken = error]]
          PROVE  \E row \in Row : /\ job' = [job EXCEPT ![g[1]] = row]
                                  /\ row.attempt = job[g[1]].attempt /\ row.state # "ABSENT"
      <4>1. Ended(g[1], state) \in Row /\ Ended(g[1], state).attempt = job[g[1]].attempt
            /\ Ended(g[1], state).state = state
        BY <1>0, EndedType
      <4>2. [Ended(g[1], state) EXCEPT !.broken = error] \in Row
            /\ [Ended(g[1], state) EXCEPT !.broken = error].attempt = job[g[1]].attempt
            /\ [Ended(g[1], state) EXCEPT !.broken = error].state = state
        BY <4>1 DEF Row
      <4>. QED BY <3>1, <4>2
    <3>2. ASSUME NEW state \in {"QUEUED", "SUCCEEDED", "FAILED", "CANCELLED"},
                 job' = [job EXCEPT ![g[1]] = Ended(g[1], state)]
          PROVE  \E row \in Row : /\ job' = [job EXCEPT ![g[1]] = row]
                                  /\ row.attempt = job[g[1]].attempt /\ row.state # "ABSENT"
      BY <1>0, <3>2, EndedType
    <3>. QED BY <2>2, <3>1, <3>2
  <2>4. /\ job' \in [Jobs -> Row]
        /\ \A j \in Jobs : job'[j].attempt = job[j].attempt
        /\ \A j \in Jobs : job'[j].state = "ABSENT" => job[j].state = "ABSENT"
    BY <1>0, <2>3 DEF VecInv, ShapeOK
  <2>5. Moves(g, Idle, store[g])
    BY <2>1, <2>4 DEF Moves, VecInv, ShapeOK
  <2>6. g \notin writing
    BY <2>1 DEF VecInv, Reservations
  <2>. QED BY <1>0, <2>1, <2>4, <2>5, <2>6, LeavingKeeps DEF VecInv, ShapeOK
<1>. QED BY <1>1, <1>2

-------------------------------------------------------------------------------
(* The remaining steps, which change what is named or who works.           *)

\* The receipt names the generation, which is ready unless it was wiped.
LEMMA CommitReceiptKeeps ==
    ASSUME VecInv, NEW g \in Gens, CommitReceipt(g)
    PROVE  VecInv'
<1>0. /\ work[g] \in Work /\ store[g] \in Points /\ Idle \in Work /\ g[1] \in Jobs
      /\ \A h \in Gens : h[1] \in Jobs
  BY Constants DEF VecInv, ShapeOK, Gens
<1> DEFINE w == [Idle EXCEPT !.at = "pruning"]
<1>1. w \in Work /\ w.at = "pruning"
  BY <1>0 DEF Work, Idle
<1>2. /\ work' = [work EXCEPT ![g] = w] /\ work[g].at = "activated"
      /\ UNCHANGED <<local, source, job, store, writing, inval, looking, reader,
                     events, wiped, cleared>>
  BY DEF CommitReceipt
<1>3. PICK state \in {"READY", "EMPTY"} :
         /\ receipt' = [state |-> state, gen |-> g, stamp |-> work[g].plan]
         /\ state = "READY" <=> work[g].plan \notin Blank
  BY DEF CommitReceipt
<1> HIDE DEF w
<1>4. receipt' \in Receipt
  BY <1>0, <1>3 DEF Receipt, Work
<1>5. ShapeOK'
  BY <1>1, <1>2, <1>4 DEF VecInv, ShapeOK
<1>6. \A h \in Gens : NotYet(h)' <=> NotYet(h)
  BY <1>0, <1>2 DEF NotYet
<1>7. ~NotYet(g)
  BY <1>2 DEF VecInv, Untouched, Idle
<1>8. /\ work'[g] = w /\ \A h \in Gens : h # g => work'[h] = work[h]
  BY <1>2 DEF VecInv, ShapeOK
<1>9. Untouched' /\ Counted' /\ OwnText' /\ RowsKept'
  BY <1>0, <1>1, <1>2, <1>6, <1>7, <1>8
  DEF VecInv, Untouched, Counted, OwnText, RowsKept, Early
<1>10. NotNamed'
  BY <1>1, <1>2, <1>3, <1>6, <1>7, <1>8 DEF VecInv, NotNamed, Building, Early
<1>11. ReceiptText' /\ ReaderText'
  BY <1>2, <1>3 DEF VecInv, ReceiptText, ReaderText, OwnText
<1>12. Reservations' /\ ActivatedReady'
  BY <1>1, <1>2, <1>8 DEF VecInv, Reservations, ActivatedReady, Complete
<1>13. WinnerSurvives'
  BY <1>2, <1>3 DEF VecInv, ActivatedReady, WinnerSurvives, Complete
<1>14. Removed'
  BY <1>1, <1>2, <1>8 DEF VecInv, Removed
<1>. QED BY <1>5, <1>9, <1>10, <1>11, <1>12, <1>13, <1>14 DEF VecInv

\* Nobody is activated, so only losers go.
LEMMA PruneKeeps ==
    ASSUME VecInv, NEW g \in Gens, Prune(g)
    PROVE  VecInv'
<1>0. /\ work[g] \in Work /\ NoPoints \in Points /\ \A h \in Gens : h[1] \in Jobs
  BY Constants DEF VecInv, ShapeOK, Gens
<1> DEFINE w == [work[g] EXCEPT !.at = "closing"]
<1>1. w \in Work /\ w.at = "closing"
  BY <1>0 DEF Work
<1>2. /\ work' = [work EXCEPT ![g] = w] /\ work[g].at \in {"pruning", "skipping"}
      /\ UNCHANGED <<local, source, receipt, job, writing, inval, looking, reader,
                     events, wiped, cleared>>
      /\ ~Activating
  BY DEF Prune, Goes, CanCommit, Locked
<1> HIDE DEF w
<1>3. \A h \in Gens : store'[h] = store[h] \/ (/\ store'[h] = NoPoints
                                               /\ receipt.state = "READY" => h # receipt.gen)
  BY DEF Prune, Kept, VecInv, ShapeOK
<1>4. store' \in [Gens -> Points]
  BY <1>0 DEF Prune, VecInv, ShapeOK
<1>5. ShapeOK'
  BY <1>1, <1>2, <1>4 DEF VecInv, ShapeOK
<1>6. \A h \in Gens : NotYet(h)' <=> NotYet(h)
  BY <1>0, <1>2 DEF NotYet
<1>7. ~NotYet(g)
  BY <1>2 DEF VecInv, Untouched, Idle
<1>8. /\ work'[g] = w /\ \A h \in Gens : h # g => work'[h] = work[h]
  BY <1>2 DEF VecInv, ShapeOK
<1>9. Untouched'
  BY <1>1, <1>2, <1>3, <1>6, <1>7, <1>8 DEF VecInv, Untouched, Early, NoPoints
<1>10. Counted'
  <2>1. \A h \in Gens : work[h] \in Work
    BY DEF VecInv, ShapeOK
  <2>. QED BY <1>1, <1>2, <1>3, <1>8, <2>1 DEF VecInv, Counted, NoPoints, Work
<1>11. OwnText' /\ ReceiptText' /\ ReaderText'
  BY <1>1, <1>2, <1>3, <1>8 DEF VecInv, OwnText, ReceiptText, ReaderText, NoPoints
<1>12. NotNamed'
  BY <1>1, <1>2, <1>6, <1>7, <1>8 DEF VecInv, NotNamed, Building, Early
<1>13. Reservations' /\ RowsKept'
  BY <1>1, <1>2, <1>8 DEF VecInv, Reservations, RowsKept
<1>14. ActivatedReady'
  BY <1>1, <1>2, <1>8 DEF Activating, ActivatedReady
<1>15. WinnerSurvives'
  <2>1. receipt.state = "READY" => receipt.gen \in Gens
    BY DEF VecInv, ReceiptText
  <2>. QED BY <1>2, <1>3, <2>1 DEF VecInv, WinnerSurvives, Complete
<1>16. Removed'
  BY <1>1, <1>2, <1>3, <1>8 DEF VecInv, Removed, NoPoints
<1>. QED BY <1>5, <1>9, <1>10, <1>11, <1>12, <1>13, <1>14, <1>15, <1>16 DEF VecInv

LEMMA ClaimKeeps ==
    ASSUME VecInv, NEW j \in Jobs, Claim(j)
    PROVE  VecInv'
<1>0. /\ job[j] \in Row /\ MaxAttempts \in Nat /\ Idle \in Work
      /\ \A h \in Gens : h[1] \in Jobs /\ h[2] \in Nat /\ work[h] \in Work /\ store[h] \in Points
  BY Constants DEF VecInv, ShapeOK, Gens
<1>1. CASE job[j].attempt < MaxAttempts
  <2> DEFINE w == [Idle EXCEPT !.at = "begun"]
  <2>1. job[j].attempt \in 0..MaxAttempts
    BY <1>0 DEF Row
  <2>a. PICK a \in 1..MaxAttempts : a = job[j].attempt + 1
    BY <1>0, <1>1, <2>1
  <2>2. a \in 0..MaxAttempts /\ <<j, a>> \in Gens
    BY <1>0 DEF Gens
  <2>3. NotYet(<<j, a>>)
    BY <2>1, <2>a DEF NotYet
  <2>4. work[<<j, a>>] = Idle
    BY <2>2, <2>3 DEF VecInv, Untouched
  <2>5. w \in Work /\ w.at = "begun" /\ w.done = 0
    BY <1>0 DEF Work, Idle
  <2>6. work' = [work EXCEPT ![<<j, a>>] = w]
    BY <1>1, <2>2, <2>4, <2>a DEF Claim, VecInv, ShapeOK
  <2>7. /\ job' = [job EXCEPT ![j] = Started(j)]
        /\ UNCHANGED <<local, source, receipt, store, writing, inval, looking, reader,
                       events, wiped, cleared>>
    BY <1>1 DEF Claim
  <2>8. Started(j) \in Row /\ Started(j).attempt = a /\ Started(j).state = "RUNNING"
    <3>1. Started(j) = [job[j] EXCEPT !.state = "RUNNING", !.held = TRUE, !.attempt = a]
      BY <2>a DEF Started
    <3>. QED BY <1>0, <2>2, <3>1 DEF Row
  <2> HIDE DEF w
  <2>9. ShapeOK'
    BY <2>5, <2>6, <2>7, <2>8 DEF VecInv, ShapeOK
  <2>10. \A h \in Gens : h # <<j, a>> => (NotYet(h)' <=> NotYet(h)) /\ work'[h] = work[h]
    <3>1. ASSUME NEW h \in Gens, h # <<j, a>>
          PROVE  (NotYet(h)' <=> NotYet(h)) /\ work'[h] = work[h]
      <4>1. work'[h] = work[h]
        BY <2>6, <3>1 DEF VecInv, ShapeOK
      <4>2. h = <<h[1], h[2]>> /\ h[2] \in Nat
        BY DEF Gens
      <4>3. h[1] = j => h[2] # a
        BY <3>1, <4>2
      <4>4. job' = [job EXCEPT ![j] = Started(j)] /\ job \in [Jobs -> Row] /\ h[1] \in Jobs
        BY <1>0, <2>7 DEF VecInv, ShapeOK
      <4>5. NotYet(h)' <=> NotYet(h)
        BY <2>1, <2>8, <2>a, <4>2, <4>3, <4>4 DEF NotYet
      <4>. QED BY <4>1, <4>5
    <3>. QED BY <3>1
  <2>11. ~NotYet(<<j, a>>)' /\ work'[<<j, a>>] = w
    BY <2>2, <2>6, <2>7, <2>8 DEF NotYet, VecInv, ShapeOK
  <2>12. store[<<j, a>>].written = 0 /\ receipt.gen # <<j, a>> /\ reader.gen # <<j, a>>
         /\ <<j, a>> \notin writing
    BY <2>2, <2>3, <2>4 DEF VecInv, Untouched, NotNamed, Reservations, Idle
  <2>13. \A k \in Jobs : job'[k].state = "ABSENT" => job[k].state = "ABSENT" /\ job'[k] = job[k]
    BY <2>7, <2>8 DEF VecInv, ShapeOK
  <2>14. Untouched'
    BY <2>5, <2>7, <2>10, <2>11, <2>12, <2>13 DEF VecInv, Untouched
  <2>15. Counted' /\ OwnText'
    BY <2>5, <2>7, <2>10, <2>11 DEF VecInv, Counted, OwnText
  <2>16. NotNamed'
    BY <2>7, <2>10, <2>12 DEF VecInv, NotNamed
  <2>17. ReceiptText' /\ ReaderText' /\ WinnerSurvives'
    BY <2>7 DEF VecInv, ReceiptText, ReaderText, WinnerSurvives, Complete
  <2>18. Reservations' /\ RowsKept' /\ ActivatedReady'
    BY <2>5, <2>7, <2>10, <2>11, <2>12
    DEF VecInv, Reservations, RowsKept, ActivatedReady, Complete
  <2>19. Removed'
    BY <2>5, <2>7, <2>10, <2>11 DEF VecInv, Removed
  <2>. QED BY <2>9, <2>14, <2>15, <2>16, <2>17, <2>18, <2>19 DEF VecInv
<1>2. CASE ~(job[j].attempt < MaxAttempts)
  <2>1. job' = [job EXCEPT ![j] = [job[j] EXCEPT !.state = "FAILED", !.broken = TRUE]]
        /\ UNCHANGED <<local, source, receipt, store, writing, work, inval, looking, reader,
                       events, wiped, cleared>>
    BY <1>2 DEF Claim
  <2>2. /\ [job[j] EXCEPT !.state = "FAILED", !.broken = TRUE] \in Row
        /\ [job[j] EXCEPT !.state = "FAILED", !.broken = TRUE].attempt = job[j].attempt
        /\ [job[j] EXCEPT !.state = "FAILED", !.broken = TRUE].state = "FAILED"
    BY <1>0 DEF Row
  <2>3. ShapeOK'
    BY <2>1, <2>2 DEF VecInv, ShapeOK
  <2>4. Outside
    BY <2>1, <2>2 DEF Outside, VecInv, ShapeOK
  <2>. QED BY <2>3, <2>4, OutsideKeeps
<1>. QED BY <1>1, <1>2

\* Threads that die leave their points behind, never their reservations.
LEMMA CrashKeeps ==
    ASSUME VecInv, NEW g \in Gens, Crash(g)
    PROVE  VecInv'
<1>0. Idle \in Work /\ Idle.at = "idle" /\ \A h \in Gens : h[1] \in Jobs
  BY Constants DEF Idle, Gens
<1>1. \A h \in Gens : /\ work'[h] = Idle \/ work'[h] = work[h]
                      /\ h \in writing' => h \in writing /\ work'[h] = work[h]
  BY DEF Crash
<1>2. /\ UNCHANGED <<local, source, receipt, job, store, inval, looking, reader, wiped, cleared>>
      /\ events' \in Nat /\ work' \in [Gens -> Work] /\ writing' \in SUBSET Gens
  BY <1>0 DEF Crash, Event, VecInv, ShapeOK
<1>3. ShapeOK'
  BY <1>2 DEF VecInv, ShapeOK
<1>4. \A h \in Gens : NotYet(h)' <=> NotYet(h)
  BY <1>0, <1>2 DEF NotYet
<1>5. Untouched' /\ Counted' /\ OwnText'
  BY <1>0, <1>1, <1>2, <1>4 DEF VecInv, Untouched, Counted, OwnText, Early
<1>6. NotNamed'
  BY <1>0, <1>1, <1>2, <1>4 DEF VecInv, NotNamed, Building, Early
<1>7. ReceiptText' /\ ReaderText'
  BY <1>2 DEF VecInv, ReceiptText, ReaderText
<1>8. Reservations' /\ RowsKept' /\ ActivatedReady'
  BY <1>0, <1>1, <1>2 DEF VecInv, Reservations, RowsKept, ActivatedReady, Complete
<1>9. WinnerSurvives'
  <2>1. receipt.state = "READY" => receipt.gen \in Gens
    BY DEF VecInv, ReceiptText
  <2>. QED BY <1>1, <1>2, <2>1 DEF VecInv, WinnerSurvives, Complete
<1>10. Removed'
  BY <1>0, <1>1, <1>2 DEF VecInv, Removed
<1>. QED BY <1>3, <1>5, <1>6, <1>7, <1>8, <1>9, <1>10 DEF VecInv

\* A search remembers the generation, the stamp and the text it has seen.
LEMMA SearchKeeps ==
    ASSUME VecInv, Search
    PROVE  VecInv'
<1>1. OnlyReader
  BY DEF Search, BeginSearch, SearchStore, Serve, Withhold
<1>2. /\ \A g \in Gens : NotYet(g)' <=> NotYet(g)
      /\ NoSearch \in Reader /\ NoSearch.at = "idle" /\ NoSearch.gen = NoGen
      /\ 0 \in Stamps
  BY <1>1, Constants DEF OnlyReader, NotYet, NoSearch
<1>3. /\ Untouched' /\ Counted' /\ OwnText' /\ ReceiptText' /\ Reservations'
      /\ RowsKept' /\ ActivatedReady' /\ WinnerSurvives' /\ Removed'
  BY <1>1, <1>2
  DEF OnlyReader, VecInv, Untouched, Counted, OwnText, ReceiptText, Reservations,
      RowsKept, ActivatedReady, WinnerSurvives, Complete, Removed
<1>4. \A g \in Gens : NoGen # g
  BY NotAGeneration
<1>5. CASE BeginSearch
  <2>1. /\ reader' = [at |-> "searching", gen |-> receipt.gen, stamp |-> source.stamp, text |-> 0]
        /\ receipt.state = "READY" /\ receipt.stamp = source.stamp
    BY <1>5 DEF BeginSearch, Covered
  <2>2. receipt.gen \in Gens /\ source.stamp \in Stamps
    BY <2>1 DEF VecInv, ReceiptText, ShapeOK, Source
  <2>3. reader' \in Reader
    BY <1>2, <2>1, <2>2 DEF Reader
  <2>4. ShapeOK'
    BY <1>1, <2>3 DEF OnlyReader, VecInv, ShapeOK
  <2>5. NotNamed' /\ ReaderText'
    BY <1>1, <1>2, <2>1, <2>2 DEF OnlyReader, VecInv, NotNamed, ReceiptText, ReaderText
  <2>. QED BY <1>3, <2>4, <2>5 DEF VecInv
<1>6. CASE reader' = NoSearch
  <2>1. ShapeOK'
    BY <1>1, <1>2, <1>6 DEF OnlyReader, VecInv, ShapeOK
  <2>2. NotNamed' /\ ReaderText'
    BY <1>1, <1>2, <1>4, <1>6 DEF OnlyReader, VecInv, NotNamed, ReaderText
  <2>. QED BY <1>3, <2>1, <2>2 DEF VecInv
<1>7. CASE /\ reader.at = "searching" /\ store[reader.gen].ready
           /\ reader' = [reader EXCEPT !.at = "found", !.text = store[reader.gen].stamp]
  <2>1. reader \in Reader /\ reader.gen \in Gens
    BY <1>7 DEF VecInv, ShapeOK, ReaderText
  <2>2. store[reader.gen] \in Points
    BY <2>1 DEF VecInv, ShapeOK
  <2>3. reader' \in Reader /\ reader'.gen = reader.gen /\ reader'.stamp = reader.stamp
        /\ reader'.text = store[reader.gen].stamp
    BY <1>7, <2>1, <2>2 DEF Reader, Points
  <2>4. store[reader.gen].written > 0
    BY <1>7, <2>1, Constants DEF VecInv, Counted
  <2>5. ShapeOK'
    BY <1>1, <2>3 DEF OnlyReader, VecInv, ShapeOK
  <2>6. NotNamed' /\ ReaderText'
    BY <1>1, <1>2, <1>7, <2>1, <2>3, <2>4 DEF OnlyReader, VecInv, NotNamed, ReaderText
  <2>. QED BY <1>3, <2>5, <2>6 DEF VecInv
<1>. QED BY <1>5, <1>6, <1>7 DEF Search, SearchStore, Serve, Withhold

-------------------------------------------------------------------------------
(* The theorems.                                                           *)

LEMMA InitVecInv == Init => VecInv
<1> SUFFICES ASSUME Init PROVE VecInv
  OBVIOUS
<1>1. \A j \in Jobs : job[j] \in Row /\ job[j].attempt = 0
  BY Constants DEF Init, NoRow, Row
<1>2. ShapeOK
  BY <1>1, Constants DEF Init, ShapeOK, Source, Course
<1>3. \A g \in Gens : /\ work[g] = Idle /\ store[g].written = 0 /\ ~store[g].ready
                      /\ receipt.gen # g /\ reader.gen # g
  <2>1. \A g \in Gens : NoGen # g
    BY NotAGeneration
  <2>2. receipt.gen = NoGen /\ reader.gen = NoGen
    BY DEF Init, NoReceipt, NoSearch
  <2>3. \A g \in Gens : work[g] = Idle /\ store[g].written = 0 /\ ~store[g].ready
    BY DEF Init, NoPoints
  <2>. QED BY <2>1, <2>2, <2>3
<1>4. receipt.state = "NONE" /\ receipt.gen = NoGen /\ reader.at = "idle" /\ ~looking.open
  BY DEF Init, NoReceipt, NoSearch
<1>5. NoGen \notin Gens /\ Batches \in Nat
  BY Constants, NotAGeneration
<1>. QED BY <1>1, <1>2, <1>3, <1>4, <1>5
         DEF Init, VecInv, Untouched, Counted, OwnText, NotNamed, ReceiptText, ReaderText,
             Reservations, RowsKept, ActivatedReady, WinnerSurvives, Removed, Idle, Early, Building

LEMMA NextKeeps == VecInv /\ [Next]_vars => VecInv'
<1> SUFFICES ASSUME VecInv, [Next]_vars PROVE VecInv'
  OBVIOUS
<1>1. CASE UNCHANGED vars
  <2>1. ShapeOK' /\ Outside
    BY <1>1 DEF vars, Outside, VecInv, ShapeOK, RowsKept
  <2>. QED BY <2>1, OutsideKeeps
<1>2. CASE Request
  BY <1>2, RequestKeeps, DeletionKeeps
<1>3. CASE Search
  BY <1>3, SearchKeeps
<1>4. ASSUME NEW i \in Invals, InvalStep(i) \/ StallInvalidate(i)
      PROVE  VecInv'
  BY <1>4, InvalidateKeeps, DeletionKeeps DEF InvalStep
<1>5. ASSUME NEW j \in Jobs, Claim(j) \/ LeaseEnds(j) \/ LeaseLost(j)
      PROVE  VecInv'
  BY <1>5, ClaimKeeps, LeaseKeeps
<1>6. ASSUME NEW g \in Gens, Build(g) \/ Break(g) \/ PruneLater(g) \/ Crash(g)
      PROVE  VecInv'
  BY <1>6, DeletionKeeps, QuietStepKeeps, StagingKeeps, ActivateKeeps, CommitReceiptKeeps,
     PruneKeeps, FinishKeeps, DropStagedKeeps, BreakKeeps, CrashKeeps DEF Build
<1>. QED BY <1>1, <1>2, <1>3, <1>4, <1>5, <1>6 DEF Next

\* The inductive invariant that ties receipt, generations, attempts, searches
\* and deletions together.
THEOREM ProjectionInvariant == Spec => []VecInv
BY InitVecInv, NextKeeps, PTL DEF Spec

\* Only requests and the work of others put obstacles in the way.
Obstacles == obstacle \in Obstacle /\ passed \in BOOLEAN

LEMMA ObstaclesKeep ==
    ASSUME Obstacles, [Next]_vars
    PROVE  Obstacles'
<1>1. CASE UNCHANGED <<obstacle, passed>> \/ (UNCHANGED obstacle /\ passed' = FALSE)
  BY <1>1 DEF Obstacles
<1>2. CASE UNCHANGED obstacle /\ PassedOver
  BY <1>2 DEF Obstacles, PassedOver
<1>3. CASE /\ \/ \E at \in {"open", "over"} : obstacle' = [obstacle EXCEPT !.work = at]
              \/ \E at \in {"usable", "barred"} : obstacle' = [obstacle EXCEPT !.rest = at]
           /\ UNCHANGED passed \/ passed' = FALSE \/ PassedOver
  <2>1. obstacle' \in Obstacle
    BY <1>3 DEF Obstacles, Obstacle
  <2>2. passed' \in BOOLEAN
    BY <1>3 DEF Obstacles, PassedOver
  <2>. QED BY <2>1, <2>2 DEF Obstacles
<1>4. CASE UNCHANGED vars
  BY <1>1, <1>4 DEF vars
<1>5. CASE Request
  <2>1. CASE BeginWork \/ EndWork \/ Bar \/ Unbar \/ RestChanges
    BY <1>3, <2>1 DEF BeginWork, EndWork, Commits, Bar, Unbar, RestChanges
  <2>2. CASE ~(BeginWork \/ EndWork \/ Bar \/ Unbar \/ RestChanges)
    BY <1>1, <1>5, <2>2
    DEF Request, LookAtQueue, Edit, Suspend, Resume, Discard, Commits, Trash, Restore,
        Cascade, Unqueued, RequestIndex, Purge, CancelJob
  <2>. QED BY <2>1, <2>2
<1>6. CASE Search
  BY <1>1, <1>6 DEF Search, BeginSearch, SearchStore, Serve, Withhold, OnlyReader
<1>7. ASSUME NEW i \in Invals, InvalStep(i) \/ StallInvalidate(i) PROVE Obstacles'
  BY <1>1, <1>2, <1>7 DEF InvalStep, ReadInvalidate, DeleteInvalidated, FollowUp, StallInvalidate
<1>8. ASSUME NEW j \in Jobs, Claim(j) \/ LeaseEnds(j) \/ LeaseLost(j) PROVE Obstacles'
  BY <1>1, <1>8 DEF Claim, LeaseEnds, LeaseLost
<1>9. ASSUME NEW g \in Gens, Build(g) PROVE Obstacles'
  <2>1. CASE LeaveOut(g) \/ Refused(g)
    BY <1>1, <1>2, <2>1 DEF LeaveOut, Refused
  <2>2. CASE ~LeaveOut(g) /\ ~Refused(g)
    BY <1>1, <1>9, <2>2
    DEF Build, Plan, Remove, Skip, ReadRecords, Reserve, CheckBatch, WriteBatch, EndStaging,
        Activate, CommitReceipt, Prune, Close, Undone, DropStaged, Fail, OnlyWork
  <2>. QED BY <2>1, <2>2
<1>10. ASSUME NEW g \in Gens, Break(g) \/ PruneLater(g) \/ Crash(g) PROVE Obstacles'
  BY <1>1, <1>10 DEF Break, PruneLater, Crash
<1>. QED BY <1>4, <1>5, <1>6, <1>7, <1>8, <1>9, <1>10 DEF Next

\* Every row, generation and thread of the projection is well formed.
THEOREM ProjectionTypes == Spec => []TypeOK
<1>1. VecInv => ShapeOK
  BY DEF VecInv
<1>2. Init => Obstacles
  <2>1. Init => obstacle = [work |-> "never", rest |-> "usable"]
    BY DEF Init
  <2>2. Init => obstacle \in Obstacle
    BY <2>1 DEF Obstacle
  <2>3. Init => passed \in BOOLEAN
    BY DEF Init
  <2>. QED BY <2>2, <2>3 DEF Obstacles
<1>3. Obstacles /\ [Next]_vars => Obstacles'
  BY ObstaclesKeep
<1>4. Spec => []Obstacles
  BY <1>2, <1>3, PTL DEF Spec
<1>5. ShapeOK /\ Obstacles => TypeOK
  BY DEF TypeOK, Obstacles
<1>. QED BY <1>1, <1>4, <1>5, ProjectionInvariant, PTL

\* Whatever attempts race, stall or die, the generation that the committed
\* receipt names stays complete, unless the whole version was deleted.
THEOREM WinnersSurvive == Spec => []WinnerSurvives
<1>1. VecInv => WinnerSurvives
  BY DEF VecInv
<1>. QED BY <1>1, ProjectionInvariant, PTL

\* No late writer brings back what was removed.
THEOREM RemovalIsFinal == Spec => []RemovedStaysGone
<1>1. VecInv => RemovedStaysGone
  BY DEF VecInv, Removed, RemovedStaysGone
<1>. QED BY <1>1, ProjectionInvariant, PTL

\* A receipt is committed only for the version as it is at that moment: its rows
\* have been locked since they were compared.
THEOREM ReceiptsAreCurrent == Spec => CommittedIsCurrent
<1> DEFINE Right == /\ source.life = "live" /\ source.own <= receipt'.stamp
                    /\ local => receipt'.stamp = source.stamp
<1>1. VecInv /\ [Next]_vars => (receipt' # receipt => Right)
  <2> SUFFICES ASSUME VecInv, Next, receipt' # receipt
               PROVE  Right
    BY DEF vars
  <2>1. PICK g \in Gens : CommitReceipt(g)
    <3>1. ~Request
      BY DEF Request, LookAtQueue, Edit, Suspend, Resume, Discard, Commits, Trash, Restore,
             Cascade, Unqueued, RequestIndex, Purge, CancelJob, BeginWork, EndWork, Bar,
             Unbar, RestChanges
    <3>2. ~Search /\ \A i \in Invals : ~InvalStep(i) /\ ~StallInvalidate(i)
      BY DEF Search, BeginSearch, SearchStore, Serve, Withhold, OnlyReader, InvalStep,
             ReadInvalidate, DeleteInvalidated, FollowUp, StallInvalidate
    <3>3. \A j \in Jobs : ~Claim(j) /\ ~LeaseEnds(j) /\ ~LeaseLost(j)
      BY DEF Claim, LeaseEnds, LeaseLost
    <3>4. \A g \in Gens : ~Break(g) /\ ~PruneLater(g) /\ ~Crash(g)
      BY DEF Break, PruneLater, Crash
    <3>5. \A g \in Gens : Build(g) => CommitReceipt(g)
      BY DEF Build, LeaveOut, Plan, Remove, Skip, ReadRecords, Reserve, CheckBatch, WriteBatch,
             EndStaging, Activate, Prune, Close, Refused, Undone, DropStaged, Fail, OnlyWork
    <3>. QED BY <3>1, <3>2, <3>3, <3>4, <3>5 DEF Next
  <2>2. work[g].at = "activated" /\ receipt'.stamp = work[g].plan
    BY <2>1 DEF CommitReceipt
  <2>. QED BY <2>2 DEF VecInv, RowsKept
<1>2. VecInv /\ [Next]_vars => [receipt' # receipt => Right]_vars
  BY <1>1
<1>. QED BY <1>2, ProjectionInvariant, PTL DEF Spec, CommittedIsCurrent

\* What a search shows is the text of the version as it is when it is shown.
THEOREM HitsAreCurrent == Spec => ServedIsCurrent
<1>1. VecInv /\ Serve => source.life = "live" /\ reader.text = source.stamp
  BY DEF Serve, StillCurrent, Covered, VecInv, ReaderText
<1>2. VecInv /\ [Next]_vars => [Serve => source.life = "live" /\ reader.text = source.stamp]_vars
  BY <1>1
<1>. QED BY <1>2, ProjectionInvariant, PTL DEF Spec, ServedIsCurrent
-------------------------------------------------------------------------------
(* No edit is lost on SQLite: a change of a version in use queues a job,   *)
(* and that job keeps going for the stamp of the change until the receipt  *)
(* has it, a newer change takes over, somebody is told, or the version is  *)
(* passed over because of an obstacle, and no other job is queued.         *)

Current == receipt.state # "NONE" /\ receipt.stamp = source.stamp

\* The attempt g has still to plan, works on what is current, or will have its
\* job tried again or reported.
OnItsWay(g) ==
    \/ work[g].at \in {"idle", "begun"}
    \/ /\ work[g].at \in {"planned", "read", "staging", "embedding", "staged", "activated"}
       /\ work[g].plan = source.stamp
    \/ work[g].at \in {"dropping", "failing"} /\ work[g].why = "error"

Pursued(j) ==
    \/ job[j].state = "QUEUED"
    \/ /\ job[j].state = "RUNNING"
       /\ \A g \in Gens : g[1] = j /\ Fenced(g) => OnItsWay(g)

\* A job that broke has failed for good.
BrokenFailed == \A j \in Jobs : job[j].broken => job[j].state = "FAILED"

\* Receipts and plans know no later stamp than that of the source, and a plan
\* that saw a receipt of the present stamp saw one that still is.
NotAhead ==
    /\ receipt.stamp <= source.stamp
    /\ \A g \in Gens : work[g].at = "planned" =>
        /\ work[g].old.stamp <= source.stamp
        /\ local /\ work[g].old.state # "NONE" /\ work[g].old.stamp = source.stamp => Current

Followed == local => \/ source.life # "live" \/ GivenUp \/ passed \/ Current
                     \/ \E j \in Jobs : Pursued(j)

Following == BrokenFailed /\ NotAhead /\ Followed

LEMMA LeastJob == \E j \in Jobs : \A k \in Jobs : j <= k
<1>1. Jobs \in SUBSET Nat /\ Jobs # {}
  BY BoundsAssumption
<1>2. IsWellFoundedOn(OpToRel(<, Nat), Nat)
  BY NatLessThanWellFounded
<1>3. \E j \in Jobs : \A k \in Jobs : <<k, j>> \notin OpToRel(<, Nat)
  BY <1>1, <1>2, WFMin
<1>4. PICK j \in Jobs : \A k \in Jobs : ~(k < j)
  BY <1>1, <1>3 DEF OpToRel
<1>5. \A k \in Jobs : j <= k
  BY <1>1, <1>4
<1>. QED BY <1>5

\* The first job is queued as the draft is created.
LEMMA FollowingAtFirst == Init => Following
<1> SUFFICES ASSUME Init PROVE Following
  OBVIOUS
<1>1. PICK j \in Jobs : \A k \in Jobs : j <= k
  BY LeastJob
<1>2. job[j].state = "QUEUED"
  BY <1>1 DEF Init, NoRow
<1>3. Followed
  BY <1>2 DEF Followed, Pursued
<1>4. BrokenFailed
  BY DEF Init, NoRow, BrokenFailed
<1>5. NotAhead
  BY DEF Init, NotAhead, NoReceipt, Idle
<1>. QED BY <1>3, <1>4, <1>5 DEF Following

LEMMA Typed ==
    ASSUME VecInv
    PROVE  /\ source \in Source /\ source.stamp \in Nat
           /\ receipt \in Receipt /\ receipt.stamp \in Nat
           /\ \A j \in Jobs : job[j] \in Row
           /\ \A g \in Gens : /\ g[1] \in Jobs /\ work[g] \in Work
                              /\ work[g].old \in Receipt /\ work[g].old.stamp \in Nat
<1>1. Stamps \in SUBSET Nat
  BY DEF Stamps
<1>. QED BY <1>1 DEF VecInv, ShapeOK, Source, Receipt, Gens, Work

\* Steps that change neither the source nor the receipt, and after which every
\* job that was pursued is, or need not be.
LEMMA PursuitGoesOn ==
    ASSUME VecInv, Following, UNCHANGED <<local, source, receipt>>, BrokenFailed',
           GivenUp => GivenUp', passed => passed',
           local /\ source.life = "live" =>
               \A j \in Jobs : Pursued(j) => Current \/ GivenUp' \/ passed' \/ Pursued(j)',
           \A g \in Gens : work'[g].at = "planned" =>
               \/ work[g].at = "planned" /\ work'[g].old = work[g].old
               \/ work'[g].old = receipt
    PROVE  Following'
<1>1. Current' <=> Current
  BY DEF Current
<1>2. NotAhead'
  BY <1>1, Typed DEF Following, NotAhead, Current
<1>3. Followed'
  BY <1>1 DEF Following, Followed
<1>. QED BY <1>2, <1>3 DEF Following

\* Steps of threads that leave the jobs alone.
LEMMA ThreadsPursue ==
    ASSUME VecInv, Following, UNCHANGED <<local, source, receipt, job>>, passed => passed',
           \A g \in Gens :
               \/ work'[g] = work[g]
               \/ /\ Fenced(g) /\ OnItsWay(g) /\ local /\ source.life = "live" => Current \/ OnItsWay(g)'
                  /\ work'[g].at = "planned" => work'[g].old = receipt
    PROVE  Following'
<1>1. BrokenFailed' /\ (GivenUp <=> GivenUp')
  BY DEF Following, BrokenFailed, GivenUp
<1>2. \A g \in Gens : Fenced(g)' <=> Fenced(g)
  BY DEF Fenced, Owns
<1>3. ASSUME local, source.life = "live", NEW j \in Jobs, Pursued(j), ~Current PROVE Pursued(j)'
  <2>1. CASE job[j].state = "QUEUED"
    BY <2>1 DEF Pursued
  <2>2. CASE job[j].state = "RUNNING" /\ job[j].state # "QUEUED"
    <3>1. ASSUME NEW g \in Gens, g[1] = j, Fenced(g)' PROVE OnItsWay(g)'
      <4>1. Fenced(g) /\ OnItsWay(g)
        BY <1>2, <1>3, <2>2, <3>1 DEF Pursued
      <4>2. CASE work'[g] = work[g]
        BY <4>1, <4>2 DEF OnItsWay
      <4>. QED BY <1>3, <4>1, <4>2
    <3>. QED BY <2>2, <3>1 DEF Pursued
  <2>. QED BY <1>3, <2>1, <2>2 DEF Pursued
<1>. QED BY <1>1, <1>3, PursuitGoesOn

\* A thread moves to w.
LEMMA ThreadPursues ==
    ASSUME VecInv, Following, UNCHANGED <<local, source, receipt, job>>, passed => passed',
           NEW g \in Gens, NEW w, work' = [work EXCEPT ![g] = w],
           Fenced(g) /\ OnItsWay(g) /\ local /\ source.life = "live" =>
               \/ Current
               \/ w.at \in {"read", "planned", "staging", "embedding", "staged", "activated"}
                    /\ w.plan = source.stamp
               \/ w.at \in {"dropping", "failing"} /\ w.why = "error",
           w.at = "planned" => w.old = receipt
    PROVE  Following'
<1>1. \A h \in Gens : work'[h] = IF h = g THEN w ELSE work[h]
  BY DEF VecInv, ShapeOK
<1>2. Fenced(g) /\ OnItsWay(g) /\ local /\ source.life = "live" => Current \/ OnItsWay(g)'
  BY <1>1 DEF OnItsWay
<1>. QED BY <1>1, <1>2, ThreadsPursue

\* Steps that change no job and no thread, no source and no receipt.
LEMMA NothingFollows ==
    ASSUME VecInv, Following, UNCHANGED <<local, source, receipt, job, work>>, passed => passed'
    PROVE  Following'
BY ThreadsPursue

\* Steps that pass over a change, unless a job is queued.
LEMMA PassingFollows ==
    ASSUME VecInv, Following, UNCHANGED <<local, receipt, job>>, PassedOver,
           source.life = "live", source' = source \/ source'.stamp = source.stamp + 1,
           \A g \in Gens : work'[g].at = "planned" => work'[g] = work[g]
    PROVE  Following'
<1>1. BrokenFailed'
  BY DEF Following, BrokenFailed
<1>2. NotAhead'
  BY Typed DEF Following, NotAhead, Current
<1>3. Followed'
  <2>1. CASE passed'
    BY <2>1 DEF Followed
  <2>2. CASE Queued # {}
    BY <2>2 DEF Followed, Pursued, Queued
  <2>. QED BY <2>1, <2>2 DEF PassedOver
<1>. QED BY <1>1, <1>2, <1>3 DEF Following

\* The row of j changes, and its threads may.
LEMMA JobPursued ==
    ASSUME VecInv, Following, UNCHANGED <<local, source, receipt, passed>>,
           NEW j \in Jobs, NEW q \in Row, job' = [job EXCEPT ![j] = q],
           \A g \in Gens : g[1] # j => work'[g] = work[g],
           \A g \in Gens : work'[g].at = "planned" => work'[g] = work[g],
           job[j].state \notin {"CANCELLED", "FAILED"},
           q.broken => q.state = "FAILED",
           Pursued(j) /\ source.life = "live" =>
               Current \/ q.broken \/ q.state = "CANCELLED" \/ Pursued(j)'
    PROVE  Following'
<1>1. \A i \in Jobs : job'[i] = IF i = j THEN q ELSE job[i]
  BY DEF VecInv, ShapeOK
<1>2. BrokenFailed'
  BY <1>1 DEF Following, BrokenFailed
<1>3. GivenUp => GivenUp'
  BY <1>1 DEF GivenUp, Following, BrokenFailed
<1>4. q.broken \/ q.state = "CANCELLED" => GivenUp'
  BY <1>1 DEF GivenUp
<1>5. ASSUME NEW i \in Jobs, i # j, Pursued(i) PROVE Pursued(i)'
  <2>1. \A g \in Gens : g[1] = i => (Fenced(g)' <=> Fenced(g)) /\ (OnItsWay(g)' <=> OnItsWay(g))
    BY <1>1, <1>5 DEF Fenced, Owns, OnItsWay
  <2>. QED BY <1>1, <1>5, <2>1 DEF Pursued
<1>. QED BY <1>2, <1>3, <1>4, <1>5, PursuitGoesOn

\* What _queue_index does: a request that saw a queued job, or creates one.
LEMMA EnqueueFollows ==
    ASSUME VecInv, NEW seen \in SUBSET Jobs, NEW force \in BOOLEAN, NEW removed \in BOOLEAN,
           Enqueue(seen, force, removed)
    PROVE  /\ \A j \in Jobs :
               \/ /\ job'[j].state = job[j].state /\ job'[j].attempt = job[j].attempt
                  /\ job'[j].held = job[j].held /\ job'[j].cancel = job[j].cancel
                  /\ job'[j].broken = job[j].broken
               \/ job[j].state = "ABSENT" /\ job'[j].state = "QUEUED" /\ ~job'[j].broken
           /\ seen \subseteq Queued => \E j \in Jobs : job'[j].state = "QUEUED"
<1>1. job \in [Jobs -> Row] /\ \A j \in Jobs : job[j] \in Row
  BY DEF VecInv, ShapeOK
<1>2. CASE \E j \in seen : job' = [job EXCEPT ![j].removed = @ \/ removed]
  <2>1. PICK k \in seen : job' = [job EXCEPT ![k] = [job[k] EXCEPT !.removed = job[k].removed \/ removed]]
    BY <1>2
  <2>2. \A j \in Jobs : job'[j] = IF j = k THEN [job[k] EXCEPT !.removed = job[k].removed \/ removed]
                                  ELSE job[j]
    BY <1>1, <2>1
  <2>3. \A j \in Jobs : /\ job'[j].state = job[j].state /\ job'[j].attempt = job[j].attempt
                        /\ job'[j].held = job[j].held /\ job'[j].cancel = job[j].cancel
                        /\ job'[j].broken = job[j].broken
    BY <1>1, <2>2 DEF Row
  <2>. QED BY <2>3 DEF Queued
<1>3. CASE \E j \in Jobs : /\ job[j].state = "ABSENT"
                           /\ job' = [job EXCEPT ![j] = [NoRow EXCEPT !.state = "QUEUED",
                                           !.force = force, !.removed = removed]]
  <2>1. PICK k \in Jobs : /\ job[k].state = "ABSENT"
                          /\ job' = [job EXCEPT ![k] = [NoRow EXCEPT !.state = "QUEUED",
                                           !.force = force, !.removed = removed]]
    BY <1>3
  <2>2. job'[k].state = "QUEUED" /\ ~job'[k].broken
    BY <1>1, <2>1 DEF NoRow
  <2>. QED BY <1>1, <2>1, <2>2
<1>. QED BY <1>2, <1>3 DEF Enqueue

LEMMA EnqueueKeepsFollowing ==
    ASSUME VecInv, Following, UNCHANGED <<local, source, receipt, work>>,
           NEW force \in BOOLEAN, NEW removed \in BOOLEAN,
           Enqueue(Queued, force, removed)
    PROVE  Following'
<1>1. Queued \in SUBSET Jobs
  BY DEF Queued
<1>2. /\ \A j \in Jobs :
          \/ job'[j].state = job[j].state /\ job'[j].broken = job[j].broken
          \/ ~job'[j].broken
      /\ \E j \in Jobs : job'[j].state = "QUEUED"
  BY <1>1, EnqueueFollows
<1>3. BrokenFailed'
  BY <1>2 DEF Following, BrokenFailed
<1>4. NotAhead'
  BY DEF Following, NotAhead, Current
<1>5. Followed'
  BY <1>2 DEF Followed, Pursued
<1>. QED BY <1>3, <1>4, <1>5 DEF Following

\* A change has a stamp of its own; if the version is in use, a job is queued.
LEMMA ChangeFollowed ==
    ASSUME VecInv, Following, NEW life, Becomes(life), UNCHANGED <<local, receipt, work>>,
           BrokenFailed', local /\ life = "live" => \E j \in Jobs : job'[j].state = "QUEUED"
    PROVE  Following'
<1>1. source'.stamp = source.stamp + 1 /\ source'.life = life
  BY DEF Becomes
<1>2. NotAhead'
  BY <1>1, Typed DEF Following, NotAhead
<1>3. Followed'
  BY <1>1 DEF Followed, Pursued
<1>. QED BY <1>2, <1>3 DEF Following

LEMMA CommitsFollowed ==
    ASSUME VecInv, Following, NEW removed \in BOOLEAN, Commits(removed)
    PROVE  /\ BrokenFailed' /\ UNCHANGED <<local, receipt, work>>
           /\ local => \E j \in Jobs : job'[j].state = "QUEUED"
<1>1. Queued \in SUBSET Jobs /\ looking.seen \in SUBSET Jobs
  BY DEF Queued, VecInv, ShapeOK
<1>2. CASE Enqueue(Queued, FALSE, removed)
  <2>1. \A j \in Jobs :
          \/ job'[j].state = job[j].state /\ job'[j].broken = job[j].broken
          \/ ~job'[j].broken
    BY <1>1, <1>2, EnqueueFollows
  <2>2. \E j \in Jobs : job'[j].state = "QUEUED"
    BY <1>1, <1>2, EnqueueFollows
  <2>. QED BY <2>1, <2>2 DEF Following, BrokenFailed, Commits
<1>3. CASE ~local /\ Enqueue(looking.seen, FALSE, removed)
  <2>1. \A j \in Jobs :
          \/ job'[j].state = job[j].state /\ job'[j].broken = job[j].broken
          \/ ~job'[j].broken
    BY <1>1, <1>3, EnqueueFollows
  <2>. QED BY <1>3, <2>1 DEF Following, BrokenFailed, Commits
<1>. QED BY <1>2, <1>3 DEF Commits

LEMMA RequestsFollowed ==
    ASSUME VecInv, Following, Request
    PROVE  Following'
<1>1. CASE LookAtQueue
  BY <1>1, NothingFollows DEF LookAtQueue
<1>2. CASE Edit \/ Suspend \/ Resume \/ Discard
  <2>1. PICK removed \in BOOLEAN, life \in {"live", "paused", "gone"} :
            Commits(removed) /\ Becomes(life)
    BY <1>2 DEF Edit, Suspend, Resume, Discard
  <2>. QED BY <2>1, CommitsFollowed, ChangeFollowed
<1>3. CASE Trash \/ Restore \/ Cascade
  <2>1. PICK life \in {"paused", "trashed"} : Becomes(life) /\ Unqueued
    BY <1>3 DEF Trash, Restore, Cascade
  <2>2. BrokenFailed'
    BY <2>1 DEF Unqueued, Following, BrokenFailed
  <2>. QED BY <2>1, <2>2, ChangeFollowed DEF Unqueued
<1>4. CASE RequestIndex
  BY <1>4, EnqueueKeepsFollowing DEF RequestIndex
<1>5. CASE Purge
  <2>1. CASE Becomes("gone")
    <3>1. BrokenFailed'
      BY <1>5 DEF Purge, Following, BrokenFailed
    <3>. QED BY <1>5, <2>1, <3>1, ChangeFollowed DEF Purge
  <2>2. CASE UNCHANGED source
    BY <1>5, <2>2, NothingFollows DEF Purge
  <2>. QED BY <1>5, <2>1, <2>2 DEF Purge
<1>6. ASSUME NEW j \in Jobs, CancelJob(j) PROVE Following'
  <2> DEFINE s == IF job[j].state = "QUEUED" THEN "CANCELLED" ELSE "RUNNING"
             q == [job[j] EXCEPT !.cancel = TRUE, !.state = s]
  <2>1. q \in Row /\ q.state = s /\ q.cancel /\ q.broken = job[j].broken
    BY <1>6, Typed DEF CancelJob, Row
  <2>2. job' = [job EXCEPT ![j] = q] /\ UNCHANGED <<local, source, receipt, work, passed>>
    BY <1>6 DEF CancelJob
  <2>3. ~job[j].broken /\ job[j].state \in {"QUEUED", "RUNNING"}
    BY <1>6 DEF CancelJob, Following, BrokenFailed
  <2>4. s = "CANCELLED" \/ s = "RUNNING"
    OBVIOUS
  <2> HIDE DEF s, q
  <2>5. job'[j] = q
    BY <2>2 DEF VecInv, ShapeOK
  <2>6. s = "RUNNING" => Pursued(j)'
    BY <2>1, <2>5 DEF Pursued, Fenced
  <2>. QED BY <2>1, <2>2, <2>3, <2>4, <2>6, JobPursued
<1>7. CASE BeginWork \/ Bar \/ Unbar
  BY <1>7, NothingFollows DEF BeginWork, Bar, Unbar
<1>8. CASE EndWork
  <2>1. CASE Becomes("live") /\ Commits(FALSE)
    BY <2>1, CommitsFollowed, ChangeFollowed
  <2>2. CASE /\ source.life = "live" /\ Becomes("live") /\ PassedOver
             /\ UNCHANGED <<local, receipt, job, work>>
    BY <2>2, PassingFollows DEF Becomes
  <2>3. CASE UNCHANGED <<local, source, receipt, job, work, passed>>
    BY <2>3, NothingFollows
  <2>. QED BY <1>8, <2>1, <2>2, <2>3 DEF EndWork
<1>9. CASE RestChanges
  <2>1. source'.stamp = source.stamp + 1
    BY <1>9, Typed DEF RestChanges, Source
  <2>. QED BY <1>9, <2>1, PassingFollows DEF RestChanges
<1>. QED BY <1>1, <1>2, <1>3, <1>4, <1>5, <1>6, <1>7, <1>8, <1>9 DEF Request

LEMMA EngineFollows ==
    ASSUME VecInv, Following, NEW j \in Jobs, Claim(j) \/ LeaseEnds(j) \/ LeaseLost(j)
    PROVE  Following'
<1>1. job[j] \in Row /\ job[j].attempt \in Nat
  BY Typed DEF Row
<1>2. job[j].state \in {"QUEUED", "RUNNING"} /\ ~job[j].broken
  BY DEF Claim, LeaseEnds, LeaseLost, Following, BrokenFailed
<1>3. CASE LeaseEnds(j) \/ LeaseLost(j)
  <2> DEFINE q == [job[j] EXCEPT !.held = FALSE]
  <2>1. q \in Row /\ q.state = "RUNNING" /\ ~q.held /\ q.broken = job[j].broken
    BY <1>1, <1>3 DEF LeaseEnds, LeaseLost, Row
  <2>2. job' = [job EXCEPT ![j] = q] /\ UNCHANGED <<local, source, receipt, work, passed>>
    BY <1>3 DEF LeaseEnds, LeaseLost
  <2> HIDE DEF q
  <2>3. job'[j] = q
    BY <2>2 DEF VecInv, ShapeOK
  <2>4. Pursued(j)'
    BY <2>1, <2>3 DEF Pursued, Fenced, Owns
  <2>. QED BY <1>2, <2>1, <2>2, <2>4, JobPursued
<1>4. CASE Claim(j) /\ ~(job[j].attempt < MaxAttempts)
  <2> DEFINE q == [job[j] EXCEPT !.state = "FAILED", !.broken = TRUE]
  <2>1. q \in Row /\ q.state = "FAILED" /\ q.broken
    BY <1>1 DEF Row
  <2>2. job' = [job EXCEPT ![j] = q] /\ UNCHANGED <<local, source, receipt, work, passed>>
    BY <1>4 DEF Claim
  <2> HIDE DEF q
  <2>. QED BY <1>2, <2>1, <2>2, JobPursued
<1>5. CASE Claim(j) /\ job[j].attempt < MaxAttempts
  <2> DEFINE g == <<j, job[j].attempt + 1>>
             q == Started(j)
  <2>1. /\ q \in Row /\ q.state = "RUNNING" /\ q.attempt = job[j].attempt + 1
        /\ q.broken = job[j].broken
    <3>1. job[j].attempt + 1 \in 0..MaxAttempts
      BY <1>1, <1>5, Constants
    <3>. QED BY <1>1, <3>1 DEF Started, Row
  <2>2. /\ job' = [job EXCEPT ![j] = q] /\ UNCHANGED <<local, source, receipt, passed>>
        /\ work' = [work EXCEPT ![g].at = "begun"]
    BY <1>5 DEF Claim
  <2>3. g \in Gens /\ g[1] = j
    BY <1>1, <1>5, Constants DEF Gens
  <2>4. \A h \in Gens : work'[h] = IF h = g THEN [work[g] EXCEPT !.at = "begun"] ELSE work[h]
    BY <2>2 DEF VecInv, ShapeOK
  <2>5. [work[g] EXCEPT !.at = "begun"].at = "begun"
    BY <2>3, Typed DEF Work
  <2>6. \A h \in Gens : h[1] = j /\ h[2] = q.attempt => h = g
    BY <2>1 DEF Gens
  <2> HIDE DEF g, q
  <2>7. job'[j] = q
    BY <2>2 DEF VecInv, ShapeOK
  <2>8. ASSUME NEW h \in Gens, h[1] = j, Fenced(h)' PROVE OnItsWay(h)'
    <3>1. h = g
      BY <2>6, <2>7, <2>8 DEF Fenced, Owns
    <3>. QED BY <2>4, <2>5, <3>1 DEF OnItsWay
  <2>9. Pursued(j)'
    BY <2>1, <2>7, <2>8 DEF Pursued
  <2>10. \A h \in Gens : /\ h[1] # j => work'[h] = work[h]
                         /\ work'[h].at = "planned" => work'[h] = work[h]
    BY <2>3, <2>4, <2>5
  <2>. QED BY <1>2, <2>1, <2>2, <2>9, <2>10, JobPursued
<1>. QED BY <1>3, <1>4, <1>5

\* Only an attempt that has seen to it, or is behind, succeeds or fails quietly.
LEMMA EndsFollowed ==
    ASSUME VecInv, Following, NEW g \in Gens, Close(g) \/ Fail(g)
    PROVE  Following'
<1> DEFINE j == g[1]
<1>1. job[j] \in Row /\ j \in Jobs /\ work[g] \in Work /\ Idle.at = "idle"
  BY Typed DEF Idle
<1>2. \A h \in Gens : work'[h] = IF h = g THEN Idle ELSE work[h]
  BY DEF Close, Fail, VecInv, ShapeOK
<1>3. UNCHANGED <<local, source, receipt, passed>>
  BY DEF Close, Fail
<1>4. \A s \in {"SUCCEEDED", "CANCELLED", "QUEUED", "FAILED"} :
        Ended(j, s) \in Row /\ Ended(j, s).state = s /\ Ended(j, s).broken = job[j].broken
  BY <1>1 DEF Ended, Row
<1>5. Owns(g) => job[j].state = "RUNNING" /\ ~job[j].broken
  BY <1>1 DEF Owns, Following, BrokenFailed
<1>6. \A h \in Gens : /\ h[1] # j => work'[h] = work[h]
                      /\ work'[h].at = "planned" => work'[h] = work[h]
  BY <1>1, <1>2
<1>7. CASE Close(g)
  <2>1. job' = [job EXCEPT ![j] = Ended(j, "SUCCEEDED")] /\ Fenced(g) /\ ~OnItsWay(g)
    BY <1>7 DEF Close, OnItsWay
  <2>2. ~Pursued(j)
    BY <1>1, <1>5, <2>1 DEF Pursued, Fenced
  <2>. QED BY <1>1, <1>3, <1>4, <1>5, <1>6, <2>1, <2>2, JobPursued DEF Fenced
<1>8. CASE Fail(g) /\ ~Owns(g) /\ UNCHANGED job
  BY <1>2, <1>3, <1>8, <1>1, ThreadsPursue DEF Fenced
<1>9. CASE Fail(g) /\ Owns(g) /\ job' = [job EXCEPT ![j] = Ended(j, "CANCELLED")]
  BY <1>1, <1>3, <1>4, <1>5, <1>6, <1>9, JobPursued
<1>10. CASE /\ Fail(g) /\ Fenced(g)
            /\ job' = [job EXCEPT ![j] = [Ended(j, "FAILED") EXCEPT !.broken = (work[g].why = "error")]]
  <2> DEFINE q == [Ended(j, "FAILED") EXCEPT !.broken = (work[g].why = "error")]
  <2>0. (work[g].why = "error") \in BOOLEAN
    OBVIOUS
  <2>1. q \in Row /\ q.state = "FAILED" /\ q.broken = (work[g].why = "error")
    BY <1>4, <2>0 DEF Row
  <2>2. job' = [job EXCEPT ![j] = q]
    BY <1>10
  <2>3. Pursued(j) => work[g].why = "error"
    BY <1>1, <1>5, <1>10 DEF Pursued, Fenced, OnItsWay, Fail
  <2>4. Pursued(j) => q.broken
    BY <2>1, <2>3
  <2>5. Owns(g)
    BY <1>10 DEF Fenced
  <2> HIDE DEF q
  <2>. QED BY <1>1, <1>3, <1>5, <1>6, <2>1, <2>2, <2>4, <2>5, JobPursued
<1>11. CASE Fail(g) /\ Fenced(g) /\ job' = [job EXCEPT ![j] = Ended(j, "QUEUED")]
  <2>1. job'[j].state = "QUEUED"
    BY <1>1, <1>4, <1>11 DEF VecInv, ShapeOK
  <2>2. Pursued(j)'
    BY <2>1 DEF Pursued
  <2>. QED BY <1>1, <1>3, <1>4, <1>5, <1>6, <1>11, <2>2, JobPursued DEF Fenced
<1>. QED BY <1>7, <1>8, <1>9, <1>10, <1>11 DEF Fail

\* What the steps of run_index_job do for its job.
LEMMA BuildFollows ==
    ASSUME VecInv, Following, NEW g \in Gens, Build(g), ~CommitReceipt(g)
    PROVE  Following'
<1>1. work[g] \in Work
  BY Typed
<1> DEFINE To(at) == [work[g] EXCEPT !.at = at]
<1>2. \A at : To(at).at = at /\ To(at).plan = work[g].plan /\ To(at).why = work[g].why
  BY <1>1 DEF Work
<1>3. \A why : LET w == [Idle EXCEPT !.at = "dropping", !.why = why]
               IN  w.at = "dropping" /\ w.why = why
  BY DEF Idle
<1>4. CASE Plan(g)
  <2> DEFINE at == CASE source.life = "live" -> "planned"
                     [] source.life = "gone" /\ job[g[1]].removed
                            /\ receipt.state # "NONE" -> "removing"
                     [] OTHER -> "closing"
             w == [Idle EXCEPT !.at = at, !.plan = source.stamp, !.old = receipt]
  <2>1. w.at = at /\ w.plan = source.stamp /\ w.old = receipt
    BY DEF Idle
  <2>2. source.life = "live" => at = "planned"
    OBVIOUS
  <2>3. work' = [work EXCEPT ![g] = w] /\ UNCHANGED <<local, source, receipt, job, passed>>
    BY <1>4 DEF Plan, OnlyWork
  <2> HIDE DEF at, w
  <2>. QED BY <2>1, <2>2, <2>3, ThreadPursues
<1>5. CASE Remove(g) \/ Prune(g)
  <2>1. /\ work' = [work EXCEPT ![g] = To("closing")] /\ ~OnItsWay(g)
        /\ UNCHANGED <<local, source, receipt, job, passed>>
    BY <1>5 DEF Remove, Prune, Goes, OnItsWay
  <2>. QED BY <1>2, <2>1, ThreadPursues
<1>6. CASE Skip(g)
  <2> DEFINE w == [Idle EXCEPT !.at = "skipping"]
  <2>1. /\ work' = [work EXCEPT ![g] = w] /\ w.at = "skipping"
        /\ UNCHANGED <<local, source, receipt, job, passed>>
    BY <1>6 DEF Skip, OnlyWork, Idle
  <2>2. local /\ OnItsWay(g) => Current
    BY <1>6 DEF Skip, UpToDate, OnItsWay, Following, NotAhead
  <2> HIDE DEF w
  <2>. QED BY <2>1, <2>2, ThreadPursues
<1>7. CASE ReadRecords(g)
  <2> DEFINE at == IF source.stamp \in Blank THEN "staged" ELSE "read"
             w == [work[g] EXCEPT !.at = at, !.old = NoReceipt]
  <2>1. w.at = at /\ w.plan = work[g].plan /\ at \in {"staged", "read"}
    BY <1>1 DEF Work
  <2>2. /\ work' = [work EXCEPT ![g] = w] /\ work[g].at = "planned"
        /\ UNCHANGED <<local, source, receipt, job, passed>>
    BY <1>7 DEF ReadRecords, OnlyWork
  <2> HIDE DEF at, w
  <2>. QED BY <2>1, <2>2, ThreadPursues DEF OnItsWay
<1>8. ASSUME NEW at \in {"staging", "embedding", "staged", "activated"},
             work' = [work EXCEPT ![g] = To(at)], UNCHANGED <<local, source, receipt, job, passed>>,
             work[g].at \in {"read", "staging", "embedding", "staged"}
      PROVE  Following'
  <2> HIDE DEF To
  <2>. QED BY <1>2, <1>8, ThreadPursues DEF OnItsWay
<1>9. CASE Reserve(g) \/ CheckBatch(g) \/ EndStaging(g) \/ Activate(g)
  BY <1>8, <1>9 DEF Reserve, CheckBatch, EndStaging, Activate, Goes, OnlyWork
<1>10. CASE WriteBatch(g)
  <2> DEFINE w == [work[g] EXCEPT !.at = "staging", !.done = work[g].done + 1]
  <2>1. w.at = "staging" /\ w.plan = work[g].plan
    BY <1>1 DEF Work
  <2>2. /\ work' = [work EXCEPT ![g] = w] /\ work[g].at = "embedding"
        /\ UNCHANGED <<local, source, receipt, job, passed>>
    BY <1>10 DEF WriteBatch, Upsert
  <2> HIDE DEF w
  <2>. QED BY <2>1, <2>2, ThreadPursues DEF OnItsWay
<1>11. CASE Close(g) \/ Fail(g)
  BY <1>11, EndsFollowed
<1>12. CASE Refused(g)
  <2> DEFINE w == [Idle EXCEPT !.at = "dropping", !.why = IF Fenced(g) THEN "changed" ELSE "stopped"]
  <2>1. /\ work' = [work EXCEPT ![g] = w] /\ w.at = "dropping"
        /\ UNCHANGED <<local, source, receipt, job>>
    BY <1>12 DEF Refused, Drops, Idle
  <2> HIDE DEF w
  <2>2. \A h \in Gens : work'[h].at = "planned" => work'[h] = work[h]
    BY <2>1 DEF VecInv, ShapeOK
  <2>3. CASE source.life = "live" /\ PassedOver
    BY <2>1, <2>2, <2>3, PassingFollows
  <2>4. CASE UNCHANGED passed /\ ~(Fenced(g) /\ source.stamp = work[g].plan)
    <3>1. ~(Fenced(g) /\ OnItsWay(g) /\ source.life = "live")
      BY <1>12, <2>4 DEF Refused, OnItsWay
    <3>. QED BY <2>1, <2>4, <3>1, ThreadPursues
  <2>5. CASE source.life # "live" /\ PassedOver
    BY <2>1, <2>5, ThreadPursues DEF PassedOver
  <2>. QED BY <1>12, <2>3, <2>4, <2>5 DEF Refused
<1>13. CASE Undone(g)
  <2> DEFINE w == [Idle EXCEPT !.at = "dropping", !.why = "error"]
  <2>1. /\ work' = [work EXCEPT ![g] = w] /\ w.at = "dropping" /\ w.why = "error"
        /\ UNCHANGED <<local, source, receipt, job, passed>>
    BY <1>13 DEF Undone, Drops, OnlyWork, Idle
  <2> HIDE DEF w
  <2>. QED BY <2>1, ThreadPursues
<1>14. CASE DropStaged(g)
  <2>1. /\ work' = [work EXCEPT ![g] = To("failing")] /\ work[g].at = "dropping"
        /\ UNCHANGED <<local, source, receipt, job, passed>>
    BY <1>14 DEF DropStaged, Goes
  <2>2. OnItsWay(g) => work[g].why = "error"
    BY <2>1 DEF OnItsWay
  <2> HIDE DEF To
  <2>. QED BY <1>2, <2>1, <2>2, ThreadPursues
<1>15. CASE LeaveOut(g)
  <2>1. /\ work' = [work EXCEPT ![g] = To("closing")] /\ PassedOver /\ source.life = "live"
        /\ UNCHANGED <<local, source, receipt, job>>
    BY <1>15 DEF LeaveOut, Goes
  <2> HIDE DEF To
  <2>2. \A h \in Gens : work'[h].at = "planned" => work'[h] = work[h]
    BY <1>2, <2>1 DEF VecInv, ShapeOK
  <2>. QED BY <2>1, <2>2, PassingFollows
<1>. QED BY <1>4, <1>5, <1>6, <1>7, <1>9, <1>10, <1>11, <1>12, <1>13, <1>14,
            <1>15 DEF Build

\* A receipt that commits is current.
LEMMA ReceiptFollows ==
    ASSUME VecInv, Following, NEW g \in Gens, CommitReceipt(g)
    PROVE  Following'
<1>1. /\ receipt'.stamp <= source.stamp /\ receipt'.state # "NONE"
      /\ local => receipt'.stamp = source.stamp
      /\ UNCHANGED <<local, source, job>>
  BY DEF CommitReceipt, VecInv, RowsKept
<1>2. local => Current'
  BY <1>1 DEF Current
<1>3. \A h \in Gens : work'[h].at = "planned" => work'[h] = work[h]
  BY DEF CommitReceipt, VecInv, ShapeOK, Idle
<1>4. NotAhead'
  BY <1>1, <1>2, <1>3, Typed DEF Following, NotAhead
<1>5. BrokenFailed' /\ Followed'
  BY <1>1, <1>2 DEF Following, BrokenFailed, Followed
<1>. QED BY <1>4, <1>5 DEF Following

LEMMA FailuresFollowed ==
    ASSUME VecInv, Following, NEW g \in Gens, Break(g) \/ PruneLater(g) \/ Crash(g)
    PROVE  Following'
<1>1. CASE Break(g)
  <2> DEFINE w == [Idle EXCEPT !.at = "dropping", !.why = "error"]
  <2>1. /\ work' = [work EXCEPT ![g] = w] /\ w.at = "dropping" /\ w.why = "error"
        /\ UNCHANGED <<local, source, receipt, job, passed>>
    BY <1>1 DEF Break, Drops, Idle
  <2> HIDE DEF w
  <2>. QED BY <2>1, ThreadPursues
<1>2. CASE PruneLater(g)
  <2> DEFINE w == [work[g] EXCEPT !.at = "closing"]
  <2>1. /\ work' = [work EXCEPT ![g] = w] /\ w.at = "closing" /\ ~OnItsWay(g)
        /\ UNCHANGED <<local, source, receipt, job, passed>>
    BY <1>2, Typed DEF PruneLater, Goes, OnItsWay, Work
  <2> HIDE DEF w
  <2>. QED BY <2>1, ThreadPursues
<1>3. CASE Crash(g)
  <2>1. UNCHANGED <<local, source, receipt, job, passed>> /\ Idle.at = "idle"
    BY <1>3 DEF Crash, Idle
  <2>2. \A h \in Gens : work'[h] = Idle \/ work'[h] = work[h]
    BY <1>3 DEF Crash
  <2>. QED BY <2>1, <2>2, ThreadsPursue DEF OnItsWay
<1>. QED BY <1>1, <1>2, <1>3

LEMMA NextFollows ==
    ASSUME VecInv, Following, [Next]_vars
    PROVE  Following'
<1>1. CASE UNCHANGED vars
  BY <1>1, NothingFollows DEF vars
<1>2. CASE Request
  BY <1>2, RequestsFollowed
<1>3. CASE Search
  BY <1>3, NothingFollows DEF Search, BeginSearch, SearchStore, Serve, Withhold, OnlyReader
<1>4. ASSUME NEW i \in Invals, InvalStep(i) \/ StallInvalidate(i) PROVE Following'
  <2>1. CASE ReadInvalidate(i) \/ DeleteInvalidated(i) \/ StallInvalidate(i)
    BY <2>1, NothingFollows DEF ReadInvalidate, DeleteInvalidated, StallInvalidate
  <2>2. CASE FollowUp(i)
    <3>1. CASE Enqueue(Queued, FALSE, FALSE)
      BY <2>2, <3>1, EnqueueKeepsFollowing DEF FollowUp
    <3>2. CASE UNCHANGED job /\ PassedOver
      BY <2>2, <3>2, NothingFollows DEF FollowUp, PassedOver
    <3>. QED BY <2>2, <3>1, <3>2 DEF FollowUp
  <2>. QED BY <1>4, <2>1, <2>2 DEF InvalStep
<1>5. ASSUME NEW j \in Jobs, Claim(j) \/ LeaseEnds(j) \/ LeaseLost(j) PROVE Following'
  BY <1>5, EngineFollows
<1>6. ASSUME NEW g \in Gens, Build(g) \/ Break(g) \/ PruneLater(g) \/ Crash(g)
      PROVE  Following'
  BY <1>6, BuildFollows, ReceiptFollows, FailuresFollowed
<1>. QED BY <1>1, <1>2, <1>3, <1>4, <1>5, <1>6 DEF Next

\* On SQLite no edit is lost silently by the index jobs themselves: a version in
\* use whose stamp is not in the receipt has a job that will look at it, or was
\* passed over since an index was last queued, or a job was cancelled or broke.
THEOREM EditsAreFollowed == Spec => []LocalEditsFollowed
<1>1. VecInv /\ Following /\ [Next]_vars => Following'
  BY NextFollows
<1>2. Spec => []Following
  BY FollowingAtFirst, <1>1, ProjectionInvariant, PTL DEF Spec
<1>3. Following => LocalEditsFollowed
  BY DEF Following, Followed, Pursued, Current, LocalEditsFollowed
<1>. QED BY <1>2, <1>3, PTL
===============================================================================
