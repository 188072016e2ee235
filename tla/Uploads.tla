-------------------------------- MODULE Uploads --------------------------------
(***************************************************************************)
(* How an original gets into a draft (backend/fund_kb: api_tasks.py, the   *)
(* SCAN_PARSE job of jobs.py, storage.py, the idempotency records of       *)
(* api.py).  A client opens a session, sends parts, names the parts that   *)
(* make the original and lets the session be sealed; an attempt of the     *)
(* scan job reads the draft and the parts, scans and parses outside any    *)
(* transaction, stores the original and binds it to the draft.  Meanwhile  *)
(* people edit, submit, cancel and send their requests again, parts are    *)
(* stored by requests that are rolled back, sessions expire, and attempts  *)
(* crash or lose their lease.                                              *)
(*                                                                         *)
(* One draft of a document.  The content of a part stands for its bytes    *)
(* and for their hash; every upload is the only one with its identifier,   *)
(* from which the identifier of the original is derived.                   *)
(***************************************************************************)
EXTENDS Naturals, FiniteSets

CONSTANTS
    Uploads,       \* upload sessions, of the identifiers they will have
    Parts,         \* the parts of an original
    Bytes,         \* contents of a part
    Jobs,          \* SCAN_PARSE jobs
    Clients,       \* requests at one time
    Keys,          \* idempotency keys
    MaxAttempts,   \* attempts of a job
    MaxRacing,     \* bound on the sessions on a database server
    MaxRevision,   \* bound on the revisions of the draft
    MaxEvents,     \* bound on expiries, rollbacks, outages, crashes, stalls, retries
    Nothing,       \* no original, no upload, no content, no key
    Copied         \* the original that a copy of a version shares with it

ASSUME NothingAssumption ==
    /\ Nothing \notin Uploads \cup Bytes \cup Keys
    /\ Nothing \notin [Parts -> Bytes]
    /\ Copied \notin Uploads /\ Copied # Nothing
ASSUME BoundsAssumption ==
    MaxAttempts \in Nat /\ MaxRacing \in Nat /\ MaxRevision \in Nat \ {0} /\ MaxEvents \in Nat

Data == [Parts -> Bytes]
Threads == Jobs \X (1..MaxAttempts)

VARIABLES
    local,     \* SQLite, or a database server at READ COMMITTED
    draft,     \* the version
    upload,    \* rows of table uploads
    row,       \* rows of table upload_parts
    object,    \* the objects uploads/<id>/<part>
    original,  \* the objects blobs/<id of the original of an upload>
    job,       \* rows of table jobs
    work,      \* what the thread of each attempt does
    request,   \* requests between their reads and their commit
    record,    \* idempotency records: what was done under a key
    named,     \* history: the content that the sealing request named
    events     \* expiries, rollbacks, outages, crashes, stalls, retries so far

vars == <<local, draft, upload, row, object, original, job, work, request,
          record, named, events>>

-------------------------------------------------------------------------------
Draft == [state: {"DRAFT", "FROZEN"}, revision: 1..MaxRevision,
          origin: {"HUMAN", "COPY", "UPLOAD"},
          blob: Uploads \cup {Nothing, Copied},
          text: {"none", "typed", "copied", "parsed"}]

Upload == [state: {"ABSENT", "OPEN", "SEALED", "CANCELLED", "EXPIRED"},
           late: BOOLEAN]

Job == [state: {"ABSENT", "QUEUED", "RUNNING", "SUCCEEDED", "FAILED", "CANCELLED"},
        upload: Uploads \cup {Nothing}, attempt: 0..MaxAttempts,
        held: BOOLEAN, cancel: BOOLEAN,
        code: {"none", "IMMUTABLE", "ERROR"}]   \* ERROR: all other codes
NoJob == [state |-> "ABSENT", upload |-> Nothing, attempt |-> 0, held |-> FALSE,
          cancel |-> FALSE, code |-> "none"]

\* The local variables of _scan_parse, and of run_claimed while it fails.
Work == [at: {"idle", "begun", "read", "copied", "parsed", "stored", "failing"},
         revision: 0..MaxRevision, data: Data \cup {Nothing},
         code: {"none", "IMMUTABLE", "ERROR", "TRANSIENT"}]
Idle == [at |-> "idle", revision |-> 0, data |-> Nothing, code |-> "none"]

Request == [op: {"none", "create", "part", "complete", "cancel", "edit", "submit"},
            key: Keys \cup {Nothing}, upload: Uploads \cup {Nothing},
            part: [Parts -> Bytes \cup {Nothing}],
            expired: SUBSET Uploads, revision: 0..MaxRevision]

\* What was done for a route (the operation and the session in its path) and
\* a key; made is the session that the recorded answer names.
Record == [op: {"create", "complete", "cancel"}, upload: Uploads \cup {Nothing},
           key: Keys, made: Uploads]

NoPart == [n \in Parts |-> Nothing]
NoRequest == [op |-> "none", key |-> Nothing, upload |-> Nothing, part |-> NoPart,
              expired |-> {}, revision |-> 0]

TypeOK ==
    /\ local \in BOOLEAN
    /\ draft \in Draft
    /\ upload \in [Uploads -> Upload]
    /\ row \in [Uploads -> [Parts -> Bytes \cup {Nothing}]]
    /\ object \in [Uploads -> [Parts -> Bytes \cup {Nothing}]]
    /\ original \in [Uploads -> Data \cup {Nothing}]
    /\ job \in [Jobs -> Job]
    /\ work \in [Threads -> Work]
    /\ request \in [Clients -> Request]
    /\ record \in SUBSET Record
    /\ named \in [Uploads -> Data \cup {Nothing}]
    /\ events \in Nat

\* A first draft is empty; a replacement is a copy of the version in use.
Drafts ==
    {[state |-> "DRAFT", revision |-> 1, origin |-> "HUMAN", blob |-> Nothing, text |-> "none"],
     [state |-> "DRAFT", revision |-> 1, origin |-> "COPY", blob |-> Copied, text |-> "copied"]}

Init ==
    /\ local \in BOOLEAN
    /\ draft \in Drafts
    /\ upload = [u \in Uploads |-> [state |-> "ABSENT", late |-> FALSE]]
    /\ row = [u \in Uploads |-> NoPart]
    /\ object = [u \in Uploads |-> NoPart]
    /\ original = [u \in Uploads |-> Nothing]
    /\ job = [j \in Jobs |-> NoJob]
    /\ work = [w \in Threads |-> Idle]
    /\ request = [c \in Clients |-> NoRequest]
    /\ record = {}
    /\ named = [u \in Uploads |-> Nothing]
    /\ events = 0

Event == events < MaxEvents /\ events' = events + 1

-------------------------------------------------------------------------------
(* Requests: the handler reads, and commits what it made of that.  SQLite  *)
(* lets nobody commit in between.                                          *)

\* No transaction of a request keeps others from committing.
DatabaseFree == local => \A c \in Clients : request[c].op = "none"

SameRoute(a, b) == a.op = b.op /\ a.upload = b.upload /\ a.key = b.key

\* Slip: the handler runs again for a key that was answered.
FreshWhileOpen(r) == \A c \in Clients : ~SameRoute(request[c], r)

\* begin_idempotency: nothing was done under this key, and nobody is at it.
\* A known key gets the recorded answer, and nothing changes.
Fresh(r) == /\ \A a \in record : ~SameRoute(a, r)
            /\ \A c \in Clients : ~SameRoute(request[c], r)

Reads(c, r) ==
    /\ request[c].op = "none" /\ DatabaseFree
    /\ r.key # Nothing => Fresh(r)
    /\ request' = [request EXCEPT ![c] = r]
    /\ UNCHANGED <<local, draft, upload, row, object, original, job, work,
                   record, named, events>>

\* Slip: a sealed session is accepted too.
AcceptingSealed(u) == /\ upload[u].state \in {"OPEN", "SEALED"} /\ ~upload[u].late
                      /\ draft.state = "DRAFT"

\* upload_access with open_required.
Accepting(u) == /\ upload[u].state = "OPEN" /\ ~upload[u].late
                /\ draft.state = "DRAFT"

\* Slip: a sealed session does not count.
LiveUnsealed(u) == upload[u].state = "OPEN" /\ ~upload[u].late

\* A session keeps others from the draft until it is cancelled or expires.
Live(u) == \/ upload[u].state = "SEALED"
           \/ upload[u].state = "OPEN" /\ ~upload[u].late

ReadCreate(c, k) ==
    /\ draft.state = "DRAFT" /\ (draft.blob # Nothing => draft.origin = "COPY")
    /\ \A u \in Uploads : ~Live(u)
    /\ Reads(c, [NoRequest EXCEPT !.op = "create", !.key = k,
                     !.expired = {u \in Uploads : upload[u].state = "OPEN"}])

\* A part that is there already is answered, or refused, without a commit.
ReadPart(c, u, n, b) ==
    /\ Accepting(u) /\ row[u][n] = Nothing
    /\ Reads(c, [NoRequest EXCEPT !.op = "part", !.upload = u, !.part = [NoPart EXCEPT ![n] = b]])

\* Slip: only the numbers of the parts are compared with the rows.
AgreesByNumber(u, data) == \A n \in Parts : row[u][n] # Nothing

\* The list that the client sends is the list of the rows.
Agrees(u, data) == row[u] = data

\* complete_upload reads the objects too and compares them with the rows.
ReadComplete(c, k, u, data) ==
    /\ Accepting(u)
    /\ Agrees(u, data) /\ object[u] = row[u]
    /\ Reads(c, [NoRequest EXCEPT !.op = "complete", !.key = k, !.upload = u, !.part = data])

ReadCancel(c, k, u) ==
    /\ Accepting(u)
    /\ Reads(c, [NoRequest EXCEPT !.op = "cancel", !.key = k, !.upload = u])

OpenJobs == {j \in Jobs : job[j].state \in {"QUEUED", "RUNNING"}}

ReadEdit(c) ==
    /\ draft.state = "DRAFT" /\ OpenJobs = {}
    /\ Reads(c, [NoRequest EXCEPT !.op = "edit", !.revision = draft.revision])

\* A document is submitted with a clean original.
ReadSubmit(c) ==
    /\ draft.state = "DRAFT" /\ draft.blob # Nothing
    /\ \A u \in Uploads : upload[u].state # "OPEN"
    /\ OpenJobs = {}
    /\ Reads(c, [NoRequest EXCEPT !.op = "submit", !.revision = draft.revision])

Answered(c) == request' = [request EXCEPT ![c] = NoRequest]

Recorded(c, u) ==
    record' = record \cup {[op |-> request[c].op, upload |-> request[c].upload,
                            key |-> request[c].key, made |-> u]}

Room == local \/ Cardinality({u \in Uploads : upload[u].state # "ABSENT"}) < MaxRacing

\* The states of the sessions that were read are overwritten, and no other
\* session of the draft may be open (one_open_upload).
CommitCreate(c) ==
    /\ request[c].op = "create"
    /\ \E u \in Uploads :
        /\ upload[u].state = "ABSENT" /\ Room
        /\ \A v \in Uploads \ request[c].expired : upload[v].state # "OPEN"
        /\ upload' = [v \in Uploads |->
                        IF v = u THEN [state |-> "OPEN", late |-> FALSE]
                        ELSE IF v \in request[c].expired
                        THEN [upload[v] EXCEPT !.state = "EXPIRED"] ELSE upload[v]]
        /\ Recorded(c, u)
    /\ Answered(c)
    /\ UNCHANGED <<local, draft, row, object, original, job, work, named, events>>

\* write_bytes never overwrites an object below uploads/ or blobs/.
Written(old, new) == [n \in Parts |-> IF old[n] = Nothing THEN new[n] ELSE old[n]]

\* The object is stored before the row is committed, and stays if the row is
\* not: another request wrote it first, or the transaction fails.
StorePart(c) ==
    LET u == request[c].upload IN
    /\ request[c].op = "part"
    /\ object' = [object EXCEPT ![u] = Written(@, request[c].part)]
    /\ \/ /\ \A n \in Parts : request[c].part[n] # Nothing =>
                /\ object'[u][n] = request[c].part[n]
                /\ row[u][n] = Nothing
          /\ row' = [row EXCEPT ![u] = Written(@, request[c].part)]
          /\ UNCHANGED events
       \/ UNCHANGED row /\ Event
       \/ /\ \E n \in Parts : /\ request[c].part[n] # Nothing
                              /\ \/ object'[u][n] # request[c].part[n]
                                 \/ row[u][n] # Nothing
          /\ UNCHANGED <<row, events>>
    /\ Answered(c)
    /\ UNCHANGED <<local, draft, upload, original, job, work, record, named>>

\* The session is sealed and its job queued, whatever has become of it since.
CommitComplete(c) ==
    /\ request[c].op = "complete"
    /\ \E j \in Jobs :
        /\ job[j].state = "ABSENT"
        /\ job' = [job EXCEPT ![j] = [NoJob EXCEPT !.state = "QUEUED",
                                          !.upload = request[c].upload]]
    /\ upload' = [upload EXCEPT ![request[c].upload].state = "SEALED"]
    /\ named' = [named EXCEPT ![request[c].upload] = request[c].part]
    /\ Recorded(c, request[c].upload)
    /\ Answered(c)
    /\ UNCHANGED <<local, draft, row, object, original, work, events>>

CommitCancel(c) ==
    /\ request[c].op = "cancel"
    /\ upload' = [upload EXCEPT ![request[c].upload].state = "CANCELLED"]
    /\ Recorded(c, request[c].upload)
    /\ Answered(c)
    /\ UNCHANGED <<local, draft, row, object, original, job, work, named, events>>

\* Slip: the revision is not compared.
UnmovedBlind(c) == TRUE

\* bump refuses a draft that changed since it was read.
Unmoved(c) == draft.revision = request[c].revision /\ draft.revision < MaxRevision

\* An edited text is no longer the rendering of an upload; an edit of other
\* fields keeps the text.
CommitEdit(c) ==
    /\ request[c].op = "edit" /\ Unmoved(c)
    /\ draft' \in {[draft EXCEPT !.revision = @ + 1],
                   [draft EXCEPT !.revision = @ + 1, !.text = "typed",
                        !.origin = IF @ = "UPLOAD" THEN "HUMAN" ELSE @]}
    /\ Answered(c)
    /\ UNCHANGED <<local, upload, row, object, original, job, work, record, named, events>>

\* Submitted, or confirmed by an administrator.
CommitSubmit(c) ==
    /\ request[c].op = "submit" /\ Unmoved(c)
    /\ draft' = [draft EXCEPT !.revision = @ + 1, !.state = "FROZEN"]
    /\ Answered(c)
    /\ UNCHANGED <<local, upload, row, object, original, job, work, record, named, events>>

\* A conflict, a failure of the database, or a client that is gone.
Abandon(c) ==
    /\ request[c].op # "none" /\ Answered(c)
    /\ UNCHANGED <<local, draft, upload, row, object, original, job, work,
                   record, named, events>>

\* 24 hours after a session was opened.
Expire(u) ==
    /\ upload[u].state # "ABSENT" /\ ~upload[u].late /\ Event
    /\ upload' = [upload EXCEPT ![u].late = TRUE]
    /\ UNCHANGED <<local, draft, row, object, original, job, work, request,
                   record, named>>

-------------------------------------------------------------------------------
(* The job (FencedJobs has the engine) and its attempts.                   *)

Others == UNCHANGED <<local, upload, row, object, request, record, named>>

Becomes(j, q) == job' = [job EXCEPT ![j] = q]

Claim(j) ==
    /\ job[j].state = "QUEUED" \/ (job[j].state = "RUNNING" /\ ~job[j].held)
    /\ DatabaseFree /\ job[j].attempt < MaxAttempts
    /\ Becomes(j, [job[j] EXCEPT !.state = "RUNNING", !.held = TRUE,
                                 !.attempt = job[j].attempt + 1])
    /\ work' = [work EXCEPT ![<<j, job[j].attempt + 1>>] = [Idle EXCEPT !.at = "begun"]]
    /\ Others /\ UNCHANGED <<draft, original, events>>

\* A stall, or time after a crash.
LeaseEnds(j) ==
    /\ job[j].state = "RUNNING" /\ job[j].held
    /\ IF work[<<j, job[j].attempt>>].at = "idle" THEN UNCHANGED events ELSE Event
    /\ Becomes(j, [job[j] EXCEPT !.held = FALSE])
    /\ Others /\ UNCHANGED <<draft, original, work>>

Crash(w) ==
    /\ work[w].at # "idle" /\ Event
    /\ work' = [work EXCEPT ![w] = Idle]
    /\ Others /\ UNCHANGED <<draft, original, job>>

CancelJob(j) ==
    /\ job[j].state \in {"QUEUED", "RUNNING"} /\ ~job[j].cancel
    /\ DatabaseFree
    /\ Becomes(j, IF job[j].state = "QUEUED" THEN [job[j] EXCEPT !.state = "CANCELLED"]
                  ELSE [job[j] EXCEPT !.cancel = TRUE])
    /\ Others /\ UNCHANGED <<draft, original, work, events>>

RetryJob(j) ==
    /\ job[j].state \in {"FAILED", "CANCELLED"} /\ DatabaseFree /\ Event
    /\ Becomes(j, [job[j] EXCEPT !.state = "QUEUED", !.cancel = FALSE,
                                 !.held = FALSE, !.code = "none"])
    /\ Others /\ UNCHANGED <<draft, original, work>>

Owns(w) == /\ job[w[1]].state = "RUNNING" /\ job[w[1]].attempt = w[2]
           /\ job[w[1]].held

Fenced(w) == Owns(w) /\ ~job[w[1]].cancel

Session(w) == job[w[1]].upload

Goes(w, q) == /\ work' = [work EXCEPT ![w] = q]
              /\ Others /\ UNCHANGED <<draft, original, job>>

Raises(w, code) == Goes(w, [work[w] EXCEPT !.at = "failing", !.code = code])

\* The reads before the work: no fence, no lock.
Fit == draft.state = "DRAFT" /\ draft.blob = Nothing /\ draft.text = "none"

ReadDraft(w) ==
    /\ work[w].at = "begun"
    /\ IF upload[Session(w)].state # "SEALED" THEN Raises(w, "ERROR")
       ELSE IF ~Fit THEN Raises(w, "IMMUTABLE")
       ELSE Goes(w, [work[w] EXCEPT !.at = "read", !.revision = draft.revision])
    /\ UNCHANGED events

\* The objects are compared with the rows, joined, and put into quarantine.
ReadParts(w) ==
    /\ work[w].at = "read"
    /\ IF object[Session(w)] = row[Session(w)] /\ row[Session(w)] \in Data
       THEN Goes(w, [work[w] EXCEPT !.at = "copied", !.data = object[Session(w)]])
       ELSE Raises(w, "ERROR")
    /\ UNCHANGED events

\* The checkpoints SCANNING and PARSING, the scan, and the parser, which looks
\* after its job while it runs.
ScanAndParse(w) ==
    /\ work[w].at = "copied" /\ Fenced(w) /\ DatabaseFree
    /\ Goes(w, [work[w] EXCEPT !.at = "parsed"]) /\ UNCHANGED events

\* The original is stored under the identifier that the upload determines.
StoreOriginal(w) ==
    /\ work[w].at = "parsed"
    /\ IF original[Session(w)] \in {Nothing, work[w].data}
       THEN /\ original' = [original EXCEPT ![Session(w)] = work[w].data]
            /\ work' = [work EXCEPT ![w].at = "stored"]
            /\ Others /\ UNCHANGED <<draft, job>>
       ELSE Raises(w, "ERROR")
    /\ UNCHANGED events

\* Slip: the draft is not read again.
UneditedOnce(w) == TRUE

\* What was read before the scan still holds.
Unedited(w) == /\ upload[Session(w)].state = "SEALED"
               /\ draft.revision = work[w].revision /\ Fit

Bind(w) ==
    /\ work[w].at = "stored" /\ Fenced(w) /\ DatabaseFree
    /\ Unedited(w) /\ draft.revision < MaxRevision
    /\ draft' = [draft EXCEPT !.blob = Session(w), !.origin = "UPLOAD",
                              !.text = "parsed", !.revision = @ + 1]
    /\ Becomes(w[1], [job[w[1]] EXCEPT !.state = "SUCCEEDED", !.held = FALSE])
    /\ work' = [work EXCEPT ![w] = Idle]
    /\ Others /\ UNCHANGED <<original, events>>

Refuse(w) ==
    /\ work[w].at = "stored" /\ Fenced(w) /\ DatabaseFree /\ ~Unedited(w)
    /\ Raises(w, "ERROR") /\ UNCHANGED events

\* The store, the database or the scanner fails, for a while or for good, or
\* the scanner rejects the file, or it cannot be parsed.
Break(w) ==
    /\ work[w].at \in {"begun", "read", "copied", "parsed", "stored"}
    /\ \/ Raises(w, "ERROR") /\ UNCHANGED events
       \/ Raises(w, "TRANSIENT") /\ Event

\* A checkpoint, or the poll of the parser, notices.
Notices(w) ==
    /\ work[w].at \in {"copied", "parsed", "stored"} /\ ~Fenced(w)
    /\ Raises(w, "ERROR") /\ UNCHANGED events

\* _fail of an attempt that is not the present one changes nothing.
Fail(w) ==
    /\ work[w].at = "failing" /\ DatabaseFree
    /\ work' = [work EXCEPT ![w] = Idle]
    /\ IF Owns(w)
       THEN Becomes(w[1], [job[w[1]] EXCEPT !.held = FALSE,
                !.state = IF job[w[1]].cancel THEN "CANCELLED" ELSE
                          IF work[w].code = "TRANSIENT" /\ w[2] < MaxAttempts
                          THEN "QUEUED" ELSE "FAILED",
                !.code = IF work[w].code = "TRANSIENT" THEN "ERROR" ELSE work[w].code])
       ELSE UNCHANGED job
    /\ Others /\ UNCHANGED <<draft, original, events>>

-------------------------------------------------------------------------------
ClientStep(c) ==
    \/ \E k \in Keys : \/ ReadCreate(c, k)
                       \/ \E u \in Uploads : ReadCancel(c, k, u)
                       \/ \E u \in Uploads, data \in Data : ReadComplete(c, k, u, data)
    \/ \E u \in Uploads, n \in Parts, b \in Bytes : ReadPart(c, u, n, b)
    \/ ReadEdit(c) \/ ReadSubmit(c)
    \/ CommitCreate(c) \/ StorePart(c) \/ CommitComplete(c) \/ CommitCancel(c)
    \/ CommitEdit(c) \/ CommitSubmit(c) \/ Abandon(c)

ThreadStep(w) ==
    \/ ReadDraft(w) \/ ReadParts(w) \/ ScanAndParse(w) \/ StoreOriginal(w)
    \/ Bind(w) \/ Refuse(w) \/ Break(w) \/ Notices(w) \/ Fail(w)
    \/ Crash(w)

Next ==
    \/ \E c \in Clients : ClientStep(c)
    \/ \E u \in Uploads : Expire(u)
    \/ \E j \in Jobs : Claim(j) \/ LeaseEnds(j) \/ CancelJob(j) \/ RetryJob(j)
    \/ \E w \in Threads : ThreadStep(w)

Spec == Init /\ [][Next]_vars

-------------------------------------------------------------------------------
(* Properties.                                                             *)

\* An original that the draft has is the one whose parts the sealing request
\* named, whatever parts were sent, stored without a row, or sent again, and
\* whichever attempt bound it (complete_upload, _scan_parse, write_bytes).
OriginalAsNamed ==
    draft.blob \in Uploads => /\ named[draft.blob] \in Data
                              /\ original[draft.blob] = named[draft.blob]

\* A bound original is never replaced, a text that a person saved is never
\* overwritten, and a submitted version never changes, although the scan works
\* for minutes on what it read before (_scan_parse, its last transaction).
PeopleFirst ==
    [][/\ draft.blob # Nothing => draft'.blob = draft.blob
       /\ draft.text = "typed" => draft'.text = "typed"
       /\ draft.state = "FROZEN" => draft' = draft]_vars

\* On SQLite a draft has one session at most that is open or sealed, so that
\* two people never upload two originals for it (create_upload).
OneSession ==
    local => \A u, v \in Uploads :
        /\ upload[u].state \in {"OPEN", "SEALED"} /\ upload[v].state = "SEALED" => u = v
        /\ upload[u].state = "OPEN" /\ upload[v].state = "OPEN" => u = v

\* On SQLite a sealed session has one scan, a session that is not sealed has
\* none: neither a cancellation nor an expiry undoes what was promised, and
\* nothing is scanned twice (upload_access, complete_upload).
SealedHasScan ==
    local => \A u \in Uploads :
        LET scans == {j \in Jobs : job[j].upload = u}
        IN  /\ upload[u].state = "SEALED" => \E j \in Jobs : scans = {j}
            /\ upload[u].state # "SEALED" => scans = {}

\* However often a request is sent with its key, at both isolation levels, it
\* is carried out once (begin_idempotency).
OncePerKey ==
    \A a, b \in record : SameRoute(a, b) => a = b

\* "Replace an original by uploading a new version" (docs/user-guide.md): the
\* scan of a session that create_upload allowed for a draft does not refuse
\* the draft if nobody has edited it and nothing was bound since.
ReplacementAccepted ==
    \A j \in Jobs : job[j].code = "IMMUTABLE" => draft.revision > 1
===============================================================================
