----------------------------- MODULE UploadsProofs -----------------------------
(***************************************************************************)
(* Theorems about Uploads, for every value of its constants.  UploadsInv   *)
(* ties what requests have read to the rows and objects of the session,    *)
(* and what attempts carry to what the sealing request named: rows and     *)
(* objects that agree on every part can no longer change.  On SQLite,      *)
(* where requests run one at a time, Single keeps sessions and scans apart.*)
(***************************************************************************)
EXTENDS Uploads, TLAPS

\* What a request carries, and what its reads still say about the tables.
Keyed(r) ==
    /\ r.op \in {"create", "complete", "cancel"} => r.key \in Keys
    /\ r.op \in {"part", "complete", "cancel"} => r.upload \in Uploads
    /\ r.op \notin {"create", "complete", "cancel"} => r.key = Nothing

Seen(r) ==
    /\ r.op = "complete" => /\ r.part \in Data
                            /\ row[r.upload] = r.part /\ object[r.upload] = r.part
    /\ r.op \in {"edit", "submit"} =>
        /\ r.revision <= draft.revision
        /\ r.revision = draft.revision => draft.state = "DRAFT"

Honest == \A c \in Clients : Keyed(request[c]) /\ Seen(request[c])

\* What was named stays in the rows and in the store.
Sealed == \A u \in Uploads :
    named[u] # Nothing => row[u] = named[u] /\ object[u] = named[u]

Stored == \A u \in Uploads : original[u] = Nothing \/ original[u] = named[u]

Scans == \A j \in Jobs : job[j].state # "ABSENT" =>
    job[j].upload \in Uploads /\ named[job[j].upload] \in Data

Carried == \A w \in Threads :
    /\ work[w].at # "idle" => job[w[1]].state # "ABSENT"
    /\ work[w].at \in {"copied", "parsed", "stored"} => work[w].data = named[Session(w)]
    /\ work[w].at = "stored" => original[Session(w)] = work[w].data

\* One request at a time is at a route and key, and none at one that is done.
Routes ==
    /\ OncePerKey
    /\ \A c, d \in Clients : request[c].key # Nothing /\ SameRoute(request[c], request[d]) => c = d
    /\ \A c \in Clients : \A a \in record : ~SameRoute(a, request[c])

UploadsInv ==
    /\ TypeOK /\ Honest /\ Sealed /\ Stored /\ Scans /\ Carried /\ Routes
    /\ OriginalAsNamed

LEMMA Constants ==
    /\ NoRequest \in Request /\ Keyed(NoRequest) /\ NoRequest.op = "none"
    /\ NoRequest.key = Nothing
    /\ NoJob \in Job /\ NoJob.state = "ABSENT" /\ Idle \in Work /\ Idle.at = "idle"
    /\ Nothing \notin Uploads /\ Nothing \notin Keys /\ Nothing \notin Bytes
    /\ Nothing \notin Data /\ Copied \notin Uploads /\ Copied # Nothing
    /\ MaxAttempts \in Nat /\ MaxRevision \in Nat \ {0} /\ MaxEvents \in Nat
BY NothingAssumption, BoundsAssumption
DEF NoRequest, NoPart, Request, Keyed, NoJob, Job, Idle, Work, Data

LEMMA ThreadJobs == \A w \in Threads : w[1] \in Jobs /\ w = <<w[1], w[2]>>
BY DEF Threads

LEMMA InitHolds == Init => UploadsInv
<1> SUFFICES ASSUME Init PROVE UploadsInv
  OBVIOUS
<1>1. TypeOK
  <2>1. draft \in Draft
    BY Constants DEF Init, Drafts, Draft
  <2>2. NoPart \in [Parts -> Bytes \cup {Nothing}]
    BY DEF NoPart
  <2> QED
    BY Constants, <2>1, <2>2 DEF Init, TypeOK, Upload, Record
<1>2. Honest
  BY Constants DEF Init, Honest, Seen
<1>3. Sealed /\ Stored /\ Scans /\ Carried /\ Routes
  BY Constants, ThreadJobs DEF Init, Sealed, Stored, Scans, Carried, Routes, OncePerKey, SameRoute
<1>4. OriginalAsNamed
  BY Constants DEF Init, Drafts, OriginalAsNamed
<1> QED
  BY <1>1, <1>2, <1>3, <1>4 DEF UploadsInv

-------------------------------------------------------------------------------
(* Reads.                                                                  *)

LEMMA ReadsKeeps ==
    ASSUME UploadsInv, NEW c \in Clients, NEW r \in Request, Reads(c, r),
           Keyed(r), Seen(r), r.op # "none"
    PROVE  UploadsInv'
<1> USE DEF UploadsInv
<1>1. TypeOK'
  BY DEF TypeOK, Reads
<1>2. \A d \in Clients : request'[d] = IF d = c THEN r ELSE request[d]
  BY DEF TypeOK, Reads
<1>3. Honest'
  BY <1>2 DEF Honest, Seen, Reads
<1>4. Sealed' /\ Stored' /\ Scans' /\ OriginalAsNamed'
  BY DEF Sealed, Stored, Scans, OriginalAsNamed, Reads
<1>5. Carried'
  BY DEF Carried, Session, Reads
<1>6. OncePerKey'
  BY DEF Routes, OncePerKey, Reads
<1>7. \A d \in Clients : \A a \in record : ~SameRoute(a, request'[d])
  <2> TAKE d \in Clients
  <2> TAKE a \in record
  <2>1. a \in Record /\ a.key \in Keys
    BY DEF TypeOK, Record
  <2>2. CASE d # c
    BY <2>2, <1>2 DEF Routes
  <2>3. CASE d = c /\ r.key = Nothing
    BY <2>1, <2>3, <1>2, Constants DEF SameRoute
  <2>4. CASE d = c /\ r.key # Nothing
    BY <2>4, <1>2 DEF Reads, Fresh
  <2> QED
    BY <2>2, <2>3, <2>4
<1>8. \A d, e \in Clients :
        request'[d].key # Nothing /\ SameRoute(request'[d], request'[e]) => d = e
  <2> SUFFICES ASSUME NEW d \in Clients, NEW e \in Clients, d # e,
                      request'[d].key # Nothing, SameRoute(request'[d], request'[e])
               PROVE  FALSE
    OBVIOUS
  <2>1. CASE d # c /\ e # c
    BY <2>1, <1>2 DEF Routes
  <2>2. CASE d = c
    BY <2>2, <1>2 DEF Reads, Fresh, SameRoute
  <2>3. CASE e = c
    BY <2>3, <1>2 DEF Reads, Fresh, SameRoute
  <2> QED
    BY <2>1, <2>2, <2>3
<1> QED
  BY <1>1, <1>3, <1>4, <1>5, <1>6, <1>7, <1>8 DEF Routes, Reads

LEMMA ReadersKeep ==
    ASSUME UploadsInv, NEW c \in Clients, NEW k \in Keys, NEW u \in Uploads
    PROVE  /\ ReadCreate(c, k) => UploadsInv'
           /\ ReadCancel(c, k, u) => UploadsInv'
           /\ \A data \in Data : ReadComplete(c, k, u, data) => UploadsInv'
<1>1. ASSUME ReadCreate(c, k) PROVE UploadsInv'
  <2> DEFINE r == [NoRequest EXCEPT !.op = "create", !.key = k,
                     !.expired = {v \in Uploads : upload[v].state = "OPEN"}]
  <2>1. r \in Request /\ Keyed(r) /\ Seen(r) /\ r.op # "none"
    BY Constants DEF Request, Keyed, Seen
  <2> QED
    BY <1>1, <2>1, ReadsKeeps DEF ReadCreate
<1>2. ASSUME ReadCancel(c, k, u) PROVE UploadsInv'
  <2> DEFINE r == [NoRequest EXCEPT !.op = "cancel", !.key = k, !.upload = u]
  <2>1. r \in Request /\ Keyed(r) /\ Seen(r) /\ r.op # "none"
    BY Constants DEF Request, Keyed, Seen
  <2> QED
    BY <1>2, <2>1, ReadsKeeps DEF ReadCancel
<1>3. ASSUME NEW data \in Data, ReadComplete(c, k, u, data) PROVE UploadsInv'
  <2> DEFINE r == [NoRequest EXCEPT !.op = "complete", !.key = k, !.upload = u, !.part = data]
  <2>1. data \in [Parts -> Bytes \cup {Nothing}] /\ row[u] = data /\ object[u] = data
    BY <1>3 DEF Data, ReadComplete, Agrees
  <2>2. r \in Request /\ Keyed(r) /\ r.op # "none"
    BY <2>1, Constants DEF Request, Keyed
  <2>3. Seen(r)
    BY <2>1, Constants DEF Seen, Request
  <2> QED
    BY <1>3, <2>2, <2>3, ReadsKeeps DEF ReadComplete
<1> QED
  BY <1>1, <1>2, <1>3

LEMMA OtherReadersKeep ==
    ASSUME UploadsInv, NEW c \in Clients
    PROVE  /\ \A u \in Uploads, n \in Parts, b \in Bytes : ReadPart(c, u, n, b) => UploadsInv'
           /\ ReadEdit(c) => UploadsInv'
           /\ ReadSubmit(c) => UploadsInv'
<1>1. draft.revision \in 0..MaxRevision /\ draft.revision <= draft.revision
  BY Constants DEF UploadsInv, TypeOK, Draft
<1>2. ASSUME NEW u \in Uploads, NEW n \in Parts, NEW b \in Bytes, ReadPart(c, u, n, b)
      PROVE  UploadsInv'
  <2> DEFINE r == [NoRequest EXCEPT !.op = "part", !.upload = u,
                                    !.part = [NoPart EXCEPT ![n] = b]]
  <2>1. [NoPart EXCEPT ![n] = b] \in [Parts -> Bytes \cup {Nothing}]
    BY DEF NoPart
  <2>2. r \in Request /\ Keyed(r) /\ Seen(r) /\ r.op # "none"
    BY <2>1, Constants DEF Request, Keyed, Seen
  <2> QED
    BY <1>2, <2>2, ReadsKeeps DEF ReadPart
<1>3. ASSUME ReadEdit(c) PROVE UploadsInv'
  <2> DEFINE r == [NoRequest EXCEPT !.op = "edit", !.revision = draft.revision]
  <2>1. r \in Request /\ Keyed(r) /\ r.op # "none" /\ r.op # "complete"
    BY <1>1, Constants DEF Request, Keyed
  <2>2. Seen(r)
    BY <1>1, <1>3, <2>1, Constants DEF Seen, ReadEdit, Request
  <2> QED
    BY <1>3, <2>1, <2>2, ReadsKeeps DEF ReadEdit
<1>4. ASSUME ReadSubmit(c) PROVE UploadsInv'
  <2> DEFINE r == [NoRequest EXCEPT !.op = "submit", !.revision = draft.revision]
  <2>1. r \in Request /\ Keyed(r) /\ r.op # "none" /\ r.op # "complete"
    BY <1>1, Constants DEF Request, Keyed
  <2>2. Seen(r)
    BY <1>1, <1>4, <2>1, Constants DEF Seen, ReadSubmit, Request
  <2> QED
    BY <1>4, <2>1, <2>2, ReadsKeeps DEF ReadSubmit
<1> QED
  BY <1>2, <1>3, <1>4

-------------------------------------------------------------------------------
(* Commits.                                                                *)

\* After a commit of c the slot is empty; the reads of the others still hold
\* if the rows, objects and draft that they rest on do.
LEMMA SlotsKept ==
    ASSUME UploadsInv, NEW c \in Clients, Answered(c),
           \A u \in Uploads : named[u] # Nothing \/ row[u] \in Data => row'[u] = row[u],
           \A u \in Uploads : object[u] \in Data => object'[u] = object[u],
           draft' = draft \/ draft'.revision > draft.revision,
           draft'.revision \in Nat
    PROVE  /\ request' \in [Clients -> Request] /\ Honest'
           /\ \A d \in Clients : request'[d] = IF d = c THEN NoRequest ELSE request[d]
<1> USE DEF UploadsInv
<1>1. \A d \in Clients : request'[d] = IF d = c THEN NoRequest ELSE request[d]
  BY DEF TypeOK, Answered
<1>2. request' \in [Clients -> Request]
  BY Constants DEF TypeOK, Answered
<1>3. \A d \in Clients : Keyed(request'[d])
  BY <1>1, Constants DEF Honest
<1>4. ASSUME NEW d \in Clients PROVE Seen(request[d])'
  <2>1. CASE d = c
    BY <2>1, <1>1, Constants DEF Seen
  <2>2. CASE d # c
    <3>1. request'[d] = request[d] /\ Seen(request[d]) /\ Keyed(request[d])
      BY <2>2, <1>1 DEF Honest
    <3>2. request[d] \in Request /\ request[d].revision \in Nat /\ draft.revision \in Nat
      BY Constants DEF TypeOK, Request, Draft
    <3>3. request[d].op = "complete" =>
            /\ request[d].part \in Data
            /\ row'[request[d].upload] = request[d].part
            /\ object'[request[d].upload] = request[d].part
      BY <3>1 DEF Seen, Keyed
    <3>4. request[d].op \in {"edit", "submit"} =>
            /\ request[d].revision <= draft'.revision
            /\ request[d].revision = draft'.revision => draft'.state = "DRAFT"
      BY <3>1, <3>2 DEF Seen
    <3> QED
      BY <3>1, <3>3, <3>4 DEF Seen
  <2> QED
    BY <2>1, <2>2
<1> QED
  BY <1>1, <1>2, <1>3, <1>4 DEF Honest

LEMMA RoutesKept ==
    ASSUME UploadsInv, NEW c \in Clients,
           \A d \in Clients : request'[d] = IF d = c THEN NoRequest ELSE request[d],
           \/ UNCHANGED record
           \/ /\ request[c].op \in {"create", "complete", "cancel"}
              /\ \E u \in Uploads : Recorded(c, u)
    PROVE  Routes' /\ record' \in SUBSET Record
<1> USE DEF UploadsInv
<1>1. Keyed(NoRequest) /\ NoRequest.op = "none" /\ NoRequest.key = Nothing
  BY Constants
<1>2. \A a \in record : a \in Record /\ a.key \in Keys /\ a.op # "none"
  BY DEF TypeOK, Record
<1>3. CASE UNCHANGED record
  <2>1. OncePerKey'
    BY <1>3 DEF Routes, OncePerKey
  <2>2. \A d \in Clients : \A a \in record : ~SameRoute(a, request'[d])
    BY <1>1, <1>2 DEF Routes, SameRoute
  <2>3. \A d, e \in Clients :
          request'[d].key # Nothing /\ SameRoute(request'[d], request'[e]) => d = e
    BY <1>1 DEF Routes, SameRoute
  <2> QED
    BY <1>3, <2>1, <2>2, <2>3 DEF Routes, TypeOK
<1>4. ASSUME NEW u \in Uploads, Recorded(c, u),
             request[c].op \in {"create", "complete", "cancel"}
      PROVE  Routes' /\ record' \in SUBSET Record
  <2> DEFINE r == [op |-> request[c].op, upload |-> request[c].upload,
                   key |-> request[c].key, made |-> u]
  <2>1. request[c] \in Request /\ Keyed(request[c])
    BY DEF TypeOK, Honest
  <2>2. r \in Record /\ r.key # Nothing /\ r.key \in Keys
    BY <1>4, <2>1, Constants DEF Keyed, Request, Record
  <2>3. record' = record \cup {r}
    BY <1>4 DEF Recorded
  <2>4. r.op = request[c].op /\ r.upload = request[c].upload /\ r.key = request[c].key
    OBVIOUS
  <2> HIDE DEF r
  <2>5. \A a \in record : ~SameRoute(a, r) /\ ~SameRoute(r, a)
    BY <2>4 DEF Routes, SameRoute
  <2>6. OncePerKey'
    BY <2>3, <2>5 DEF Routes, OncePerKey
  <2>7. \A d \in Clients : \A a \in record' : ~SameRoute(a, request'[d])
    <3>1. \A d \in Clients : d # c => ~SameRoute(r, request[d])
      BY <2>2, <2>4 DEF Routes, SameRoute
    <3>2. \A d \in Clients : \A a \in record : ~SameRoute(a, request'[d])
      BY <1>1, <1>2 DEF Routes, SameRoute
    <3>3. ~SameRoute(r, NoRequest)
      BY <1>1, <2>2 DEF SameRoute
    <3> QED
      BY <2>3, <3>1, <3>2, <3>3
  <2>8. \A d, e \in Clients :
          request'[d].key # Nothing /\ SameRoute(request'[d], request'[e]) => d = e
    BY <1>1 DEF Routes, SameRoute
  <2> QED
    BY <2>2, <2>3, <2>6, <2>7, <2>8 DEF Routes, TypeOK
<1> QED
  BY <1>3, <1>4

\* Commits of rows of uploads and records, and requests that end without one.
LEMMA SessionsKeep ==
    ASSUME UploadsInv, NEW c \in Clients, Answered(c),
           UNCHANGED <<local, draft, row, object, original, job, work, named, events>>,
           upload' \in [Uploads -> Upload],
           \/ UNCHANGED record
           \/ /\ request[c].op \in {"create", "complete", "cancel"}
              /\ \E u \in Uploads : Recorded(c, u)
    PROVE  UploadsInv'
<1> USE DEF UploadsInv
<1>1. draft'.revision \in Nat
  BY Constants DEF TypeOK, Draft
<1>2. /\ request' \in [Clients -> Request] /\ Honest'
      /\ \A d \in Clients : request'[d] = IF d = c THEN NoRequest ELSE request[d]
  BY <1>1, SlotsKept
<1>3. Routes' /\ record' \in SUBSET Record
  BY <1>2, RoutesKept
<1>4. TypeOK'
  BY <1>2, <1>3 DEF TypeOK
<1>5. Sealed' /\ Stored' /\ Scans' /\ Carried' /\ OriginalAsNamed'
  BY DEF Sealed, Stored, Scans, Carried, Session, OriginalAsNamed
<1> QED
  BY <1>2, <1>3, <1>4, <1>5

LEMMA CreateKeeps ==
    ASSUME UploadsInv, NEW c \in Clients, CommitCreate(c)
    PROVE  UploadsInv'
<1>1. PICK u \in Uploads :
        /\ upload' = [v \in Uploads |->
                        IF v = u THEN [state |-> "OPEN", late |-> FALSE]
                        ELSE IF v \in request[c].expired
                        THEN [upload[v] EXCEPT !.state = "EXPIRED"] ELSE upload[v]]
        /\ Recorded(c, u)
  BY DEF CommitCreate
<1>2. \A v \in Uploads : upload[v] \in Upload
  BY DEF UploadsInv, TypeOK
<1>3. \A v \in Uploads : [upload[v] EXCEPT !.state = "EXPIRED"] \in Upload
  BY <1>2 DEF Upload
<1>4. [state |-> "OPEN", late |-> FALSE] \in Upload
  BY DEF Upload
<1>5. upload' \in [Uploads -> Upload]
  BY <1>1, <1>2, <1>3, <1>4
<1> QED
  BY <1>1, <1>5, SessionsKeep DEF CommitCreate

LEMMA CancelKeeps ==
    ASSUME UploadsInv, NEW c \in Clients, CommitCancel(c)
    PROVE  UploadsInv'
<1>1. request[c].upload \in Uploads
  BY DEF UploadsInv, Honest, Keyed, CommitCancel
<1>2. upload' \in [Uploads -> Upload]
  BY <1>1 DEF UploadsInv, TypeOK, Upload, CommitCancel
<1> QED
  BY <1>1, <1>2, SessionsKeep DEF CommitCancel

LEMMA AbandonKeeps ==
    ASSUME UploadsInv, NEW c \in Clients, Abandon(c)
    PROVE  UploadsInv'
<1>1. upload' \in [Uploads -> Upload]
  BY DEF UploadsInv, TypeOK, Abandon
<1> QED
  BY <1>1, SessionsKeep DEF Abandon

\* Rows and objects that are complete are not written again.
LEMMA WrittenKeeps ==
    ASSUME NEW old \in [Parts -> Bytes \cup {Nothing}],
           NEW new \in [Parts -> Bytes \cup {Nothing}]
    PROVE  /\ Written(old, new) \in [Parts -> Bytes \cup {Nothing}]
           /\ old \in Data => Written(old, new) = old
BY Constants DEF Written, Data

LEMMA StorePartKeeps ==
    ASSUME UploadsInv, NEW c \in Clients, StorePart(c)
    PROVE  UploadsInv'
<1> USE DEF UploadsInv
<1> DEFINE u == request[c].upload
           new == request[c].part
<1>1. request[c] \in Request /\ Keyed(request[c])
  BY DEF TypeOK, Honest
<1>2. u \in Uploads /\ new \in [Parts -> Bytes \cup {Nothing}]
  BY <1>1 DEF Keyed, StorePart, Request
<1>3. /\ row[u] \in [Parts -> Bytes \cup {Nothing}]
      /\ object[u] \in [Parts -> Bytes \cup {Nothing}]
  BY <1>2 DEF TypeOK
<1>4. object' = [object EXCEPT ![u] = Written(object[u], new)]
  BY DEF StorePart
<1>5. row' = row \/ row' = [row EXCEPT ![u] = Written(row[u], new)]
  BY DEF StorePart
<1>6. /\ Answered(c)
      /\ UNCHANGED <<local, draft, upload, original, job, work, record, named>>
  BY DEF StorePart
<1>7. events' \in Nat
  BY DEF StorePart, Event, TypeOK
<1> HIDE DEF u, new
<1>8. /\ \A v \in Uploads : row[v] \in Data => row'[v] = row[v]
      /\ row' \in [Uploads -> [Parts -> Bytes \cup {Nothing}]]
  BY <1>2, <1>3, <1>5, WrittenKeeps DEF TypeOK
<1>9. /\ \A v \in Uploads : object[v] \in Data => object'[v] = object[v]
      /\ object' \in [Uploads -> [Parts -> Bytes \cup {Nothing}]]
  BY <1>2, <1>3, <1>4, WrittenKeeps DEF TypeOK
<1>10. \A v \in Uploads : named[v] # Nothing => row[v] \in Data /\ object[v] \in Data
  BY DEF Sealed, TypeOK
<1>11. draft' = draft /\ draft'.revision \in Nat
  BY <1>6, Constants DEF TypeOK, Draft
<1>12. /\ request' \in [Clients -> Request] /\ Honest'
       /\ \A d \in Clients : request'[d] = IF d = c THEN NoRequest ELSE request[d]
  BY <1>6, <1>8, <1>9, <1>10, <1>11, SlotsKept
<1>13. Routes' /\ record' \in SUBSET Record
  BY <1>6, <1>12, RoutesKept
<1>14. TypeOK'
  BY <1>6, <1>7, <1>8, <1>9, <1>12, <1>13 DEF TypeOK
<1>15. Sealed'
  BY <1>6, <1>8, <1>9, <1>10 DEF Sealed
<1>16. Stored' /\ Scans' /\ Carried' /\ OriginalAsNamed'
  BY <1>6 DEF Stored, Scans, Carried, Session, OriginalAsNamed
<1> QED
  BY <1>12, <1>13, <1>14, <1>15, <1>16

LEMMA CompleteKeeps ==
    ASSUME UploadsInv, NEW c \in Clients, CommitComplete(c)
    PROVE  UploadsInv'
<1> USE DEF UploadsInv
<1> DEFINE u == request[c].upload
           data == request[c].part
<1>1. request[c] \in Request /\ Keyed(request[c]) /\ Seen(request[c])
  BY DEF TypeOK, Honest
<1>2. /\ u \in Uploads /\ data \in Data /\ row[u] = data /\ object[u] = data
  BY <1>1 DEF Keyed, Seen, CommitComplete
<1>3. PICK j \in Jobs :
        /\ job[j].state = "ABSENT"
        /\ job' = [job EXCEPT ![j] = [NoJob EXCEPT !.state = "QUEUED", !.upload = u]]
  BY DEF CommitComplete
<1>4. /\ Answered(c) /\ Recorded(c, u)
      /\ UNCHANGED <<local, draft, row, object, original, work, events>>
      /\ upload' = [upload EXCEPT ![u].state = "SEALED"]
      /\ named' = [named EXCEPT ![u] = data]
      /\ request[c].op = "complete"
  BY DEF CommitComplete
<1> HIDE DEF u, data
<1>5. draft'.revision \in Nat
  BY <1>4, Constants DEF TypeOK, Draft
<1>6. /\ request' \in [Clients -> Request] /\ Honest'
      /\ \A d \in Clients : request'[d] = IF d = c THEN NoRequest ELSE request[d]
  BY <1>4, <1>5, SlotsKept
<1>7. Routes' /\ record' \in SUBSET Record
  BY <1>2, <1>4, <1>6, RoutesKept
<1>8. named[u] = Nothing \/ named[u] = data
  BY <1>2 DEF Sealed
<1>9. \A v \in Uploads : named[v] # Nothing => named'[v] = named[v]
  BY <1>2, <1>4, <1>8 DEF TypeOK
<1>10. named'[u] = data /\ \A v \in Uploads : v # u => named'[v] = named[v]
  BY <1>2, <1>4 DEF TypeOK
<1>11. [NoJob EXCEPT !.state = "QUEUED", !.upload = u] \in Job
  BY <1>2, Constants DEF Job
<1>12. upload' \in [Uploads -> Upload]
  BY <1>2, <1>4 DEF TypeOK, Upload
<1>13. TypeOK'
  BY <1>2, <1>3, <1>4, <1>6, <1>7, <1>11, <1>12 DEF TypeOK
<1>14. Sealed'
  BY <1>2, <1>4, <1>10 DEF Sealed
<1>15. \A v \in Uploads : original[v] # Nothing => original[v] = named[v] /\ named[v] # Nothing
  BY DEF Stored
<1>16. Stored'
  BY <1>4, <1>9, <1>15 DEF Stored
<1>17. \A i \in Jobs : i # j => job'[i] = job[i]
  BY <1>3 DEF TypeOK
<1>18. job'[j].state = "QUEUED" /\ job'[j].upload = u
  BY <1>3, Constants DEF TypeOK, Job
<1>19. Scans'
  BY <1>2, <1>9, <1>10, <1>17, <1>18, Constants DEF Scans
<1>20. Carried'
  <2> SUFFICES ASSUME NEW w \in Threads, work[w].at # "idle"
               PROVE  /\ job'[w[1]].state # "ABSENT" /\ job'[w[1]].upload = job[w[1]].upload
                      /\ named'[job[w[1]].upload] = named[job[w[1]].upload]
    BY <1>4, <1>17 DEF Carried, Session
  <2>1. w[1] \in Jobs /\ job[w[1]].state # "ABSENT" /\ w[1] # j
    BY <1>3, ThreadJobs DEF Carried
  <2>2. job[w[1]].upload \in Uploads /\ named[job[w[1]].upload] # Nothing
    BY <2>1, Constants DEF Scans
  <2> QED
    BY <1>9, <1>17, <2>1, <2>2
<1>21. OriginalAsNamed'
  BY <1>4, <1>9, Constants DEF OriginalAsNamed
<1> QED
  BY <1>6, <1>7, <1>13, <1>14, <1>16, <1>19, <1>20, <1>21

\* An edit or a submission moves the draft on and keeps its original.
LEMMA DraftKeeps ==
    ASSUME UploadsInv, NEW c \in Clients, CommitEdit(c) \/ CommitSubmit(c)
    PROVE  /\ UploadsInv' /\ draft.state = "DRAFT" /\ draft'.blob = draft.blob
           /\ draft.text = "typed" => draft'.text = "typed"
<1> USE DEF UploadsInv
<1>1. request[c] \in Request /\ Seen(request[c])
  BY DEF TypeOK, Honest
<1>2. /\ draft \in Draft /\ draft.revision \in Nat /\ draft.revision + 1 \in 1..MaxRevision
      /\ draft.state = "DRAFT"
  <2>1. request[c].op \in {"edit", "submit"} /\ Unmoved(c)
    BY DEF CommitEdit, CommitSubmit
  <2>2. draft \in Draft /\ draft.revision \in Nat
    BY Constants DEF TypeOK, Draft
  <2>3. draft.state = "DRAFT" /\ draft.revision < MaxRevision
    BY <1>1, <2>1 DEF Seen, Unmoved
  <2> QED
    BY <2>2, <2>3, Constants
<1>4. /\ draft' \in Draft /\ draft'.revision = draft.revision + 1 /\ draft'.blob = draft.blob
      /\ draft.text = "typed" => draft'.text = "typed"
  BY <1>2 DEF CommitEdit, CommitSubmit, Draft
<1>5. /\ Answered(c)
      /\ UNCHANGED <<local, upload, row, object, original, job, work, record, named, events>>
  BY DEF CommitEdit, CommitSubmit
<1>6. draft'.revision > draft.revision /\ draft'.revision \in Nat
  BY <1>2, <1>4
<1>7. /\ request' \in [Clients -> Request] /\ Honest'
      /\ \A d \in Clients : request'[d] = IF d = c THEN NoRequest ELSE request[d]
  BY <1>5, <1>6, SlotsKept
<1>8. Routes' /\ record' \in SUBSET Record
  BY <1>5, <1>7, RoutesKept
<1>9. TypeOK'
  BY <1>4, <1>5, <1>7, <1>8 DEF TypeOK
<1>10. Sealed' /\ Stored' /\ Scans' /\ Carried' /\ OriginalAsNamed'
  BY <1>4, <1>5 DEF Sealed, Stored, Scans, Carried, Session, OriginalAsNamed
<1> QED
  BY <1>2, <1>4, <1>7, <1>8, <1>9, <1>10

LEMMA ExpireKeeps ==
    ASSUME UploadsInv, NEW u \in Uploads, Expire(u)
    PROVE  UploadsInv'
<1> USE DEF UploadsInv
<1>1. TypeOK'
  <2>1. [upload[u] EXCEPT !.late = TRUE] \in Upload
    BY DEF TypeOK, Upload
  <2>2. events' \in Nat /\ upload' = [upload EXCEPT ![u] = [upload[u] EXCEPT !.late = TRUE]]
    BY DEF TypeOK, Expire, Event
  <2> QED
    BY <2>1, <2>2 DEF TypeOK, Expire
<1>2. Honest' /\ Sealed' /\ Stored' /\ Scans' /\ Carried' /\ OriginalAsNamed' /\ Routes'
  BY DEF Expire, Honest, Seen, Sealed, Stored, Scans, Carried, Session,
         OriginalAsNamed, Routes, OncePerKey
<1> QED
  BY <1>1, <1>2

-------------------------------------------------------------------------------
(* The job and its attempts.                                               *)

\* A step of the engine or of a thread that leaves draft and originals alone:
\* jobs keep their session, and threads carry what the session holds.
Forward ==
    /\ Others /\ UNCHANGED <<draft, original>>
    /\ \A j \in Jobs : /\ job'[j].upload = job[j].upload
                       /\ job'[j].state = "ABSENT" <=> job[j].state = "ABSENT"
    /\ \A w \in Threads :
        \/ work'[w] = work[w]
        \/ work'[w].at = "idle"
        \/ job[w[1]].state # "ABSENT" /\ work'[w].at \in {"begun", "read", "failing"}
        \/ /\ work[w].at = "read" /\ work'[w].at = "copied"
           /\ row[Session(w)] \in Data /\ work'[w].data = row[Session(w)]
        \/ /\ work[w].at = "copied" /\ work'[w].at = "parsed"
           /\ work'[w].data = work[w].data

LEMMA ForwardKeeps ==
    ASSUME UploadsInv, Forward, job' \in [Jobs -> Job], work' \in [Threads -> Work],
           events' \in Nat
    PROVE  UploadsInv'
<1> USE DEF UploadsInv
<1>1. TypeOK'
  BY DEF TypeOK, Forward, Others
<1>2. Honest' /\ Sealed' /\ Stored' /\ OriginalAsNamed' /\ Routes'
  BY DEF Forward, Others, Honest, Seen, Sealed, Stored, OriginalAsNamed, Routes, OncePerKey
<1>3. Scans'
  BY DEF Forward, Others, Scans
<1>4. Carried'
  <2> SUFFICES ASSUME NEW w \in Threads
               PROVE  /\ work'[w].at # "idle" => job'[w[1]].state # "ABSENT"
                      /\ work'[w].at \in {"copied", "parsed", "stored"} =>
                            work'[w].data = named[Session(w)]
                      /\ work'[w].at = "stored" => original[Session(w)] = work'[w].data
    <3>1. \A w \in Threads : Session(w)' = Session(w)
      BY ThreadJobs DEF Forward, Session
    <3> QED
      BY <3>1 DEF Carried, Forward, Others
  <2>1. w[1] \in Jobs /\ (job'[w[1]].state = "ABSENT" <=> job[w[1]].state = "ABSENT")
    BY ThreadJobs DEF Forward
  <2>2. CASE work'[w] = work[w]
    BY <2>1, <2>2 DEF Carried
  <2>3. CASE work'[w].at = "idle"
    BY <2>3
  <2>4. CASE job[w[1]].state # "ABSENT" /\ work'[w].at \in {"begun", "read", "failing"}
    BY <2>1, <2>4
  <2>5. CASE /\ work[w].at = "read" /\ work'[w].at = "copied"
             /\ row[Session(w)] \in Data /\ work'[w].data = row[Session(w)]
    <3>1. job[w[1]].state # "ABSENT"
      BY <2>5 DEF Carried
    <3>2. Session(w) \in Uploads /\ named[Session(w)] # Nothing
      BY <2>1, <3>1, Constants DEF Scans, Session
    <3> QED
      BY <2>1, <2>5, <3>1, <3>2 DEF Sealed
  <2>6. CASE /\ work[w].at = "copied" /\ work'[w].at = "parsed"
             /\ work'[w].data = work[w].data
    BY <2>1, <2>6 DEF Carried
  <2> QED
    BY <2>2, <2>3, <2>4, <2>5, <2>6 DEF Forward
<1> QED
  BY <1>1, <1>2, <1>3, <1>4

\* A thread goes on to q; the job is untouched.
LEMMA GoesKeeps ==
    ASSUME UploadsInv, NEW w \in Threads, NEW q \in Work, Goes(w, q), events' \in Nat,
           work[w].at # "idle",
           \/ q.at \in {"idle", "begun", "read", "failing"}
           \/ /\ work[w].at = "read" /\ q.at = "copied"
              /\ row[Session(w)] \in Data /\ q.data = row[Session(w)]
           \/ /\ work[w].at = "copied" /\ q.at = "parsed" /\ q.data = work[w].data
    PROVE  UploadsInv'
<1>1. job[w[1]].state # "ABSENT"
  BY DEF UploadsInv, Carried
<1>2. \A v \in Threads : work'[v] = IF v = w THEN q ELSE work[v]
  BY DEF Goes, UploadsInv, TypeOK
<1>3. Forward
  BY <1>1, <1>2 DEF Goes, Forward
<1>4. job' \in [Jobs -> Job] /\ work' \in [Threads -> Work]
  BY DEF Goes, UploadsInv, TypeOK
<1> QED
  BY <1>3, <1>4, ForwardKeeps

\* The row of j becomes q, of the same session; threads stay, start or stop.
LEMMA BecomesKeeps ==
    ASSUME UploadsInv, NEW j \in Jobs, NEW q \in Job, Becomes(j, q), Others,
           UNCHANGED <<draft, original>>, events' \in Nat,
           job[j].state # "ABSENT", q.state # "ABSENT", q.upload = job[j].upload,
           \/ UNCHANGED work
           \/ \E w \in Threads, r \in Work :
                /\ work' = [work EXCEPT ![w] = r]
                /\ r.at = "idle" \/ (w[1] = j /\ r.at = "begun")
    PROVE  UploadsInv'
<1>1. job' \in [Jobs -> Job]
  BY DEF Becomes, UploadsInv, TypeOK
<1>2. work' \in [Threads -> Work]
  BY DEF UploadsInv, TypeOK
<1>3. \A i \in Jobs : /\ job'[i].upload = job[i].upload
                      /\ job'[i].state = "ABSENT" <=> job[i].state = "ABSENT"
  BY DEF Becomes, UploadsInv, TypeOK
<1>4. Forward
  BY <1>3 DEF Forward, UploadsInv, TypeOK
<1> QED
  BY <1>1, <1>2, <1>4, ForwardKeeps

LEMMA EngineKeeps ==
    ASSUME UploadsInv, NEW j \in Jobs,
           Claim(j) \/ LeaseEnds(j) \/ CancelJob(j) \/ RetryJob(j)
    PROVE  UploadsInv'
<1>1. job[j] \in Job /\ events \in Nat /\ job[j].attempt \in Nat
  BY DEF UploadsInv, TypeOK, Job
<1>2. CASE Claim(j)
  <2> DEFINE q == [job[j] EXCEPT !.state = "RUNNING", !.held = TRUE,
                                 !.attempt = job[j].attempt + 1]
             w == <<j, job[j].attempt + 1>>
             r == [Idle EXCEPT !.at = "begun"]
  <2>1. q \in Job /\ q.state # "ABSENT" /\ q.upload = job[j].upload
    <3>1. job[j].attempt + 1 \in 0..MaxAttempts
      BY <1>1, <1>2, Constants DEF Claim
    <3> QED
      BY <1>1, <3>1 DEF Job
  <2>2. w \in Threads /\ w[1] = j
    BY <1>1, <1>2, Constants DEF Claim, Threads
  <2>3. r \in Work /\ r.at = "begun"
    BY Constants DEF Work
  <2>4. Becomes(j, q) /\ work' = [work EXCEPT ![w] = r]
    BY <1>2 DEF Claim
  <2> HIDE DEF q, w, r
  <2> QED
    BY <1>1, <1>2, <2>1, <2>2, <2>3, <2>4, BecomesKeeps DEF Claim
<1>3. CASE LeaseEnds(j)
  <2>1. [job[j] EXCEPT !.held = FALSE] \in Job
    BY <1>1 DEF Job
  <2>2. events' \in Nat
    BY <1>1, <1>3 DEF LeaseEnds, Event
  <2> QED
    BY <1>1, <1>3, <2>1, <2>2, BecomesKeeps DEF LeaseEnds, Job
<1>4. CASE CancelJob(j)
  <2> DEFINE q == IF job[j].state = "QUEUED" THEN [job[j] EXCEPT !.state = "CANCELLED"]
                  ELSE [job[j] EXCEPT !.cancel = TRUE]
  <2>1. q \in Job /\ q.state # "ABSENT" /\ q.upload = job[j].upload
    BY <1>1, <1>4 DEF CancelJob, Job
  <2>2. Becomes(j, q)
    BY <1>4 DEF CancelJob
  <2> HIDE DEF q
  <2> QED
    BY <1>1, <1>4, <2>1, <2>2, BecomesKeeps DEF CancelJob
<1>5. CASE RetryJob(j)
  <2> DEFINE q == [job[j] EXCEPT !.state = "QUEUED", !.cancel = FALSE,
                                 !.held = FALSE, !.code = "none"]
  <2>1. q \in Job /\ q.state # "ABSENT" /\ q.upload = job[j].upload
    BY <1>1 DEF Job
  <2>2. Becomes(j, q) /\ events' \in Nat
    BY <1>1, <1>5 DEF RetryJob, Event
  <2> HIDE DEF q
  <2> QED
    BY <1>1, <1>5, <2>1, <2>2, BecomesKeeps DEF RetryJob
<1> QED
  BY <1>2, <1>3, <1>4, <1>5

LEMMA RaisesKeeps ==
    ASSUME UploadsInv, NEW w \in Threads, NEW code \in {"IMMUTABLE", "ERROR", "TRANSIENT"},
           Raises(w, code), work[w].at # "idle", events' \in Nat
    PROVE  UploadsInv'
<1>1. [work[w] EXCEPT !.at = "failing", !.code = code] \in Work
  BY DEF UploadsInv, TypeOK, Work
<1>2. [work[w] EXCEPT !.at = "failing", !.code = code].at = "failing"
  BY DEF UploadsInv, TypeOK, Work
<1> QED
  BY <1>1, <1>2, GoesKeeps DEF Raises

LEMMA ThreadsKeep ==
    ASSUME UploadsInv, NEW w \in Threads, ThreadStep(w), ~Bind(w)
    PROVE  UploadsInv' /\ UNCHANGED draft
<1> USE DEF UploadsInv
<1>1. work[w] \in Work /\ events \in Nat /\ w[1] \in Jobs /\ job[w[1]] \in Job
  BY ThreadJobs DEF TypeOK
<1>2. CASE ReadDraft(w)
  <2>1. CASE Raises(w, "ERROR") \/ Raises(w, "IMMUTABLE")
    BY <1>1, <1>2, <2>1, RaisesKeeps DEF ReadDraft, Raises, Goes
  <2>2. CASE Goes(w, [work[w] EXCEPT !.at = "read", !.revision = draft.revision])
    <3> DEFINE q == [work[w] EXCEPT !.at = "read", !.revision = draft.revision]
    <3>1. draft.revision \in 0..MaxRevision
      BY Constants DEF TypeOK, Draft
    <3>2. q \in Work /\ q.at = "read"
      BY <1>1, <3>1 DEF Work
    <3>3. Goes(w, q)
      BY <2>2
    <3> HIDE DEF q
    <3> QED
      BY <1>1, <1>2, <3>2, <3>3, GoesKeeps DEF ReadDraft, Goes
  <2> QED
    BY <1>2, <2>1, <2>2 DEF ReadDraft
<1>3. CASE ReadParts(w)
  <2>1. CASE Raises(w, "ERROR")
    BY <1>1, <1>3, <2>1, RaisesKeeps DEF ReadParts, Raises, Goes
  <2>2. CASE /\ object[Session(w)] = row[Session(w)] /\ row[Session(w)] \in Data
             /\ Goes(w, [work[w] EXCEPT !.at = "copied", !.data = object[Session(w)]])
    <3> DEFINE q == [work[w] EXCEPT !.at = "copied", !.data = object[Session(w)]]
    <3>1. q \in Work /\ q.at = "copied" /\ q.data = row[Session(w)]
      BY <1>1, <2>2 DEF Work
    <3>2. Goes(w, q)
      BY <2>2
    <3> HIDE DEF q
    <3> QED
      BY <1>1, <1>3, <2>2, <3>1, <3>2, GoesKeeps DEF ReadParts, Goes
  <2> QED
    BY <1>3, <2>1, <2>2 DEF ReadParts
<1>4. CASE ScanAndParse(w)
  <2> DEFINE q == [work[w] EXCEPT !.at = "parsed"]
  <2>1. q \in Work /\ q.at = "parsed" /\ q.data = work[w].data
    BY <1>1 DEF Work
  <2>2. Goes(w, q)
    BY <1>4 DEF ScanAndParse
  <2> HIDE DEF q
  <2> QED
    BY <1>1, <1>4, <2>1, <2>2, GoesKeeps DEF ScanAndParse, Goes
<1>5. CASE StoreOriginal(w)
  <2>1. CASE Raises(w, "ERROR")
    BY <1>1, <1>5, <2>1, RaisesKeeps DEF StoreOriginal, Raises, Goes
  <2>2. CASE /\ original' = [original EXCEPT ![Session(w)] = work[w].data]
             /\ work' = [work EXCEPT ![w].at = "stored"]
             /\ Others /\ UNCHANGED <<draft, job>>
    <3>1. /\ work[w].data = named[Session(w)] /\ job[w[1]].state # "ABSENT"
      BY <1>5 DEF StoreOriginal, Carried
    <3>2. Session(w) \in Uploads /\ named[Session(w)] \in Data
      BY <1>1, <3>1 DEF Scans, Session
    <3>3. [work[w] EXCEPT !.at = "stored"] \in Work
      BY <1>1 DEF Work
    <3>4. work' = [work EXCEPT ![w] = [work[w] EXCEPT !.at = "stored"]]
      BY <2>2
    <3>5. /\ work' \in [Threads -> Work] /\ events' \in Nat
          /\ original' \in [Uploads -> Data \cup {Nothing}]
      BY <1>1, <1>5, <2>2, <3>1, <3>2, <3>3, <3>4 DEF TypeOK, StoreOriginal
    <3>6. TypeOK'
      BY <2>2, <3>5 DEF TypeOK, Others
    <3>7. \A u \in Uploads : original'[u] = original[u] \/ original'[u] = named[u]
      BY <2>2, <3>1, <3>2 DEF TypeOK
    <3>8. original'[Session(w)] = named[Session(w)]
      BY <2>2, <3>1, <3>2 DEF TypeOK
    <3>9. \A u \in Uploads : original[u] # Nothing => original'[u] = original[u]
      BY <2>2, <3>1, <3>2, <3>7 DEF Stored, TypeOK
    <3>10. Stored' /\ OriginalAsNamed'
      BY <2>2, <3>7, <3>9 DEF Stored, OriginalAsNamed, Others
    <3>11. \A v \in Threads : v # w => work'[v] = work[v]
      BY <2>2 DEF TypeOK
    <3>12. work'[w].at = "stored" /\ work'[w].data = work[w].data
      BY <1>1, <3>4 DEF TypeOK, Work
    <3>13. ASSUME NEW v \in Threads, v # w, work[v].at = "stored"
           PROVE  original'[Session(v)] = work[v].data
      <4>1. v[1] \in Jobs /\ job[v[1]].state # "ABSENT" /\ original[Session(v)] = work[v].data
        BY <3>13, ThreadJobs DEF Carried
      <4>2. work[v].data = named[Session(v)]
        BY <3>13 DEF Carried
      <4>3. Session(v) \in Uploads /\ named[Session(v)] # Nothing
        BY <4>1, Constants DEF Scans, Session
      <4> QED
        BY <3>9, <4>1, <4>2, <4>3
    <3>14. Carried'
      <4>1. \A v \in Threads : Session(v)' = Session(v)
        BY <2>2 DEF Session
      <4>2. \A v \in Threads : v # w =>
              /\ work'[v].at # "idle" => job'[v[1]].state # "ABSENT"
              /\ work'[v].at \in {"copied", "parsed", "stored"} =>
                    work'[v].data = named'[Session(v)]
              /\ work'[v].at = "stored" => original'[Session(v)] = work'[v].data
        BY <2>2, <3>11, <3>13 DEF Carried, Others
      <4>3. /\ job'[w[1]].state # "ABSENT" /\ work'[w].data = named'[Session(w)]
            /\ original'[Session(w)] = work'[w].data
        BY <2>2, <3>1, <3>8, <3>12 DEF Others
      <4> QED
        BY <4>1, <4>2, <4>3 DEF Carried
    <3>15. Honest' /\ Sealed' /\ Scans' /\ Routes'
      BY <2>2 DEF Others, Honest, Seen, Sealed, Scans, Routes, OncePerKey
    <3> QED
      BY <2>2, <3>6, <3>10, <3>14, <3>15
  <2> QED
    BY <1>5, <2>1, <2>2 DEF StoreOriginal
<1>6. CASE Refuse(w) \/ Break(w) \/ Notices(w)
  <2>1. events' \in Nat /\ work[w].at # "idle"
    BY <1>1, <1>6 DEF Refuse, Break, Notices, Event
  <2>2. PICK code \in {"IMMUTABLE", "ERROR", "TRANSIENT"} : Raises(w, code)
    BY <1>6 DEF Refuse, Break, Notices
  <2> QED
    BY <2>1, <2>2, RaisesKeeps DEF Raises, Goes
<1>7. CASE Fail(w)
  <2>1. job[w[1]].state # "ABSENT" /\ events' \in Nat
    BY <1>1, <1>7 DEF Fail, Carried
  <2>2. CASE Owns(w)
    <3> DEFINE q == [job[w[1]] EXCEPT !.held = FALSE,
                !.state = IF job[w[1]].cancel THEN "CANCELLED" ELSE
                          IF work[w].code = "TRANSIENT" /\ w[2] < MaxAttempts
                          THEN "QUEUED" ELSE "FAILED",
                !.code = IF work[w].code = "TRANSIENT" THEN "ERROR" ELSE work[w].code]
    <3>1. q \in Job /\ q.state # "ABSENT" /\ q.upload = job[w[1]].upload
      BY <1>1 DEF Job, Work
    <3>2. Becomes(w[1], q)
      BY <1>7, <2>2 DEF Fail
    <3> HIDE DEF q
    <3> QED
      BY <1>1, <1>7, <2>1, <3>1, <3>2, Constants, BecomesKeeps DEF Fail
  <2>3. CASE ~Owns(w)
    <3>1. Goes(w, Idle)
      BY <1>7, <2>3 DEF Fail, Goes
    <3> QED
      BY <1>7, <2>1, <3>1, Constants, GoesKeeps DEF Fail, Goes
  <2> QED
    BY <2>2, <2>3
<1>8. CASE Crash(w)
  <2>1. Goes(w, Idle) /\ events' \in Nat
    BY <1>1, <1>8 DEF Crash, Goes, Event
  <2> QED
    BY <1>8, <2>1, Constants, GoesKeeps DEF Crash, Goes
<1> QED
  BY <1>2, <1>3, <1>4, <1>5, <1>6, <1>7, <1>8 DEF ThreadStep

LEMMA BindKeeps ==
    ASSUME UploadsInv, NEW w \in Threads, Bind(w)
    PROVE  UploadsInv' /\ draft.blob = Nothing /\ draft.text = "none"
                       /\ draft.state = "DRAFT"
<1> USE DEF UploadsInv
<1>1. /\ w[1] \in Jobs /\ job[w[1]] \in Job /\ draft \in Draft /\ draft.revision \in Nat
      /\ draft.blob = Nothing /\ draft.text = "none" /\ draft.state = "DRAFT"
  BY ThreadJobs, Constants DEF TypeOK, Draft, Bind, Unedited, Fit
<1>2. /\ job[w[1]].state # "ABSENT" /\ work[w].data = named[Session(w)]
      /\ original[Session(w)] = named[Session(w)]
  BY DEF Bind, Carried
<1>3. Session(w) \in Uploads /\ named[Session(w)] \in Data
  BY <1>1, <1>2 DEF Scans, Session
<1>4. /\ draft' \in Draft /\ draft'.blob = Session(w)
      /\ draft'.revision = draft.revision + 1
  <2>1. draft' = [draft EXCEPT !.blob = Session(w), !.origin = "UPLOAD",
                               !.text = "parsed", !.revision = draft.revision + 1]
    BY DEF Bind
  <2>2. draft.revision + 1 \in 1..MaxRevision
    BY <1>1, Constants DEF Bind
  <2> QED
    BY <1>1, <1>3, <2>1, <2>2 DEF Draft
<1> DEFINE q == [job[w[1]] EXCEPT !.state = "SUCCEEDED", !.held = FALSE]
<1>5. q \in Job /\ q.state = "SUCCEEDED" /\ q.upload = job[w[1]].upload
  BY <1>1 DEF Job
<1>6. job' = [job EXCEPT ![w[1]] = q] /\ work' = [work EXCEPT ![w] = Idle]
  BY DEF Bind, Becomes
<1>7. Others /\ UNCHANGED <<original, events>>
  BY DEF Bind
<1> HIDE DEF q
<1>8. TypeOK'
  BY <1>1, <1>4, <1>5, <1>6, <1>7, Constants DEF TypeOK, Others
<1>9. \A c \in Clients : request[c].revision \in Nat
  BY Constants DEF TypeOK, Request
<1>10. Honest'
  BY <1>1, <1>4, <1>7, <1>9 DEF Others, Honest, Seen
<1>11. Sealed' /\ Stored' /\ Routes'
  BY <1>7 DEF Others, Sealed, Stored, Routes, OncePerKey
<1>12. \A j \in Jobs : /\ job'[j].upload = job[j].upload
                       /\ job'[j].state = "ABSENT" <=> job[j].state = "ABSENT"
  BY <1>1, <1>2, <1>5, <1>6 DEF TypeOK
<1>13. Scans'
  BY <1>7, <1>12 DEF Others, Scans
<1>14. \A v \in Threads : /\ Session(v)' = Session(v)
                          /\ v # w => work'[v] = work[v]
  BY <1>6, <1>12, ThreadJobs DEF Session, TypeOK
<1>15. work'[w].at = "idle"
  BY <1>6, Constants DEF TypeOK
<1>16. Carried'
  BY <1>7, <1>12, <1>14, <1>15, ThreadJobs DEF Others, Carried
<1>17. OriginalAsNamed'
  BY <1>2, <1>3, <1>4, <1>7 DEF Others, OriginalAsNamed
<1> QED
  BY <1>1, <1>8, <1>10, <1>11, <1>13, <1>16, <1>17

-------------------------------------------------------------------------------
(* The theorems.                                                           *)

LEMMA ClientsKeep ==
    ASSUME UploadsInv, NEW c \in Clients, ClientStep(c)
    PROVE  UploadsInv' /\ \/ UNCHANGED draft
                          \/ CommitEdit(c) \/ CommitSubmit(c)
<1>1. ASSUME NEW k \in Keys, ReadCreate(c, k) PROVE UploadsInv' /\ UNCHANGED draft
  <2>1. CASE Uploads = {}
    <3> DEFINE r == [NoRequest EXCEPT !.op = "create", !.key = k,
                       !.expired = {v \in Uploads : upload[v].state = "OPEN"}]
    <3>1. r \in Request /\ Keyed(r) /\ Seen(r) /\ r.op # "none"
      BY Constants DEF Request, Keyed, Seen
    <3> QED
      BY <1>1, <3>1, ReadsKeeps DEF ReadCreate, Reads
  <2>2. ASSUME NEW u \in Uploads PROVE UploadsInv'
    BY <1>1, ReadersKeep
  <2> QED
    BY <1>1, <2>1, <2>2 DEF ReadCreate, Reads
<1>2. ASSUME NEW k \in Keys, NEW u \in Uploads, ReadCancel(c, k, u)
      PROVE  UploadsInv' /\ UNCHANGED draft
  BY <1>2, ReadersKeep DEF ReadCancel, Reads
<1>3. ASSUME NEW k \in Keys, NEW u \in Uploads, NEW data \in Data, ReadComplete(c, k, u, data)
      PROVE  UploadsInv' /\ UNCHANGED draft
  BY <1>3, ReadersKeep DEF ReadComplete, Reads
<1>4. ASSUME NEW u \in Uploads, NEW n \in Parts, NEW b \in Bytes, ReadPart(c, u, n, b)
      PROVE  UploadsInv' /\ UNCHANGED draft
  BY <1>4, OtherReadersKeep DEF ReadPart, Reads
<1>5. CASE ReadEdit(c) \/ ReadSubmit(c)
  BY <1>5, OtherReadersKeep DEF ReadEdit, ReadSubmit, Reads
<1>6. CASE CommitCreate(c)
  BY <1>6, CreateKeeps DEF CommitCreate
<1>7. CASE StorePart(c)
  BY <1>7, StorePartKeeps DEF StorePart
<1>8. CASE CommitComplete(c)
  BY <1>8, CompleteKeeps DEF CommitComplete
<1>9. CASE CommitCancel(c)
  BY <1>9, CancelKeeps DEF CommitCancel
<1>10. CASE Abandon(c)
  BY <1>10, AbandonKeeps DEF Abandon
<1>11. CASE CommitEdit(c) \/ CommitSubmit(c)
  BY <1>11, DraftKeeps
<1>12. CASE \E k \in Keys : \/ ReadCreate(c, k)
                            \/ \E u \in Uploads : ReadCancel(c, k, u)
                            \/ \E u \in Uploads, data \in Data : ReadComplete(c, k, u, data)
  BY <1>1, <1>2, <1>3, <1>12
<1>13. CASE \E u \in Uploads, n \in Parts, b \in Bytes : ReadPart(c, u, n, b)
  BY <1>4, <1>13
<1> QED
  BY <1>5, <1>6, <1>7, <1>8, <1>9, <1>10, <1>11, <1>12, <1>13 DEF ClientStep

\* What a step does to the draft.
DraftSafe ==
    /\ draft.blob # Nothing => draft'.blob = draft.blob
    /\ draft.text = "typed" => draft'.text = "typed"
    /\ draft.state = "FROZEN" => draft' = draft

LEMMA StepKeeps ==
    ASSUME UploadsInv, [Next]_vars
    PROVE  UploadsInv' /\ DraftSafe
<1>1. CASE UNCHANGED vars
  <2>1. UNCHANGED <<draft, upload, row, object, original, job, work, request, record, named>>
    BY <1>1 DEF vars
  <2>2. TypeOK'
    BY <1>1 DEF vars, UploadsInv, TypeOK
  <2>3. Honest'
    BY <2>1 DEF UploadsInv, Honest, Seen
  <2>4. Sealed' /\ Stored' /\ Scans' /\ Carried' /\ OriginalAsNamed'
    BY <2>1 DEF UploadsInv, Sealed, Stored, Scans, Carried, Session, OriginalAsNamed
  <2>5. Routes'
    BY <2>1 DEF UploadsInv, Routes, OncePerKey
  <2> QED
    BY <2>1, <2>2, <2>3, <2>4, <2>5 DEF UploadsInv, DraftSafe
<1>2. ASSUME NEW c \in Clients, ClientStep(c) PROVE UploadsInv' /\ DraftSafe
  <2>1. CASE UNCHANGED draft
    BY <1>2, <2>1, ClientsKeep DEF DraftSafe
  <2>2. CASE CommitEdit(c) \/ CommitSubmit(c)
    BY <2>2, DraftKeeps DEF DraftSafe
  <2> QED
    BY <1>2, <2>1, <2>2, ClientsKeep
<1>3. ASSUME NEW u \in Uploads, Expire(u) PROVE UploadsInv' /\ DraftSafe
  BY <1>3, ExpireKeeps DEF Expire, DraftSafe
<1>4. ASSUME NEW j \in Jobs, Claim(j) \/ LeaseEnds(j) \/ CancelJob(j) \/ RetryJob(j)
      PROVE  UploadsInv' /\ DraftSafe
  <2>1. UNCHANGED draft
    <3>1. Claim(j) => UNCHANGED draft
      BY DEF Claim
    <3>2. LeaseEnds(j) => UNCHANGED draft
      BY DEF LeaseEnds
    <3>3. CancelJob(j) => UNCHANGED draft
      BY DEF CancelJob
    <3>4. RetryJob(j) => UNCHANGED draft
      BY DEF RetryJob
    <3> QED
      BY <1>4, <3>1, <3>2, <3>3, <3>4
  <2> QED
    BY <1>4, <2>1, EngineKeeps DEF DraftSafe
<1>5. ASSUME NEW w \in Threads, ThreadStep(w) PROVE UploadsInv' /\ DraftSafe
  <2>1. CASE Bind(w)
    BY <2>1, BindKeeps DEF DraftSafe
  <2>2. CASE ~Bind(w)
    BY <1>5, <2>2, ThreadsKeep DEF DraftSafe
  <2> QED
    BY <2>1, <2>2
<1> QED
  BY <1>1, <1>2, <1>3, <1>4, <1>5 DEF Next

\* The inductive invariant: what requests and attempts carry agrees with the
\* rows, the objects and what was named.
THEOREM UploadsInvariant == Spec => []UploadsInv
<1> QED
  BY InitHolds, StepKeeps, PTL DEF Spec

\* Every row, object, request and thread is well formed.
THEOREM UploadsTypes == Spec => []TypeOK
<1>1. UploadsInv => TypeOK
  BY DEF UploadsInv
<1> QED
  BY <1>1, UploadsInvariant, PTL

\* The original that is bound is the one whose parts were named, for any
\* number of clients, parts, attempts and failures, at both isolation levels.
THEOREM OriginalsAsNamed == Spec => []OriginalAsNamed
<1>1. UploadsInv => OriginalAsNamed
  BY DEF UploadsInv
<1> QED
  BY <1>1, UploadsInvariant, PTL

\* What people saved, submitted or bound is not changed by a late scan.
THEOREM PeopleComeFirst == Spec => PeopleFirst
<1>1. UploadsInv /\ [Next]_vars => [DraftSafe]_vars
  BY StepKeeps
<1> QED
  BY <1>1, UploadsInvariant, PTL DEF Spec, PeopleFirst, DraftSafe

\* A key is carried out once for a route.
THEOREM KeysAreOnce == Spec => []OncePerKey
<1>1. UploadsInv => OncePerKey
  BY DEF UploadsInv, Routes
<1> QED
  BY <1>1, UploadsInvariant, PTL
-------------------------------------------------------------------------------
(* On SQLite: nobody commits between the reads of a request and its commit,*)
(* so what a request found out about the sessions of the draft still holds.*)

Unstarted == \A j \in Jobs : job[j].state = "ABSENT" => job[j].upload = Nothing

Alone == local => \A c, d \in Clients :
    request[c].op # "none" /\ request[d].op # "none" => c = d

Waiting == local => \A c \in Clients :
    /\ request[c].op = "create" =>
        /\ \A u \in Uploads : upload[u].state # "SEALED"
        /\ request[c].expired = {u \in Uploads : upload[u].state = "OPEN"}
    /\ request[c].op \in {"complete", "cancel"} =>
        upload[request[c].upload].state = "OPEN"

Single == Unstarted /\ Alone /\ Waiting /\ OneSession /\ SealedHasScan

LEMMA SingleAtFirst == Init => Single
<1> SUFFICES ASSUME Init PROVE Single
  OBVIOUS
<1>1. /\ \A c \in Clients : request[c].op = "none"
      /\ \A u \in Uploads : upload[u].state = "ABSENT"
      /\ \A j \in Jobs : job[j].upload = Nothing
  BY Constants DEF Init, NoJob
<1> QED
  BY <1>1, Constants DEF Single, Unstarted, Alone, Waiting, OneSession, SealedHasScan

\* Every job keeps its session, and is queued or not as it was.
JobsStay == \A j \in Jobs : /\ job'[j].upload = job[j].upload
                            /\ job'[j].state = "ABSENT" <=> job[j].state = "ABSENT"

\* A step that touches neither requests nor states of sessions.
LEMMA SingleStays ==
    ASSUME Single, UNCHANGED <<local, request>>, JobsStay,
           \A u \in Uploads : upload'[u].state = upload[u].state,
           \A c \in Clients : request[c].op \in {"complete", "cancel"} =>
                                request[c].upload \in Uploads
    PROVE  Single'
<1>1. Unstarted' /\ Alone'
  BY DEF Single, Unstarted, Alone, JobsStay
<1>2. {u \in Uploads : upload'[u].state = "OPEN"} = {u \in Uploads : upload[u].state = "OPEN"}
  OBVIOUS
<1>3. Waiting'
  BY <1>2 DEF Single, Waiting
<1>4. OneSession'
  BY DEF Single, OneSession
<1>5. \A u \in Uploads : {j \in Jobs : job'[j].upload = u} = {j \in Jobs : job[j].upload = u}
  BY DEF JobsStay
<1>6. SealedHasScan'
  BY <1>5 DEF Single, SealedHasScan
<1> QED
  BY <1>1, <1>3, <1>4, <1>6 DEF Single

\* Requests of sessions name one of them.
LEMMA Naming ==
    ASSUME UploadsInv
    PROVE  \A c \in Clients : request[c].op \in {"complete", "cancel"} =>
                                request[c].upload \in Uploads
BY DEF UploadsInv, Honest, Keyed

\* The row of a job that there is changes, but not the session.
LEMMA JobChanges ==
    ASSUME UploadsInv, NEW j \in Jobs, NEW q, Becomes(j, q),
           job[j].state # "ABSENT", q.state # "ABSENT", q.upload = job[j].upload
    PROVE  JobsStay
BY DEF UploadsInv, TypeOK, Becomes, JobsStay

LEMMA EngineLeavesSessions ==
    ASSUME UploadsInv, NEW j \in Jobs,
           Claim(j) \/ LeaseEnds(j) \/ CancelJob(j) \/ RetryJob(j)
    PROVE  Others /\ JobsStay
<1>1. job[j] \in Job
  BY DEF UploadsInv, TypeOK
<1>2. CASE Claim(j)
  <2> DEFINE q == [job[j] EXCEPT !.state = "RUNNING", !.held = TRUE,
                                 !.attempt = job[j].attempt + 1]
  <2>1. Becomes(j, q) /\ q.state # "ABSENT" /\ q.upload = job[j].upload
    BY <1>1, <1>2 DEF Claim, Job
  <2> HIDE DEF q
  <2> QED
    BY <1>2, <2>1, JobChanges DEF Claim
<1>3. CASE LeaseEnds(j)
  <2> DEFINE q == [job[j] EXCEPT !.held = FALSE]
  <2>1. Becomes(j, q) /\ q.state = job[j].state /\ q.upload = job[j].upload
    BY <1>1, <1>3 DEF LeaseEnds, Job
  <2> HIDE DEF q
  <2> QED
    BY <1>3, <2>1, JobChanges DEF LeaseEnds
<1>4. CASE CancelJob(j)
  <2> DEFINE q == IF job[j].state = "QUEUED" THEN [job[j] EXCEPT !.state = "CANCELLED"]
                  ELSE [job[j] EXCEPT !.cancel = TRUE]
  <2>1. Becomes(j, q) /\ q.state # "ABSENT" /\ q.upload = job[j].upload
    BY <1>1, <1>4 DEF CancelJob, Job
  <2> HIDE DEF q
  <2> QED
    BY <1>4, <2>1, JobChanges DEF CancelJob
<1>5. CASE RetryJob(j)
  <2> DEFINE q == [job[j] EXCEPT !.state = "QUEUED", !.cancel = FALSE,
                                 !.held = FALSE, !.code = "none"]
  <2>1. Becomes(j, q) /\ q.state # "ABSENT" /\ q.upload = job[j].upload
    BY <1>1, <1>5 DEF RetryJob, Job
  <2> HIDE DEF q
  <2> QED
    BY <1>5, <2>1, JobChanges DEF RetryJob
<1> QED
  BY <1>2, <1>3, <1>4, <1>5

LEMMA ThreadsLeaveSessions ==
    ASSUME UploadsInv, NEW w \in Threads, ThreadStep(w)
    PROVE  Others /\ JobsStay
<1>1. w[1] \in Jobs /\ job[w[1]] \in Job
  BY ThreadJobs DEF UploadsInv, TypeOK
<1>2. work[w].at # "idle" => job[w[1]].state # "ABSENT"
  BY DEF UploadsInv, Carried
<1>3. \A q : Goes(w, q) => Others /\ JobsStay
  BY DEF Goes, JobsStay
<1>4. \A code : Raises(w, code) => Others /\ JobsStay
  BY <1>3 DEF Raises
<1>5. CASE ReadDraft(w) \/ ReadParts(w) \/ ScanAndParse(w)
  BY <1>3, <1>4, <1>5 DEF ReadDraft, ReadParts, ScanAndParse
<1>6. CASE StoreOriginal(w)
  BY <1>4, <1>6 DEF StoreOriginal, JobsStay
<1>7. CASE Bind(w)
  <2> DEFINE q == [job[w[1]] EXCEPT !.state = "SUCCEEDED", !.held = FALSE]
  <2>1. Becomes(w[1], q) /\ q.state # "ABSENT" /\ q.upload = job[w[1]].upload
    BY <1>1, <1>7 DEF Bind, Job
  <2>2. work[w].at # "idle"
    BY <1>7 DEF Bind
  <2> HIDE DEF q
  <2> QED
    BY <1>1, <1>2, <1>7, <2>1, <2>2, JobChanges DEF Bind
<1>8. CASE Refuse(w) \/ Break(w) \/ Notices(w)
  BY <1>4, <1>8 DEF Refuse, Break, Notices
<1>9. CASE Fail(w)
  <2> DEFINE q == [job[w[1]] EXCEPT !.held = FALSE,
                !.state = IF job[w[1]].cancel THEN "CANCELLED" ELSE
                          IF work[w].code = "TRANSIENT" /\ w[2] < MaxAttempts
                          THEN "QUEUED" ELSE "FAILED",
                !.code = IF work[w].code = "TRANSIENT" THEN "ERROR" ELSE work[w].code]
  <2>1. q.state # "ABSENT" /\ q.upload = job[w[1]].upload
    BY <1>1 DEF Job
  <2>2. Becomes(w[1], q) \/ UNCHANGED job
    BY <1>9 DEF Fail
  <2>3. work[w].at # "idle" /\ Others
    BY <1>9 DEF Fail
  <2> HIDE DEF q
  <2>4. CASE UNCHANGED job
    BY <2>3, <2>4 DEF JobsStay
  <2> QED
    BY <1>1, <1>2, <2>1, <2>2, <2>3, <2>4, JobChanges
<1>10. CASE Crash(w)
  BY <1>10 DEF Crash, JobsStay
<1> QED
  BY <1>5, <1>6, <1>7, <1>8, <1>9, <1>10 DEF ThreadStep

\* A request begins when nobody else is at one.
LEMMA SingleReads ==
    ASSUME UploadsInv, Single, NEW c \in Clients, NEW r, Reads(c, r),
           r.op = "create" =>
             /\ \A u \in Uploads : upload[u].state # "SEALED"
             /\ r.expired = {u \in Uploads : upload[u].state = "OPEN"},
           r.op \in {"complete", "cancel"} => upload[r.upload].state = "OPEN"
    PROVE  Single'
<1>1. \A d \in Clients : request'[d] = IF d = c THEN r ELSE request[d]
  BY DEF UploadsInv, TypeOK, Reads
<1>2. local => \A d \in Clients : request[d].op = "none"
  BY DEF Reads, DatabaseFree
<1>3. UNCHANGED <<local, upload, job>>
  BY DEF Reads
<1>4. Unstarted' /\ OneSession' /\ SealedHasScan'
  BY <1>3 DEF Single, Unstarted, OneSession, SealedHasScan
<1>5. Alone'
  BY <1>1, <1>2, <1>3 DEF Alone
<1>6. Waiting'
  BY <1>1, <1>2, <1>3 DEF Waiting
<1> QED
  BY <1>4, <1>5, <1>6 DEF Single

\* On SQLite nobody is at a request after the one that is there has ended.
LEMMA Leaves ==
    ASSUME UploadsInv, Alone, NEW c \in Clients, Answered(c), request[c].op # "none",
           local' = local
    PROVE  /\ Alone' /\ Waiting'
           /\ local => \A d \in Clients : request'[d].op = "none"
<1>1. \A d \in Clients : request'[d] = IF d = c THEN NoRequest ELSE request[d]
  BY DEF UploadsInv, TypeOK, Answered
<1>2. local => \A d \in Clients : request'[d].op = "none"
  BY <1>1, Constants DEF Alone
<1> QED
  BY <1>2 DEF Alone, Waiting

LEMMA SingleCreate ==
    ASSUME UploadsInv, Single, NEW c \in Clients, CommitCreate(c)
    PROVE  Single'
<1>1. UNCHANGED <<local, job>> /\ Answered(c) /\ request[c].op = "create"
  BY DEF CommitCreate
<1>2. Alone' /\ Waiting' /\ Unstarted'
  BY <1>1, Leaves DEF Single, Unstarted
<1>3. PICK u \in Uploads :
        /\ upload[u].state = "ABSENT"
        /\ upload' = [v \in Uploads |->
                        IF v = u THEN [state |-> "OPEN", late |-> FALSE]
                        ELSE IF v \in request[c].expired
                        THEN [upload[v] EXCEPT !.state = "EXPIRED"] ELSE upload[v]]
  BY DEF CommitCreate
<1>4. \A v \in Uploads : upload[v] \in Upload
  BY DEF UploadsInv, TypeOK
<1>5. ASSUME local, NEW v \in Uploads
      PROVE  /\ upload'[v].state = "OPEN" => v = u
             /\ upload'[v].state # "SEALED" /\ upload[v].state # "SEALED"
  <2>1. /\ upload[v].state # "SEALED"
        /\ v \in request[c].expired <=> upload[v].state = "OPEN"
    BY <1>1, <1>5 DEF Single, Waiting
  <2>2. CASE v = u
    BY <1>3, <2>1, <2>2
  <2>3. CASE v # u /\ v \in request[c].expired
    <3>1. upload'[v].state = "EXPIRED"
      BY <1>3, <1>4, <2>3 DEF Upload
    <3> QED
      BY <2>1, <3>1
  <2>4. CASE v # u /\ v \notin request[c].expired
    BY <1>3, <2>1, <2>4
  <2> QED
    BY <2>2, <2>3, <2>4
<1>6. OneSession'
  BY <1>1, <1>5 DEF OneSession
<1>7. SealedHasScan'
  BY <1>1, <1>5 DEF Single, SealedHasScan
<1> QED
  BY <1>2, <1>6, <1>7 DEF Single

LEMMA SingleComplete ==
    ASSUME UploadsInv, Single, NEW c \in Clients, CommitComplete(c)
    PROVE  Single'
<1> DEFINE u == request[c].upload
<1>1. UNCHANGED local /\ Answered(c) /\ request[c].op = "complete" /\ u \in Uploads
  BY Naming DEF CommitComplete
<1>2. PICK j \in Jobs :
        /\ job[j].state = "ABSENT"
        /\ job' = [job EXCEPT ![j] = [NoJob EXCEPT !.state = "QUEUED", !.upload = u]]
  BY DEF CommitComplete
<1>3. \A i \in Jobs : job'[i] = IF i = j THEN [NoJob EXCEPT !.state = "QUEUED", !.upload = u]
                                ELSE job[i]
  BY <1>2 DEF UploadsInv, TypeOK
<1>4. job'[j].state = "QUEUED" /\ job'[j].upload = u
  BY <1>3, Constants DEF Job
<1>5. \A v \in Uploads : upload'[v].state = IF v = u THEN "SEALED" ELSE upload[v].state
  BY <1>1 DEF UploadsInv, TypeOK, Upload, CommitComplete
<1>6. Alone' /\ Waiting'
  BY <1>1, Leaves DEF Single
<1>7. local => upload[u].state = "OPEN"
  BY <1>1 DEF Single, Waiting
<1> HIDE DEF u
<1>8. Unstarted'
  BY <1>3, <1>4 DEF Single, Unstarted
<1>9. OneSession'
  BY <1>1, <1>5, <1>7 DEF Single, OneSession
<1>10. ASSUME local, NEW v \in Uploads
       PROVE  LET scans == {i \in Jobs : job'[i].upload = v}
              IN  /\ upload'[v].state = "SEALED" => \E i \in Jobs : scans = {i}
                  /\ upload'[v].state # "SEALED" => scans = {}
  <2>1. job[j].upload = Nothing
    BY <1>2 DEF Single, Unstarted
  <2>2. CASE v # u
    <3>1. {i \in Jobs : job'[i].upload = v} = {i \in Jobs : job[i].upload = v}
      BY <1>3, <1>4, <2>1, <2>2, Constants
    <3> QED
      BY <1>5, <1>10, <2>2, <3>1 DEF Single, SealedHasScan
  <2>3. CASE v = u
    <3>1. {i \in Jobs : job[i].upload = u} = {}
      BY <1>1, <1>7, <1>10 DEF Single, SealedHasScan
    <3>2. {i \in Jobs : job'[i].upload = u} = {j}
      BY <1>3, <1>4, <3>1
    <3> QED
      BY <1>1, <1>5, <2>3, <3>2
  <2> QED
    BY <2>2, <2>3
<1>11. SealedHasScan'
  BY <1>1, <1>10 DEF SealedHasScan
<1> QED
  BY <1>6, <1>8, <1>9, <1>11 DEF Single

LEMMA SingleCancel ==
    ASSUME UploadsInv, Single, NEW c \in Clients, CommitCancel(c)
    PROVE  Single'
<1> DEFINE u == request[c].upload
<1>1. UNCHANGED <<local, job>> /\ Answered(c) /\ request[c].op = "cancel" /\ u \in Uploads
  BY Naming DEF CommitCancel
<1>2. \A v \in Uploads : upload'[v].state = IF v = u THEN "CANCELLED" ELSE upload[v].state
  BY <1>1 DEF UploadsInv, TypeOK, Upload, CommitCancel
<1>3. Alone' /\ Waiting' /\ Unstarted'
  BY <1>1, Leaves DEF Single, Unstarted
<1>4. local => upload[u].state = "OPEN"
  BY <1>1 DEF Single, Waiting
<1> HIDE DEF u
<1>5. OneSession'
  BY <1>1, <1>2 DEF Single, OneSession
<1>6. SealedHasScan'
  BY <1>1, <1>2, <1>4 DEF Single, SealedHasScan
<1> QED
  BY <1>3, <1>5, <1>6 DEF Single

LEMMA SingleClients ==
    ASSUME UploadsInv, Single, NEW c \in Clients, ClientStep(c)
    PROVE  Single'
<1>1. ASSUME NEW k \in Keys, ReadCreate(c, k) PROVE Single'
  <2> DEFINE r == [NoRequest EXCEPT !.op = "create", !.key = k,
                     !.expired = {v \in Uploads : upload[v].state = "OPEN"}]
  <2>1. /\ r.op = "create" /\ r.expired = {v \in Uploads : upload[v].state = "OPEN"}
    BY DEF NoRequest
  <2>2. Reads(c, r) /\ \A u \in Uploads : upload[u].state # "SEALED"
    BY <1>1 DEF ReadCreate, Live
  <2> HIDE DEF r
  <2> QED
    BY <2>1, <2>2, SingleReads
<1>2. ASSUME NEW k \in Keys, NEW u \in Uploads, ReadCancel(c, k, u) PROVE Single'
  <2> DEFINE r == [NoRequest EXCEPT !.op = "cancel", !.key = k, !.upload = u]
  <2>1. r.op = "cancel" /\ r.upload = u
    BY DEF NoRequest
  <2>2. Reads(c, r) /\ upload[u].state = "OPEN"
    BY <1>2 DEF ReadCancel, Accepting
  <2> HIDE DEF r
  <2> QED
    BY <2>1, <2>2, SingleReads
<1>3. ASSUME NEW k \in Keys, NEW u \in Uploads, NEW data \in Data, ReadComplete(c, k, u, data)
      PROVE  Single'
  <2> DEFINE r == [NoRequest EXCEPT !.op = "complete", !.key = k, !.upload = u, !.part = data]
  <2>1. r.op = "complete" /\ r.upload = u
    BY DEF NoRequest
  <2>2. Reads(c, r) /\ upload[u].state = "OPEN"
    BY <1>3 DEF ReadComplete, Accepting
  <2> HIDE DEF r
  <2> QED
    BY <2>1, <2>2, SingleReads
<1>4. ASSUME NEW u \in Uploads, NEW n \in Parts, NEW b \in Bytes, ReadPart(c, u, n, b)
      PROVE  Single'
  <2> DEFINE r == [NoRequest EXCEPT !.op = "part", !.upload = u,
                                    !.part = [NoPart EXCEPT ![n] = b]]
  <2>1. r.op = "part" /\ Reads(c, r)
    BY <1>4 DEF NoRequest, ReadPart
  <2> HIDE DEF r
  <2> QED
    BY <2>1, SingleReads
<1>5. CASE ReadEdit(c)
  <2> DEFINE r == [NoRequest EXCEPT !.op = "edit", !.revision = draft.revision]
  <2>1. r.op = "edit" /\ Reads(c, r)
    BY <1>5 DEF NoRequest, ReadEdit
  <2> HIDE DEF r
  <2> QED
    BY <2>1, SingleReads
<1>6. CASE ReadSubmit(c)
  <2> DEFINE r == [NoRequest EXCEPT !.op = "submit", !.revision = draft.revision]
  <2>1. r.op = "submit" /\ Reads(c, r)
    BY <1>6 DEF NoRequest, ReadSubmit
  <2> HIDE DEF r
  <2> QED
    BY <2>1, SingleReads
<1>7. CASE CommitCreate(c) \/ CommitComplete(c) \/ CommitCancel(c)
  BY <1>7, SingleCreate, SingleComplete, SingleCancel
<1>8. CASE StorePart(c) \/ CommitEdit(c) \/ CommitSubmit(c) \/ Abandon(c)
  <2>1. /\ UNCHANGED <<local, upload, job>> /\ Answered(c)
        /\ request[c].op # "none"
    BY <1>8 DEF StorePart, CommitEdit, CommitSubmit, Abandon
  <2>2. Alone' /\ Waiting'
    BY <2>1, Leaves DEF Single
  <2>3. Unstarted' /\ OneSession' /\ SealedHasScan'
    BY <2>1 DEF Single, Unstarted, OneSession, SealedHasScan
  <2> QED
    BY <2>2, <2>3 DEF Single
<1> QED
  BY <1>1, <1>2, <1>3, <1>4, <1>5, <1>6, <1>7, <1>8 DEF ClientStep

LEMMA SingleNext ==
    ASSUME UploadsInv, Single, [Next]_vars
    PROVE  Single'
<1>1. CASE UNCHANGED vars
  BY <1>1, Naming, SingleStays DEF vars, JobsStay
<1>2. ASSUME NEW c \in Clients, ClientStep(c) PROVE Single'
  BY <1>2, SingleClients
<1>3. ASSUME NEW u \in Uploads, Expire(u) PROVE Single'
  <2>1. \A v \in Uploads : upload'[v].state = upload[v].state
    BY <1>3 DEF UploadsInv, TypeOK, Upload, Expire
  <2>2. UNCHANGED <<local, request, job>>
    BY <1>3 DEF Expire
  <2> QED
    BY <2>1, <2>2, Naming, SingleStays DEF JobsStay
<1>4. ASSUME Others, JobsStay PROVE Single'
  BY <1>4, Naming, SingleStays DEF Others
<1>5. ASSUME NEW j \in Jobs, Claim(j) \/ LeaseEnds(j) \/ CancelJob(j) \/ RetryJob(j)
      PROVE  Single'
  BY <1>4, <1>5, EngineLeavesSessions
<1>6. ASSUME NEW w \in Threads, ThreadStep(w) PROVE Single'
  BY <1>4, <1>6, ThreadsLeaveSessions
<1> QED
  BY <1>1, <1>2, <1>3, <1>5, <1>6 DEF Next

LEMMA SinglesHold == Spec => []Single
<1>1. UploadsInv /\ Single /\ [Next]_vars => Single'
  BY SingleNext
<1> QED
  BY SingleAtFirst, <1>1, UploadsInvariant, PTL DEF Spec

\* Two people never have two sessions for a draft on SQLite, however many
\* requests, expiries, cancellations and scans there are.
THEOREM SessionsAreSingle == Spec => []OneSession
<1>1. Single => OneSession
  BY DEF Single
<1> QED
  BY <1>1, SinglesHold, PTL

\* On SQLite every sealed session has its one scan, and only those have one.
THEOREM SealedAreScanned == Spec => []SealedHasScan
<1>1. Single => SealedHasScan
  BY DEF Single
<1> QED
  BY <1>1, SinglesHold, PTL
===============================================================================
