------------------------------- MODULE Retention -------------------------------
(***************************************************************************)
(* Trash, retention, preservation and purge (backend/fund_kb: retention.py,*)
(* api_catalog.py, the PURGE and INVALIDATE jobs of jobs.py).  A library   *)
(* has one retention policy; its resources go to the trash and come back,  *)
(* are put on legal hold and kept until a date, are cited and recorded as  *)
(* evidence, and are purged by a job that deletes objects one by one while *)
(* its transaction is open.                                                *)
(*                                                                         *)
(* Dates are days, 0 is NULL.  A published resource is its row, whether    *)
(* its text is stored, and its objects.  Requests on a row are compare-    *)
(* and-set on its revision under the lock of the library, so each is one   *)
(* step; a purge is not.                                                   *)
(***************************************************************************)
EXTENDS Naturals

CONSTANTS
    Resources,     \* published resources of one library
    Originals,     \* objects that are written once: originals, parts, releases
    Preview,       \* the object that INVALIDATE deletes and writes again
    Purges,        \* PURGE jobs
    Invals,        \* INVALIDATE jobs
    MinDays,       \* shortest retention a policy may state
    Terms,         \* retentions that policies state
    Dates,         \* days until which people and policies order things to be
    MaxDay,        \* bound on the days
    MaxOrders,     \* bound on changes of the policy, of preservation, of roles
    MaxAttempts,   \* attempts of a job
    MaxEvents,     \* bound on crashes, failures, lost leases, retries of a purge
    None           \* no resource

ASSUME TermsAssumption ==
    /\ MinDays \in Nat \ {0} /\ Terms \subseteq Nat
    /\ \A t \in Terms : t >= MinDays
ASSUME ObjectsAssumption == Preview \notin Originals /\ None \notin Resources
ASSUME LimitsAssumption ==
    Dates \subseteq Nat /\ MaxDay \in Nat \ {0} /\ MaxOrders \in Nat /\ MaxAttempts \in Nat /\ MaxEvents \in Nat

VARIABLES
    local,     \* SQLite, or a database server at READ COMMITTED
    day,       \* today
    policy,    \* the retention policy of the library
    may,       \* whether who asks for purges has a role that the policy names
    resource,  \* rows of table resources
    object,    \* stored objects of a resource
    quoted,    \* resources of which other versions cite a block
    related,   \* resources that other versions have a relation to
    recorded,  \* resources in the evidence of answers or frozen provenance
    inval,     \* INVALIDATE jobs and what their threads have read
    purge,     \* PURGE jobs and what their threads do
    promise,   \* history: the day until which a resource was promised to stay
    orders,    \* changes of the policy, of preservation, of roles so far
    events     \* crashes, failures, lost leases, retries of a purge so far

refs == <<quoted, related, recorded>>
vars == <<local, day, policy, may, resource, object, refs, inval,
          purge, promise, orders, events>>

-------------------------------------------------------------------------------
Objects == Originals \cup {Preview}

Policy == [set: BOOLEAN, approved: BOOLEAN, days: Nat, expires: Nat]

Resource == [deleted: Nat, until: Nat, hold: BOOLEAN, suspended: BOOLEAN,
             text: BOOLEAN]

\* rebuild, remove: what a thread that read the resource does to the preview.
\* A job that succeeded is forgotten.
Inval == [state: {"ABSENT", "QUEUED", "RUNNING", "FAILED"},
          resource: Resources \cup {None}, at: {"idle", "read"},
          rebuild: BOOLEAN, remove: BOOLEAN]
NoInval == [state |-> "ABSENT", resource |-> None, at |-> "idle",
            rebuild |-> FALSE, remove |-> FALSE]

Purge == [state: {"ABSENT", "QUEUED", "RUNNING", "SUCCEEDED", "FAILED", "CANCELLED"},
          resource: Resources \cup {None}, attempt: 0..MaxAttempts,
          at: {"idle", "started", "erasing"}, cancel: BOOLEAN,
          code: {"none", "HOLD", "OTHER"}]
NoPurge == [state |-> "ABSENT", resource |-> None, attempt |-> 0, at |-> "idle",
            cancel |-> FALSE, code |-> "none"]

TypeOK ==
    /\ local \in BOOLEAN /\ may \in BOOLEAN
    /\ day \in Nat \ {0} /\ orders \in Nat /\ events \in Nat
    /\ policy \in Policy
    /\ resource \in [Resources -> Resource]
    /\ object \in [Resources -> SUBSET Objects]
    /\ quoted \in SUBSET Resources /\ related \in SUBSET Resources /\ recorded \in SUBSET Resources
    /\ inval \in [Invals -> Inval]
    /\ purge \in [Purges -> Purge]
    /\ promise \in [Resources -> Nat]
    /\ \A i \in Invals :
          inval[i].state # "ABSENT" \/ inval[i].at = "read" => inval[i].resource \in Resources
    /\ \A p \in Purges :
          /\ purge[p].state # "ABSENT" => purge[p].resource \in Resources
          /\ purge[p].at # "idle" <=> purge[p].state = "RUNNING"

\* A library of the time before policies has none; a new one has the default.
Policies ==
    {[set |-> FALSE, approved |-> FALSE, days |-> 0, expires |-> 0],
     [set |-> TRUE, approved |-> TRUE, days |-> MinDays, expires |-> 0]}

Init ==
    /\ local \in BOOLEAN
    /\ day = 1 /\ orders = 0 /\ events = 0
    /\ policy \in Policies
    /\ may = TRUE
    /\ resource = [r \in Resources |-> [deleted |-> 0, until |-> 0, hold |-> FALSE,
                                        suspended |-> FALSE, text |-> TRUE]]
    /\ object = [r \in Resources |-> Objects]
    /\ quoted = {} /\ related = {} /\ recorded = {}
    /\ inval = [i \in Invals |-> NoInval]
    /\ purge = [p \in Purges |-> NoPurge]
    /\ promise = [r \in Resources |-> 0]

Order == orders < MaxOrders /\ orders' = orders + 1
Event == events < MaxEvents /\ events' = events + 1

-------------------------------------------------------------------------------
(* The policy and the dates.                                               *)

PolicyState ==
    IF ~policy.set THEN "UNCONFIGURED"
    ELSE IF ~policy.approved THEN "UNAPPROVED"
    ELSE IF policy.expires > 0 /\ policy.expires <= day THEN "EXPIRED"
    ELSE "APPROVED"

Later(a, b) == IF a >= b THEN a ELSE b

\* The later of the date it has and its days in the trash; days = 0: no policy.
Expiry(row, days) ==
    Later(row.until, IF row.deleted > 0 /\ days > 0 THEN row.deleted + days ELSE 0)

Extended(row, days) == [row EXCEPT !.until = Expiry(row, days)]

InUse(r) ==
    resource[r].deleted = 0 /\ ~resource[r].suspended

Referred == quoted \cup related \cup recorded

Open(state) == state \in {"QUEUED", "RUNNING"}

\* A purge holds the rows of its library and its resource, and on SQLite the
\* database, from its checks to its commit.
Free(r) == \A p \in Purges : purge[p].at = "erasing" => ~local /\ purge[p].resource # r
LibraryFree == \A p \in Purges : purge[p].at # "erasing"
DatabaseFree == local => LibraryFree

-------------------------------------------------------------------------------
(* Requests.                                                               *)

\* Slip: only the new policy counts for what is in the trash already.
BackfillWithNew(days) == days

\* A longer policy that is replaced still counts for what is in the trash.
Backfill(days) == Later(days, IF policy.set THEN policy.days ELSE MinDays)

SetPolicy(days, approved, expires, backfill) ==
    /\ Order /\ LibraryFree
    /\ expires > 0 => expires > day
    /\ policy' = [set |-> TRUE, approved |-> approved, days |-> days, expires |-> expires]
    /\ LET Reached(r) == approved /\ backfill /\ resource[r].deleted > 0
       IN  /\ resource' = [r \in Resources |-> IF Reached(r)
                              THEN Extended(resource[r], Backfill(days)) ELSE resource[r]]
           /\ promise' = [r \in Resources |-> IF Reached(r)
                              THEN Later(promise[r], resource[r].deleted + days) ELSE promise[r]]
    /\ UNCHANGED <<local, day, may, object, refs, inval, purge, events>>

\* invalidate_dependents: every such change queues an INVALIDATE job.
Queue(r) ==
    \E i \in Invals :
        /\ inval[i].state = "ABSENT"
        /\ inval' = [inval EXCEPT ![i] = [NoInval EXCEPT !.state = "QUEUED", !.resource = r]]

Trashed(r) ==
    LET row == [resource[r] EXCEPT !.deleted = day, !.suspended = TRUE]
    IN  IF PolicyState = "APPROVED" THEN Extended(row, policy.days) ELSE row

Trash(r) ==
    /\ LibraryFree
    /\ resource[r].deleted = 0
    /\ resource' = [resource EXCEPT ![r] = Trashed(r)]
    /\ promise' = [promise EXCEPT ![r] =
          IF PolicyState = "APPROVED" THEN Later(@, day + policy.days) ELSE @]
    /\ Queue(r)
    /\ UNCHANGED <<local, day, policy, may, object, refs, purge, orders,
                   events>>

Restore(r) ==
    /\ Free(r)
    /\ resource[r].deleted > 0
    /\ resource' = [resource EXCEPT ![r] = [@ EXCEPT !.deleted = 0, !.suspended = TRUE]]
    /\ Queue(r)
    /\ UNCHANGED <<local, day, policy, may, object, refs, purge, promise,
                   orders, events>>

Suspend(r) ==
    /\ Free(r)
    /\ resource[r].deleted = 0
    /\ resource' = [resource EXCEPT ![r] = [@ EXCEPT !.suspended = TRUE]]
    /\ Queue(r)
    /\ UNCHANGED <<local, day, policy, may, object, refs, purge, promise,
                   orders, events>>

\* Slip: the text is not compared with the hash it was released with.
ResumesAnything(r) == resource[r].deleted = 0

Resumes(r) == resource[r].deleted = 0 /\ resource[r].text

Resume(r) ==
    /\ Free(r)
    /\ Resumes(r)
    /\ resource' = [resource EXCEPT ![r] = [@ EXCEPT !.suspended = FALSE]]
    /\ Queue(r)
    /\ UNCHANGED <<local, day, policy, may, object, refs, purge, promise,
                   orders, events>>

\* until = 0: the request leaves the date alone.
NoShorter(r, until) ==
    until >= Expiry(resource[r], IF PolicyState = "APPROVED" THEN policy.days ELSE 0)

Preserve(r, hold, until) ==
    /\ Order /\ LibraryFree
    /\ until > 0 => NoShorter(r, until)
    /\ resource' = [resource EXCEPT ![r] = [@ EXCEPT !.hold = hold,
          !.until = IF until > 0 THEN until ELSE resource[r].until]]
    /\ promise' = [promise EXCEPT ![r] = Later(@, until)]
    /\ UNCHANGED <<local, day, policy, may, object, refs, inval, purge, events>>

\* A draft cites blocks that are there and relates to resources, whatever their
\* state, that are not in the trash; drafts are edited and discarded.  Answers
\* and Wiki builds record evidence that is in use, for good.
Quote(r) ==
    /\ DatabaseFree
    /\ resource[r].deleted = 0 /\ resource[r].text
    /\ quoted' = quoted \cup {r}
    /\ UNCHANGED <<local, day, policy, may, resource, object, related,
                   recorded, inval, purge, promise, orders, events>>

Relate(r) ==
    /\ DatabaseFree
    /\ resource[r].deleted = 0
    /\ related' = related \cup {r}
    /\ UNCHANGED <<local, day, policy, may, resource, object, quoted,
                   recorded, inval, purge, promise, orders, events>>

Uncite(r) ==
    /\ DatabaseFree
    /\ \/ r \in quoted /\ quoted' = quoted \ {r} /\ UNCHANGED related
       \/ r \in related /\ related' = related \ {r} /\ UNCHANGED quoted
    /\ UNCHANGED <<local, day, policy, may, resource, object, recorded, inval,
                   purge, promise, orders, events>>

Record(r) ==
    /\ DatabaseFree /\ InUse(r)
    /\ recorded' = recorded \cup {r}
    /\ UNCHANGED <<local, day, policy, may, resource, object, quoted, related,
                   inval, purge, promise, orders, events>>

\* Memberships and the roles of the policy change.
Delegate ==
    /\ Order /\ DatabaseFree
    /\ may' = ~may
    /\ UNCHANGED <<local, day, policy, resource, object, refs, inval, purge,
                   promise, events>>

-------------------------------------------------------------------------------
(* Purge: asked for, and checked again where it is carried out.            *)

Pending(r, p) ==
    \/ \E i \in Invals : Open(inval[i].state) /\ inval[i].resource = r
    \/ \E q \in Purges \ {p} : Open(purge[q].state) /\ purge[q].resource = r

Eligible(r, p) ==
    /\ PolicyState = "APPROVED" /\ may
    /\ resource[r].deleted > 0 /\ ~resource[r].hold
    /\ day >= Expiry(resource[r], policy.days)
    /\ r \notin Referred
    /\ ~Pending(r, p)

RequestPurge(p, r) ==
    /\ LibraryFree
    /\ ~Open(purge[p].state)
    /\ Eligible(r, p)
    /\ purge' = [purge EXCEPT ![p] = [NoPurge EXCEPT !.state = "QUEUED", !.resource = r]]
    /\ UNCHANGED <<local, day, policy, may, resource, object, refs, inval,
                   promise, orders, events>>

RetryPurge(p) ==
    /\ Event /\ LibraryFree
    /\ purge[p].state \in {"FAILED", "CANCELLED"} /\ purge[p].code # "HOLD"
    /\ Eligible(purge[p].resource, p)
    /\ purge[p].attempt < MaxAttempts
    /\ purge' = [purge EXCEPT ![p] = [@ EXCEPT !.state = "QUEUED", !.cancel = FALSE,
                                               !.code = "none"]]
    /\ UNCHANGED <<local, day, policy, may, resource, object, refs, inval,
                   promise, orders>>

\* Waits for the row of the job while its transaction is open.
CancelPurge(p) ==
    /\ DatabaseFree /\ Open(purge[p].state) /\ purge[p].at # "erasing"
    /\ purge' = [purge EXCEPT ![p] = [@ EXCEPT !.cancel = TRUE,
          !.state = IF purge[p].state = "QUEUED" THEN "CANCELLED" ELSE purge[p].state]]
    /\ UNCHANGED <<local, day, policy, may, resource, object, refs, inval,
                   promise, orders, events>>

Claim(p) ==
    /\ DatabaseFree
    /\ purge[p].state = "QUEUED" /\ purge[p].attempt < MaxAttempts
    /\ purge' = [purge EXCEPT ![p] = [@ EXCEPT !.state = "RUNNING", !.at = "started",
                                               !.attempt = purge[p].attempt + 1]]
    /\ UNCHANGED <<local, day, policy, may, resource, object, refs, inval,
                   promise, orders, events>>

\* Slip: the thread of an attempt that failed goes on.
EndedOnPaper(p, state, code) ==
    purge' = [purge EXCEPT ![p] = [@ EXCEPT !.state = state, !.code = code]]

Ended(p, state, code) ==
    purge' = [purge EXCEPT ![p] = [@ EXCEPT !.state = state, !.at = "idle", !.code = code]]

\* Slip: what was allowed when it was asked for is carried out.
AllowedThen(p) == ~purge[p].cancel

Allowed(p) == ~purge[p].cancel /\ Eligible(purge[p].resource, p)

Check(p) ==
    /\ LibraryFree
    /\ purge[p].at = "started"
    /\ Allowed(p)
    /\ purge' = [purge EXCEPT ![p] = [@ EXCEPT !.at = "erasing"]]
    /\ UNCHANGED <<local, day, policy, may, resource, object, refs, inval,
                   promise, orders, events>>

Refuse(p) ==
    /\ LibraryFree
    /\ purge[p].at = "started"
    /\ ~Allowed(p)
    /\ IF purge[p].cancel THEN Ended(p, "CANCELLED", "OTHER")
       ELSE Ended(p, "FAILED", IF resource[purge[p].resource].hold THEN "HOLD" ELSE "OTHER")
    /\ UNCHANGED <<local, day, policy, may, resource, object, refs, inval,
                   promise, orders, events>>

Erase(p, o) ==
    LET r == purge[p].resource
    IN  /\ purge[p].at = "erasing" /\ o \in object[r]
        /\ object' = [object EXCEPT ![r] = @ \ {o}]
        /\ UNCHANGED <<local, day, policy, may, resource, refs, inval, purge,
                       promise, orders, events>>

Commit(p) ==
    LET r == purge[p].resource
    IN  /\ purge[p].at = "erasing" /\ object[r] = {}
        /\ resource' = [resource EXCEPT ![r] = [@ EXCEPT !.suspended = TRUE, !.text = FALSE]]
        /\ Ended(p, "SUCCEEDED", "none")
        /\ UNCHANGED <<local, day, policy, may, object, refs, inval, promise,
                       orders, events>>

\* The process, the store or the connection fails: the transaction is rolled
\* back, the deleted objects stay deleted.  A dead attempt waits for recovery,
\* an error of the connection for its retry: QUEUED; other errors end the job.
Break(p) ==
    /\ Event
    /\ purge[p].at # "idle"
    /\ \/ purge[p].attempt < MaxAttempts /\ ~purge[p].cancel /\ Ended(p, "QUEUED", "none")
       \/ ~purge[p].cancel /\ Ended(p, "FAILED", "OTHER")
       \/ purge[p].cancel /\ Ended(p, "CANCELLED", "OTHER")
    /\ UNCHANGED <<local, day, policy, may, resource, object, refs, inval,
                   promise, orders>>

-------------------------------------------------------------------------------
(* INVALIDATE: reads in one transaction, touches the preview after it.     *)

ReadInval(i) ==
    LET r == inval[i].resource
    IN  /\ DatabaseFree
        /\ inval[i].state = "QUEUED" /\ inval[i].at = "idle"
        /\ inval' = [inval EXCEPT ![i] = [@ EXCEPT !.state = "RUNNING", !.at = "read",
              !.rebuild = (resource[r].deleted = 0 /\ resource[r].text),
              !.remove = (resource[r].deleted > 0)]]
        /\ UNCHANGED <<local, day, policy, may, resource, object, refs, purge,
                       promise, orders, events>>

WriteInval(i) ==
    LET r == inval[i].resource
    IN  /\ inval[i].at = "read"
        /\ object' = [object EXCEPT ![r] =
              IF inval[i].rebuild THEN @ \cup {Preview}
              ELSE IF inval[i].remove THEN @ \ {Preview} ELSE @]
        /\ inval' = [inval EXCEPT ![i] = IF @.state = "RUNNING" THEN NoInval
              ELSE [@ EXCEPT !.at = "idle", !.rebuild = FALSE, !.remove = FALSE]]
        /\ UNCHANGED <<local, day, policy, may, resource, refs, purge,
                       promise, orders, events>>

\* A job fails, alone or because its thread lost the lease and works on.
FailInval(i) ==
    /\ Event /\ DatabaseFree
    /\ inval[i].state = "RUNNING" /\ inval[i].at = "read"
    /\ inval' = [inval EXCEPT ![i] = [@ EXCEPT !.state = "FAILED"]]
    /\ UNCHANGED <<local, day, policy, may, resource, object, refs, purge,
                   promise, orders>>

RetryInval(i) ==
    /\ DatabaseFree
    /\ inval[i].state = "FAILED" /\ inval[i].at = "idle"
    /\ inval' = [inval EXCEPT ![i] = [@ EXCEPT !.state = "QUEUED"]]
    /\ UNCHANGED <<local, day, policy, may, resource, object, refs, purge,
                   promise, orders, events>>

\* No thread works on for a day.
Tick ==
    /\ day < MaxDay
    /\ \A i \in Invals : inval[i].at = "idle"
    /\ \A p \in Purges : purge[p].at = "idle"
    /\ day' = day + 1
    /\ UNCHANGED <<local, policy, may, resource, object, refs, inval, purge,
                   promise, orders, events>>

-------------------------------------------------------------------------------
PolicyStep ==
    \E days \in Terms, approved, backfill \in BOOLEAN, expires \in Dates \cup {0} :
        SetPolicy(days, approved, expires, backfill)

ResourceStep(r) ==
    \/ Trash(r) \/ Restore(r) \/ Suspend(r) \/ Resume(r)
    \/ \E hold \in BOOLEAN, until \in Dates \cup {0} : Preserve(r, hold, until)
    \/ Quote(r) \/ Relate(r) \/ Uncite(r) \/ Record(r)

PurgeStep(p) ==
    \/ \E r \in Resources : RequestPurge(p, r)
    \/ RetryPurge(p) \/ CancelPurge(p) \/ Claim(p) \/ Check(p) \/ Refuse(p)
    \/ \E o \in Objects : Erase(p, o)
    \/ Commit(p) \/ Break(p)

InvalStep(i) ==
    ReadInval(i) \/ WriteInval(i) \/ FailInval(i) \/ RetryInval(i)

Next ==
    \/ Tick \/ Delegate \/ PolicyStep
    \/ \E r \in Resources : ResourceStep(r)
    \/ \E p \in Purges : PurgeStep(p)
    \/ \E i \in Invals : InvalStep(i)

Spec == Init /\ [][Next]_vars

-------------------------------------------------------------------------------
(* What retention promises.                                                *)

\* No original is deleted and no text erased unless, at that moment, the
\* resource is in the trash since MinDays, not on hold, past every day it was
\* ever promised to be kept, and in nobody's evidence: policies may have been
\* shortened, withdrawn and approved again, the resource restored and thrown
\* away again, and holds set while the job waited.
ErasedByRight ==
    [][\A r \in Resources :
          (object'[r] \cap Originals # object[r] \cap Originals \/ resource'[r].text # resource[r].text)
            => /\ resource[r].deleted > 0 /\ day >= resource[r].deleted + MinDays
               /\ ~resource[r].hold
               /\ day >= promise[r]
               /\ r \notin Referred]_vars

\* No operation brings the end of a retention forward: not the date in the row,
\* and not, for what is in the trash, the expiry when an approved policy with
\* backfill replaces another.
NeverShortened ==
    [][\A r \in Resources :
          /\ resource'[r].until >= resource[r].until
          /\ (resource[r].deleted > 0 /\ policy'.approved /\ resource'[r] # resource[r]
                /\ policy' # policy /\ policy.set)
               => Expiry(resource'[r], policy'.days) >= Expiry(resource[r], policy.days)]_vars

\* A receipt says that the objects are gone: nothing writes one afterwards, and
\* a purged resource is in nobody's answers, citations or searches again, though
\* its row can be restored, and even be the target of a relation.
PurgedForGood ==
    \A r \in Resources : ~resource[r].text =>
        object[r] = {} /\ ~InUse(r) /\ r \notin quoted \cup recorded
================================================================================
