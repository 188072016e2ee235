------------------------------ MODULE Publication -----------------------------
(***************************************************************************)
(* Versions, their review, and their publication (backend/fund_kb:         *)
(* api_content.py, admin_review.py, api_catalog.py, and the PUBLISH and    *)
(* INVALIDATE jobs of jobs.py).  A request is one transaction on SQLite,   *)
(* hence one action.  A publication is two transactions with file writes   *)
(* between them: everybody else may act in the gap, the process may die in *)
(* it, and a thread that lost its lease in it may wake up later.  The job  *)
(* engine itself is FencedJobs; here a job is open, done or ended.         *)
(*                                                                         *)
(* The content of a version is a member of Contents, which also stands for *)
(* its hash; what matters about it is which versions it cites, and the day *)
(* from which it is valid (valid_from is part of the frozen hash).         *)
(***************************************************************************)
EXTENDS Naturals

CONSTANTS
    Resources,   \* rows of table resources
    Versions,    \* rows of table resource_versions
    ResourceOf,  \* the resource a version belongs to
    Users,       \* people with every role in the space
    Contents,    \* what the blocks of a version can say
    Empty,       \* no blocks
    Cites,       \* the versions a content refers to (dependency_ids)
    ValidFrom,   \* the day from which a content is valid; 0 is any past day, or none
    Jobs,        \* PUBLISH jobs; job and release have the same identity
    NoVersion, NoUser, NoJob, NoContent,
    MaxDepth,    \* levels of dependencies that are followed, 8 in the code
    MaxNumber,   \* bound on version_no
    MaxDay,      \* bound on the days that go by
    MaxEpoch,    \* bound on access_epoch, hence on suspensions and deletions
    MaxUpsets,   \* bound on crashes, failures and cancellations of jobs
    Stalls       \* TRUE: a thread that lost its lease may still write its files

ASSUME RowsAssumption ==
    /\ ResourceOf \in [Versions -> Resources]
    /\ NoVersion \notin Versions /\ NoUser \notin Users /\ NoJob \notin Jobs
ASSUME ContentsAssumption ==
    /\ Empty \in Contents /\ NoContent \notin Contents
    /\ Cites \in [Contents -> SUBSET Versions] /\ Cites[Empty] = {}
    /\ ValidFrom \in [Contents -> Nat]
ASSUME LimitsAssumption ==
    /\ MaxDepth \in Nat \ {0} /\ MaxNumber \in Nat /\ MaxUpsets \in Nat /\ MaxDay \in Nat
    /\ MaxEpoch \in Nat \ {0} /\ Stalls \in BOOLEAN

VARIABLES
    ver,       \* table resource_versions, with reviews and confirmations
    res,       \* table resources
    job,       \* PUBLISH jobs, with what the running handler remembers
    rel,       \* table releases
    file,      \* the stored manifest file of a release, if any
    late,      \* manifests that stalled threads may still write
    owed,      \* INVALIDATE jobs that have not been done, by resource and cause
    today,     \* the business date of requests that name none (effective_date)
    upsets,    \* crashes, failures and cancellations so far
    paused,    \* history: resources suspended or deleted by request, not yet resumed
    disturbed  \* history: resources that changed since a publication began

vars == <<ver, res, job, rel, file, late, owed, today, upsets, paused, disturbed>>

-------------------------------------------------------------------------------
States == {"ABSENT", "DRAFT", "IN_REVIEW", "APPROVED", "REJECTED"}

\* An administrator's confirmation binds the content and the access epoch of
\* the resource; epoch 0 is no confirmation.
Confirmation == [content: Contents \cup {NoContent}, epoch: Nat]
Unconfirmed == [content |-> NoContent, epoch |-> 0]

Version == [state: States, number: Nat, base: Versions \cup {NoVersion},
            author: Users \cup {NoUser}, content: Contents,
            frozen: Contents \cup {NoContent}, contributors: SUBSET Users,
            reviewer: Users \cup {NoUser}, confirmed: Confirmation]

Blank == [state |-> "ABSENT", number |-> 0, base |-> NoVersion,
          author |-> NoUser, content |-> Empty, frozen |-> NoContent,
          contributors |-> {}, reviewer |-> NoUser, confirmed |-> Unconfirmed]

Resource == [active: Jobs \cup {NoJob}, suspended: BOOLEAN,
             deleted: BOOLEAN, epoch: Nat]

\* A manifest names the versions the release depends on with the access epochs
\* of their resources.
Manifests == SUBSET [version: Versions, epoch: Nat]

\* Publications that do not run remember nothing: active release, content and
\* dependencies are local variables of _publish.
Publish == [state: {"ABSENT", "OPEN", "SUCCEEDED", "ENDED"},
            version: Versions \cup {NoVersion},
            phase: {"none", "prepared", "written"},
            expected: Jobs \cup {NoJob}, frozen: Contents \cup {NoContent},
            deps: Manifests]

NoPublish == [state |-> "ABSENT", version |-> NoVersion, phase |-> "none",
              expected |-> NoJob, frozen |-> NoContent, deps |-> {}]

Release == [state: {"ABSENT", "PREPARING", "ACTIVE", "SUPERSEDED", "FAILED"},
            manifest: Manifests]

\* Why an INVALIDATE job exists: SOURCE_UPDATED, or a change of suspension,
\* deletion or permissions; then it reads the resource when it runs.
Causes == {"updated", "changed"}

TypeOK ==
    /\ ver \in [Versions -> Version]
    /\ res \in [Resources -> Resource]
    /\ job \in [Jobs -> Publish]
    /\ rel \in [Jobs -> Release]
    /\ file \in [Jobs -> SUBSET Manifests]
    /\ late \in [Jobs -> SUBSET Manifests]
    /\ owed \in [Resources -> [Causes -> Nat]]
    /\ today \in Nat
    /\ upsets \in Nat
    /\ paused \in SUBSET Resources
    /\ disturbed \in [Jobs -> SUBSET Resources]

Init ==
    /\ ver = [v \in Versions |-> Blank]
    /\ res = [r \in Resources |-> [active |-> NoJob, suspended |-> FALSE,
                                   deleted |-> FALSE, epoch |-> 1]]
    /\ job = [j \in Jobs |-> NoPublish]
    /\ rel = [j \in Jobs |-> [state |-> "ABSENT", manifest |-> {}]]
    /\ file = [j \in Jobs |-> {}]
    /\ late = [j \in Jobs |-> {}]
    /\ owed = [r \in Resources |-> [c \in Causes |-> 0]]
    /\ today = 0
    /\ upsets = 0
    /\ paused = {}
    /\ disturbed = [j \in Jobs |-> {}]

-------------------------------------------------------------------------------
(* What the transactions look up.                                          *)

Of(r) == {v \in Versions : ResourceOf[v] = r /\ ver[v].state # "ABSENT"}

CitesOf(v) == Cites[ver[v].content]

\* Layer(v)[n] is what v reaches in exactly n citations.
Layer(v) ==
    LET L[n \in 0..MaxDepth] ==
            IF n = 0 THEN {v} ELSE UNION {CitesOf(w) : w \in L[n - 1]}
    IN  L

\* A cycle also reaches every depth.
TooDeep(v) == Layer(v)[MaxDepth] # {}

Behind(v) == Versions \cap UNION {Layer(v)[n] : n \in 1..MaxDepth}

\* An invisible dependency makes a version invisible.
Accessible(v) ==
    /\ ~TooDeep(v)
    /\ \A w \in {v} \cup Behind(v) : ~res[ResourceOf[w]].deleted

\* Slip: a release counts as soon as it is being prepared.
PublishedOrPreparing(j) == rel[j].state \in {"PREPARING", "ACTIVE", "SUPERSEDED"}

Published(j) == rel[j].state \in {"ACTIVE", "SUPERSEDED"}

Released == {job[j].version : j \in {k \in Jobs : Published(k)}}

Intact(v) == ver[v].state = "APPROVED" /\ ver[v].frozen = ver[v].content

InUse(r) == ~res[r].suspended /\ ~res[r].deleted

CurrentVersion(r) ==
    IF res[r].active = NoJob THEN NoVersion ELSE job[res[r].active].version

IndependentReview(v) ==
    ver[v].reviewer # NoUser /\ ver[v].reviewer \notin ver[v].contributors

Confirmed(v) ==
    /\ ver[v].confirmed # Unconfirmed
    /\ InUse(ResourceOf[v])
    /\ ver[v].confirmed.content = ver[v].frozen
    /\ ver[v].confirmed.epoch = res[ResourceOf[v]].epoch

\* Versions can be relied on by a version under publication.
Reliable(ws) ==
    \A w \in ws : InUse(ResourceOf[w]) /\ Intact(w) /\ w \in Released

OpenJob(v) == \E j \in Jobs : job[j].state = "OPEN" /\ job[j].version = v

\* A released version whose day has not come is passed over, ...
InForce(v) == ValidFrom[ver[v].content] <= today

Candidates(r) == {v \in Of(r) : v \in Released /\ InForce(v)}

\* ... and among the others the highest number represents the resource.
Selected(v) ==
    /\ v \in Candidates(ResourceOf[v]) /\ Intact(v)
    /\ \A w \in Candidates(ResourceOf[v]) : ver[w].number <= ver[v].number

\* Evidence as if the resource r were not suspended.
EligibleIn(r, v) ==
    /\ ~TooDeep(v)
    /\ \A w \in {v} \cup Behind(v) :
          /\ Selected(w)
          /\ ~res[ResourceOf[w]].deleted
          /\ res[ResourceOf[w]].suspended => ResourceOf[w] = r

-------------------------------------------------------------------------------
(* Drafts and their review.                                                *)

IsNext(n, r) ==
    /\ \A w \in Of(r) : ver[w].number < n
    /\ n = 1 \/ \E w \in Of(r) : ver[w].number = n - 1

\* createDraftVersion; a draft starts as a copy of its base.
CreateDraft(u, v, b) ==
    LET r == ResourceOf[v] IN
    /\ ver[v].state = "ABSENT"
    /\ ~res[r].deleted
    /\ ~\E w \in Of(r) : ver[w].state = "DRAFT" /\ ver[w].author = u
    /\ IF b = NoVersion THEN res[r].active = NoJob ELSE b \in Of(r) /\ Accessible(b)
    /\ \E n \in 1..MaxNumber :
          /\ IsNext(n, r)
          /\ ver' = [ver EXCEPT ![v] =
                 [Blank EXCEPT !.state = "DRAFT", !.number = n, !.base = b,
                               !.author = u, !.contributors = {u},
                               !.content = IF b = NoVersion THEN Empty ELSE ver[b].content]]
    /\ UNCHANGED <<res, job, rel, file, late, owed, today, upsets, paused, disturbed>>

\* Slip: a version can be edited whatever its state.
EditableAlways(v) == ver[v].state # "ABSENT"

\* require_draft
Editable(v) == ver[v].state = "DRAFT" /\ ~res[ResourceOf[v]].deleted

\* editVersion; citations lead to released versions that can be read.
Edit(u, v, c) ==
    /\ Editable(v)
    /\ v \notin Cites[c] /\ Cites[c] \subseteq Released
    /\ UNCHANGED <<res, job, rel, file, late, owed, today, upsets, paused, disturbed>>
    /\ ver' = [ver EXCEPT ![v].content = c, ![v].frozen = NoContent,
                          ![v].contributors = @ \cup {u}]
    /\ Accessible(v)'

\* discardDraft, unless something refers to it.
Discard(v) ==
    /\ Editable(v)
    /\ \A w \in Versions : ver[w].base # v /\ v \notin CitesOf(w)
    /\ \A j \in Jobs : job[j].version # v
    /\ ver' = [ver EXCEPT ![v] = Blank]
    /\ UNCHANGED <<res, job, rel, file, late, owed, today, upsets, paused, disturbed>>

Submit(u, v) ==
    /\ Editable(v)
    /\ Accessible(v)
    /\ ver[v].content # Empty
    /\ ~OpenJob(v)
    /\ ver' = [ver EXCEPT ![v].state = "IN_REVIEW", ![v].frozen = ver[v].content,
                          ![v].contributors = @ \cup {u}]
    /\ UNCHANGED <<res, job, rel, file, late, owed, today, upsets, paused, disturbed>>

\* reviewVersion: one final decision, by somebody who did not contribute.
Review(u, v) ==
    /\ ver[v].state = "IN_REVIEW"
    /\ Accessible(v)
    /\ u \notin ver[v].contributors
    /\ ver[v].frozen = ver[v].content
    /\ \/ ver' = [ver EXCEPT ![v].state = "APPROVED", ![v].reviewer = u]
       \/ ver' = [ver EXCEPT ![v].state = "REJECTED"]
    /\ UNCHANGED <<res, job, rel, file, late, owed, today, upsets, paused, disturbed>>

\* An administrator confirms the newest version as it stands; a confirmation
\* that no longer binds is never replaced.
Confirm(v) ==
    LET r == ResourceOf[v] IN
    /\ ver[v].state \in {"DRAFT", "IN_REVIEW", "APPROVED"}
    /\ InUse(r) /\ Accessible(v) /\ Reliable(CitesOf(v))
    /\ \A w \in Of(r) : ver[w].number <= ver[v].number
    /\ ~OpenJob(v)
    /\ ver[v].frozen \in {NoContent, ver[v].content}
    /\ ver[v].content # Empty
    /\ ver[v].confirmed = Unconfirmed
    /\ ver' = [ver EXCEPT ![v].state = "APPROVED", ![v].frozen = ver[v].content,
                   ![v].confirmed = [content |-> ver[v].content, epoch |-> res[r].epoch]]
    /\ UNCHANGED <<res, job, rel, file, late, owed, today, upsets, paused, disturbed>>

-------------------------------------------------------------------------------
(* Publication.                                                            *)

Approved(v) == Intact(v) /\ (IndependentReview(v) \/ Confirmed(v))

\* publishVersion
RequestPublish(j, v) ==
    /\ job[j].state = "ABSENT"
    /\ Accessible(v) /\ Approved(v)
    /\ v \notin Released /\ ~OpenJob(v)
    /\ job' = [job EXCEPT ![j].state = "OPEN", ![j].version = v]
    /\ UNCHANGED <<ver, res, rel, file, late, owed, today, upsets, paused, disturbed>>

\* Slip: any approved version may follow the current one.
BaseIgnored(v) == TRUE

BaseFits(v) == CurrentVersion(ResourceOf[v]) \in {NoVersion, v, ver[v].base}

\* _publish_checks
PublishChecks(v) ==
    /\ InUse(ResourceOf[v]) /\ Accessible(v)
    /\ Approved(v)
    /\ BaseFits(v)
    /\ Reliable(Behind(v))

\* Slip: dependencies are remembered without the epochs of their resources.
DependenciesByName(v) == {[version |-> w, epoch |-> 1] : w \in Behind(v)}

Dependencies(v) ==
    {[version |-> w, epoch |-> res[ResourceOf[w]].epoch] : w \in Behind(v)}

Forgotten(j) == [job[j] EXCEPT !.phase = "none", !.expected = NoJob,
                            !.frozen = NoContent, !.deps = {}]

\* First transaction of _publish: the version is already current ...
AlreadyCurrent(j) ==
    LET v == job[j].version IN
    /\ job[j].state = "OPEN" /\ job[j].phase = "none"
    /\ PublishChecks(v)
    /\ CurrentVersion(ResourceOf[v]) = v
    /\ job' = [job EXCEPT ![j].state = "SUCCEEDED"]
    /\ UNCHANGED <<ver, res, rel, file, late, owed, today, upsets, paused, disturbed>>

\* Slip: the handler remembers the current version instead of its release.
PreparedWithVersion(j) ==
    [job[j] EXCEPT !.phase = "prepared", !.frozen = ver[job[j].version].frozen,
                   !.expected = CurrentVersion(ResourceOf[job[j].version]),
                   !.deps = Dependencies(job[j].version)]

PreparedJob(j) ==
    [job[j] EXCEPT !.phase = "prepared", !.frozen = ver[job[j].version].frozen,
                   !.expected = res[ResourceOf[job[j].version]].active,
                   !.deps = Dependencies(job[j].version)]

\* ... or a release is prepared.
Prepare(j) ==
    LET v == job[j].version IN
    /\ job[j].state = "OPEN" /\ job[j].phase = "none"
    /\ PublishChecks(v)
    /\ CurrentVersion(ResourceOf[v]) # v
    /\ ver[v].content # Empty
    /\ rel' = [rel EXCEPT ![j].state = "PREPARING"]
    /\ job' = [job EXCEPT ![j] = PreparedJob(j)]
    /\ disturbed' = [disturbed EXCEPT ![j] = {}]
    /\ UNCHANGED <<ver, res, file, late, owed, today, upsets, paused>>

\* Files carry the name of the release, whichever attempt writes them.
WriteArtifacts(j) ==
    /\ job[j].phase = "prepared"
    /\ job' = [job EXCEPT ![j].phase = "written"]
    /\ file' = [file EXCEPT ![j] = {job[j].deps}]
    /\ UNCHANGED <<ver, res, rel, late, owed, today, upsets, paused, disturbed>>

\* Slip: the second transaction does not look at the active release again.
SameSources(j) ==
    LET v == job[j].version IN
    /\ ver[v].frozen = job[j].frozen
    /\ Dependencies(v) = job[j].deps

\* Nothing that the first transaction read has changed.
Undisturbed(j) ==
    LET v == job[j].version IN
    /\ res[ResourceOf[v]].active = job[j].expected
    /\ ver[v].frozen = job[j].frozen
    /\ Dependencies(v) = job[j].deps

\* Second transaction of _publish.
Activate(j) ==
    LET r == ResourceOf[job[j].version]
        old == res[r].active IN
    /\ job[j].phase = "written"
    /\ PublishChecks(job[j].version)
    /\ Undisturbed(j)
    /\ file[j] = {job[j].deps}
    /\ rel' = [k \in Jobs |->
                 IF k = j THEN [state |-> "ACTIVE", manifest |-> job[j].deps]
                 ELSE IF k = old THEN [rel[k] EXCEPT !.state = "SUPERSEDED"] ELSE rel[k]]
    /\ res' = [res EXCEPT ![r].active = j]
    /\ job' = [job EXCEPT ![j] = [Forgotten(j) EXCEPT !.state = "SUCCEEDED"]]
    /\ owed' = IF old = NoJob THEN owed ELSE [owed EXCEPT ![r]["updated"] = @ + 1]
    /\ UNCHANGED <<ver, file, late, today, upsets, paused, disturbed>>

Upset == upsets < MaxUpsets /\ upsets' = upsets + 1

\* The attempt ends without its row: a crash, or a lost lease whose thread may
\* still be about to write.  Recovery starts over.
Break(j) ==
    /\ job[j].phase # "none"
    /\ Upset
    /\ job' = [job EXCEPT ![j] = Forgotten(j)]
    /\ \/ UNCHANGED late
       \/ /\ Stalls /\ job[j].phase = "prepared"
          /\ late' = [late EXCEPT ![j] = @ \cup {job[j].deps}]
    /\ UNCHANGED <<ver, res, rel, file, owed, today, paused, disturbed>>

\* The stalled thread writes, and then fails at its checkpoint.
LateWrite(j) ==
    \E m \in late[j] :
       /\ file' = [file EXCEPT ![j] = {m}]
       /\ late' = [late EXCEPT ![j] = @ \ {m}]
       /\ UNCHANGED <<ver, res, job, rel, owed, today, upsets, paused, disturbed>>

\* _fail: refused by a check, cancelled or failed; some failures are retried.
Fail(j) ==
    /\ job[j].state = "OPEN"
    /\ Upset
    /\ \E s \in {"OPEN", "ENDED"} : job' = [job EXCEPT ![j] = [Forgotten(j) EXCEPT !.state = s]]
    /\ rel' = [rel EXCEPT ![j].state = IF @ = "PREPARING" THEN "FAILED" ELSE @]
    /\ UNCHANGED <<ver, res, file, late, owed, today, paused, disturbed>>

\* cancelJob or recovery ends a job that no worker holds; nobody looks at its
\* release.
Cancel(j) ==
    /\ job[j].state = "OPEN" /\ job[j].phase = "none"
    /\ Upset
    /\ job' = [job EXCEPT ![j].state = "ENDED"]
    /\ UNCHANGED <<ver, res, rel, file, late, owed, today, paused, disturbed>>

\* retryJob
Retry(j) ==
    /\ job[j].state = "ENDED"
    /\ Accessible(job[j].version) /\ Approved(job[j].version)
    /\ job' = [job EXCEPT ![j].state = "OPEN"]
    /\ UNCHANGED <<ver, res, rel, file, late, owed, today, upsets, paused, disturbed>>

-------------------------------------------------------------------------------
(* Suspension, deletion and what follows from them.                        *)

\* Every change of a resource's availability moves its access epoch, and may
\* disturb a publication that has begun.
Disturb(rs) ==
    disturbed' = [j \in Jobs |-> IF job[j].phase = "none" THEN disturbed[j]
                                 ELSE disturbed[j] \cup rs]

Bumped(r, suspended, deleted) ==
    [res[r] EXCEPT !.suspended = suspended, !.deleted = deleted, !.epoch = @ + 1]

\* The request records an INVALIDATE job in its own transaction.
Change(r, suspended, deleted) ==
    /\ res[r].epoch < MaxEpoch
    /\ res' = [res EXCEPT ![r] = Bumped(r, suspended, deleted)]
    /\ owed' = [owed EXCEPT ![r]["changed"] = @ + 1]
    /\ Disturb({r})
    /\ UNCHANGED <<ver, job, rel, file, late, today, upsets>>

\* updateResourceMetadata, suspended = true
Suspend(r) ==
    /\ ~res[r].deleted
    /\ Change(r, TRUE, FALSE)
    /\ paused' = paused \cup {r}

\* Slip: whatever has been published can be used again.
HasRelease(r) == res[r].active # NoJob

CanResume(r) == res[r].active # NoJob /\ EligibleIn(r, CurrentVersion(r))

\* updateResourceMetadata, suspended = false
Resume(r) ==
    /\ ~res[r].deleted /\ CanResume(r)
    /\ Change(r, FALSE, FALSE)
    /\ paused' = paused \ {r}

\* trash_or_restore; what is restored stays suspended.
TrashOrRestore(r) ==
    /\ Change(r, TRUE, ~res[r].deleted)
    /\ paused' = paused \cup {r}

\* setPermissions: who may see the resource changes, not whether it is in use.
SetPermissions(r) ==
    /\ ~res[r].deleted
    /\ Change(r, res[r].suspended, FALSE)
    /\ UNCHANGED paused

\* Slip: only what cites the resource directly is found.
DirectDownstream(r) ==
    {ResourceOf[v] : v \in {w \in Versions : CitesOf(w) \cap Of(r) # {}}} \ {r}

\* _invalidation_scope
Downstream(r) ==
    {ResourceOf[v] : v \in {w \in Versions : Behind(w) \cap Of(r) # {}}} \ {r}

\* _invalidate; a crash before its last transaction makes it run again.
Invalidate(r, cause) ==
    /\ owed[r][cause] > 0
    /\ \/ owed' = [owed EXCEPT ![r][cause] = @ - 1] /\ UNCHANGED upsets
       \/ Upset /\ UNCHANGED owed
    /\ IF cause = "updated" \/ ~InUse(r)
       THEN /\ \A d \in Downstream(r) : res[d].epoch < MaxEpoch
            /\ res' = [d \in Resources |-> IF d \in Downstream(r)
                                           THEN Bumped(d, TRUE, res[d].deleted) ELSE res[d]]
            /\ Disturb(Downstream(r))
       ELSE UNCHANGED <<res, disturbed>>
    /\ UNCHANGED <<ver, job, rel, file, late, today, paused>>

DraftStep ==
    \E v \in Versions :
       \/ \E u \in Users, b \in Versions \cup {NoVersion} : CreateDraft(u, v, b)
       \/ \E u \in Users, c \in Contents : Edit(u, v, c)
       \/ Discard(v)
       \/ \E u \in Users : Submit(u, v)
       \/ \E u \in Users : Review(u, v)
       \/ Confirm(v)

PublishStep ==
    \E j \in Jobs :
       \/ \E v \in Versions : RequestPublish(j, v)
       \/ AlreadyCurrent(j)
       \/ Prepare(j)
       \/ WriteArtifacts(j)
       \/ Activate(j)
       \/ Break(j)
       \/ LateWrite(j)
       \/ Fail(j)
       \/ Cancel(j)
       \/ Retry(j)

ResourceStep ==
    \E r \in Resources :
       \/ Suspend(r)
       \/ Resume(r)
       \/ TrashOrRestore(r)
       \/ SetPermissions(r)
       \/ \E cause \in Causes : Invalidate(r, cause)

\* Midnight: versions that were released before come into force.
NextDay ==
    /\ today < MaxDay
    /\ today' = today + 1
    /\ UNCHANGED <<ver, res, job, rel, file, late, owed, upsets, paused, disturbed>>

Next == DraftStep \/ PublishStep \/ ResourceStep \/ NextDay

Spec == Init /\ [][Next]_vars

-------------------------------------------------------------------------------
(* Properties.                                                             *)

ReleasesOf(r) ==
    {j \in Jobs : rel[j].state \in {"ACTIVE", "SUPERSEDED"} /\ ResourceOf[job[j].version] = r}

\* The active release of a resource is the one release in state ACTIVE, and it
\* shows the highest-numbered version ever released.  Two tables and an ordering
\* that _publish never computes must agree for the readers of
\* select_applicable_version, which knows numbers and dates only, to come to the
\* active release once it is in force (docs/architecture.md:16).
ActiveIsLatest ==
    \A r \in Resources :
       /\ res[r].active = NoJob <=> ReleasesOf(r) = {}
       /\ \A j \in ReleasesOf(r) :
             /\ rel[j].state = "ACTIVE" <=> j = res[r].active
             /\ ver[job[j].version].number <= ver[CurrentVersion(r)].number

\* Retries and second requests never release one version twice.
ReleasedOnce ==
    \A j, k \in Jobs :
       (job[j].version = job[k].version /\ {rel[j].state, rel[k].state} \subseteq {"ACTIVE", "SUPERSEDED"})
          => j = k

\* What was released is still, word for word, what somebody approved who did
\* not contribute to it, or what an administrator confirmed.
ReleasedAsApproved ==
    \A j \in Jobs : rel[j].state \in {"ACTIVE", "SUPERSEDED"} =>
       LET v == ver[job[j].version] IN
       /\ v.state = "APPROVED" /\ v.content = v.frozen /\ v.content # Empty
       /\ \/ v.reviewer \in Users \ v.contributors
          \/ v.confirmed.content = v.content

\* A released version cites released versions only, and no chain of citations
\* leads back to it (contracts/schema.sql:307).
ReleasedGrounded ==
    \A j \in Jobs : rel[j].state \in {"ACTIVE", "SUPERSEDED"} =>
       /\ job[j].version \notin Behind(job[j].version)
       /\ \A w \in CitesOf(job[j].version) :
             \E k \in Jobs : rel[k].state \in {"ACTIVE", "SUPERSEDED"} /\ job[k].version = w

\* What was submitted has content, what was approved is unchanged and was
\* approved by somebody entitled, and versions are numbered after their bases.
VersionSound(v) ==
    /\ ver[v].state = "IN_REVIEW" => ver[v].content # Empty
    /\ ver[v].state = "APPROVED" =>
          /\ ver[v].content # Empty /\ ver[v].frozen = ver[v].content
          /\ ver[v].reviewer \in Users \ ver[v].contributors \/ ver[v].confirmed.content = ver[v].content
    /\ ver[v].base # NoVersion =>
          ver[v].base \in Of(ResourceOf[v]) /\ ver[ver[v].base].number < ver[v].number

\* A publication that runs is open, and what it found active was released by a
\* finished publication of another version; what it remembers of a resource is
\* not newer than the resource, and older if the resource was disturbed.
JobSound(j) ==
    /\ job[j].state # "ABSENT" => job[j].version \in Versions
    /\ job[j].phase # "none" =>
          /\ job[j].state = "OPEN"
          /\ job[j].expected # NoJob =>
                /\ job[job[j].expected].state = "SUCCEEDED"
                /\ job[job[j].expected].version # job[j].version
          /\ \A d \in job[j].deps :
                /\ d.epoch <= res[ResourceOf[d.version]].epoch
                /\ ResourceOf[d.version] \in disturbed[j] => d.epoch # res[ResourceOf[d.version]].epoch
    /\ Published(j) => job[j].state = "SUCCEEDED" /\ ver[job[j].version].state = "APPROVED"

ResourceSound(r) ==
    res[r].active # NoJob =>
       Published(res[r].active) /\ ResourceOf[job[res[r].active].version] = r

\* Together with ActiveIsLatest, every step preserves these, and the properties
\* of releases follow from them.
PublicationInv ==
    /\ \A v \in Versions : VersionSound(v)
    /\ \A j \in Jobs : JobSound(j)
    /\ \A r \in Resources : ResourceSound(r)
    /\ ActiveIsLatest

\* A release is activated only if nothing it depends on was suspended, resumed,
\* deleted or restored since its preparation read the dependencies, even if
\* everything looks the same again at the end.
UndisturbedRelease ==
    [][\A j \in Jobs : (rel'[j].state = "ACTIVE" /\ rel[j].state # "ACTIVE") =>
          \A w \in Behind(job[j].version) : ResourceOf[w] \notin disturbed[j]]_vars

\* While a resource is suspended or deleted by request, everything that is
\* active and rests on it is suspended as well, or an INVALIDATE job for it is
\* still to be done.
PauseReachesReaders ==
    \A r \in paused, q \in Resources :
       (q # r /\ res[q].active # NoJob /\ InUse(q) /\ \E w \in Behind(CurrentVersion(q)) : ResourceOf[w] = r)
          => owed[r]["changed"] > 0

\* A later version was released and is in force: readers of w are sent to it.
Outdated(w) ==
    \E x \in Candidates(ResourceOf[w]) : ver[x].number > ver[w].number

\* A suspended resource that was never released, or whose active version is or
\* rests on a released version that is outdated, ...
Stranded(r) ==
    /\ res[r].suspended
    /\ \/ res[r].active = NoJob
       \/ \E w \in Behind(CurrentVersion(r)) \cup {CurrentVersion(r)} : w \in Released /\ Outdated(w)

\* ... stays so: it can be neither resumed nor replaced, whatever people do.  As
\* long as the later version waits for its day, there still is a way back.
NoWayBack == [][\A q \in Resources : Stranded(q) => Stranded(q)']_vars

Promise == INSTANCE ReleaseLine WITH
    text <- [v \in Versions |-> ver[v].content],
    base <- [v \in Versions |-> ver[v].base],
    approved <- {v \in Versions : ver[v].state = "APPROVED"},
    released <- Released,
    current <- [r \in Resources |-> CurrentVersion(r)]

\* Publication keeps the promise to readers.
KeepsPromise == Promise!Spec
===============================================================================
