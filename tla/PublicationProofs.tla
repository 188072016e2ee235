--------------------------- MODULE PublicationProofs ---------------------------
(***************************************************************************)
(* Theorems of Publication, for any resources, versions, people, contents  *)
(* and jobs, any number of crashes and stalls, and every bound.            *)
(***************************************************************************)
EXTENDS Publication, TLAPS

-------------------------------------------------------------------------------
(* Types.                                                                  *)

\* A job that has begun has a version.
Named == \A j \in Jobs :
    /\ job[j].state # "ABSENT" => job[j].version \in Versions
    /\ job[j].phase # "none" => job[j].state = "OPEN"

\* Dependencies are pairs of a version and an epoch.
LEMMA DependenciesType ==
    ASSUME TypeOK, NEW v
    PROVE  Dependencies(v) \in Manifests
BY RowsAssumption DEF Dependencies, Behind, Manifests, TypeOK, Resource

\* Rows that only a draft's actions build.
LEMMA BlankType == Blank \in Version /\ Unconfirmed \in Confirmation
BY ContentsAssumption DEF Blank, Version, Unconfirmed, Confirmation, States

LEMMA InitTypes == Init => TypeOK /\ Named
BY BlankType, RowsAssumption, LimitsAssumption
DEF Init, TypeOK, Named, Blank, Resource, Publish, NoPublish, Release, Manifests, Causes

\* Every step of a draft changes one version into a well-formed version.
LEMMA DraftTypes ==
    ASSUME TypeOK, DraftStep
    PROVE  /\ ver' \in [Versions -> Version]
           /\ UNCHANGED <<res, job, rel, file, late, owed, today, upsets, paused, disturbed>>
<1>1. ASSUME NEW v \in Versions, NEW u \in Users, NEW b \in Versions \cup {NoVersion},
             CreateDraft(u, v, b)
      PROVE  ver' \in [Versions -> Version]
  <2>1. PICK n \in 1..MaxNumber : ver' = [ver EXCEPT ![v] =
                 [Blank EXCEPT !.state = "DRAFT", !.number = n, !.base = b,
                               !.author = u, !.contributors = {u},
                               !.content = IF b = NoVersion THEN Empty ELSE ver[b].content]]
    BY <1>1 DEF CreateDraft
  <2>2. (IF b = NoVersion THEN Empty ELSE ver[b].content) \in Contents
    BY ContentsAssumption DEF TypeOK, Version
  <2>3. n \in Nat
    BY LimitsAssumption
  <2>4. ver'[v] \in Version
    BY <2>1, <2>2, <2>3, BlankType DEF TypeOK, Version, States, Blank
  <2>. QED BY <2>1, <2>4 DEF TypeOK
<1>2. ASSUME NEW v \in Versions, NEW u \in Users, NEW c \in Contents, Edit(u, v, c)
      PROVE  ver' \in [Versions -> Version]
  <2>1. ver[v] \in Version
    BY DEF TypeOK
  <2>2. [ver[v] EXCEPT !.content = c, !.frozen = NoContent,
                       !.contributors = ver[v].contributors \cup {u}] \in Version
    BY <2>1 DEF Version
  <2>. QED BY <1>2, <2>2 DEF Edit, TypeOK
<1>3. ASSUME NEW v \in Versions, Discard(v)
      PROVE  ver' \in [Versions -> Version]
  BY <1>3, BlankType DEF Discard, TypeOK
<1>4. ASSUME NEW v \in Versions, NEW u \in Users, Submit(u, v)
      PROVE  ver' \in [Versions -> Version]
  <2>1. ver[v] \in Version
    BY DEF TypeOK
  <2>2. [ver[v] EXCEPT !.state = "IN_REVIEW", !.frozen = ver[v].content,
                       !.contributors = ver[v].contributors \cup {u}] \in Version
    BY <2>1 DEF Version, States
  <2>. QED BY <1>4, <2>2 DEF Submit, TypeOK
<1>5. ASSUME NEW v \in Versions, NEW u \in Users, Review(u, v)
      PROVE  ver' \in [Versions -> Version]
  <2>1. ver[v] \in Version
    BY DEF TypeOK
  <2>2. /\ [ver[v] EXCEPT !.state = "APPROVED", !.reviewer = u] \in Version
        /\ [ver[v] EXCEPT !.state = "REJECTED"] \in Version
    BY <2>1 DEF Version, States
  <2>. QED BY <1>5, <2>2 DEF Review, TypeOK
<1>6. ASSUME NEW v \in Versions, Confirm(v)
      PROVE  ver' \in [Versions -> Version]
  <2>1. [content |-> ver[v].content, epoch |-> res[ResourceOf[v]].epoch] \in Confirmation
    BY RowsAssumption DEF TypeOK, Version, Resource, Confirmation
  <2>2. ver[v] \in Version
    BY DEF TypeOK
  <2>3. [ver[v] EXCEPT !.state = "APPROVED", !.frozen = ver[v].content,
             !.confirmed = [content |-> ver[v].content, epoch |-> res[ResourceOf[v]].epoch]] \in Version
    BY <2>1, <2>2 DEF Version, States
  <2>. QED BY <1>6, <2>3 DEF Confirm, TypeOK
<1>7. ASSUME NEW v \in Versions, NEW u \in Users, NEW b, NEW c,
             CreateDraft(u, v, b) \/ Edit(u, v, c) \/ Submit(u, v) \/ Review(u, v)
      PROVE  UNCHANGED <<res, job, rel, file, late, owed, today, upsets, paused, disturbed>>
  BY <1>7 DEF CreateDraft, Edit, Submit, Review
<1>8. ASSUME NEW v \in Versions, Discard(v) \/ Confirm(v)
      PROVE  UNCHANGED <<res, job, rel, file, late, owed, today, upsets, paused, disturbed>>
  BY <1>8 DEF Discard, Confirm
<1>. QED BY <1>1, <1>2, <1>3, <1>4, <1>5, <1>6, <1>7, <1>8 DEF DraftStep

\* A step that gives one job a well-formed row in a proper state.
LEMMA OneJobTypes ==
    ASSUME TypeOK, Named, NEW j \in Jobs, NEW row \in Publish,
           row.state # "ABSENT" => row.version \in Versions,
           row.phase # "none" => row.state = "OPEN",
           job' = [job EXCEPT ![j] = row]
    PROVE  job' \in [Jobs -> Publish] /\ Named'
BY DEF TypeOK, Named

\* What a publication remembers and forgets is well typed.
LEMMA ForgottenTypes ==
    ASSUME TypeOK, NEW j \in Jobs
    PROVE  /\ Forgotten(j) \in Publish
           /\ Forgotten(j).state = job[j].state /\ Forgotten(j).version = job[j].version
           /\ Forgotten(j).phase = "none"
<1>1. job[j] \in Publish
  BY DEF TypeOK
<1>. QED BY <1>1 DEF Forgotten, Publish, Manifests

LEMMA EndedTypes ==
    ASSUME NEW row \in Publish, NEW s \in {"OPEN", "SUCCEEDED", "ENDED"}
    PROVE  /\ [row EXCEPT !.state = s] \in Publish
           /\ [row EXCEPT !.state = s].state = s
           /\ [row EXCEPT !.state = s].version = row.version
           /\ [row EXCEPT !.state = s].phase = row.phase
           /\ [row EXCEPT !.state = s].expected = row.expected
           /\ [row EXCEPT !.state = s].deps = row.deps
BY DEF Publish

LEMMA PreparedTypes ==
    ASSUME TypeOK, Named, NEW j \in Jobs, job[j].state # "ABSENT"
    PROVE  /\ PreparedJob(j) \in Publish
           /\ PreparedJob(j).state = job[j].state /\ PreparedJob(j).version = job[j].version
           /\ PreparedJob(j).expected = res[ResourceOf[job[j].version]].active
           /\ PreparedJob(j).deps = Dependencies(job[j].version)
<1>1. job[j].version \in Versions
  BY DEF Named
<1>2. ver[job[j].version].frozen \in Contents \cup {NoContent}
  BY <1>1 DEF TypeOK, Version
<1>3. res[ResourceOf[job[j].version]].active \in Jobs \cup {NoJob}
  BY <1>1, RowsAssumption DEF TypeOK, Resource
<1>4. Dependencies(job[j].version) \in Manifests
  BY DependenciesType
<1>5. job[j] \in Publish
  BY DEF TypeOK
<1>. QED BY <1>2, <1>3, <1>4, <1>5 DEF PreparedJob, Publish

\* Every step of a publication preserves the types.
LEMMA PublishStepTypes ==
    ASSUME TypeOK, Named, PublishStep
    PROVE  TypeOK' /\ Named'
<1>1. ASSUME NEW j \in Jobs, NEW v \in Versions, RequestPublish(j, v) PROVE TypeOK' /\ Named'
  <2>1. job[j] \in Publish /\ job[j].state = "ABSENT"
    BY <1>1 DEF TypeOK, RequestPublish
  <2>2. job[j].phase = "none"
    BY <2>1 DEF Named
  <2>3. /\ [job[j] EXCEPT !.state = "OPEN", !.version = v] \in Publish
        /\ [job[j] EXCEPT !.state = "OPEN", !.version = v].version = v
        /\ [job[j] EXCEPT !.state = "OPEN", !.version = v].phase = "none"
    BY <2>1, <2>2 DEF Publish
  <2>4. job' = [job EXCEPT ![j] = [job[j] EXCEPT !.state = "OPEN", !.version = v]]
    BY <1>1 DEF RequestPublish, TypeOK
  <2>5. job' \in [Jobs -> Publish] /\ Named'
    BY <2>3, <2>4, OneJobTypes
  <2>. QED BY <1>1, <2>5 DEF RequestPublish, TypeOK
<1>2. ASSUME NEW j \in Jobs, NEW s \in {"OPEN", "SUCCEEDED", "ENDED"},
             job' = [job EXCEPT ![j].state = s],
             job[j].state # "ABSENT", job[j].phase = "none"
      PROVE  job' \in [Jobs -> Publish] /\ Named'
  <2>1. job[j] \in Publish /\ job[j].version \in Versions
    BY <1>2 DEF TypeOK, Named
  <2>2. job' = [job EXCEPT ![j] = [job[j] EXCEPT !.state = s]]
    BY <1>2
  <2>3. /\ [job[j] EXCEPT !.state = s] \in Publish
        /\ [job[j] EXCEPT !.state = s].version \in Versions
        /\ [job[j] EXCEPT !.state = s].phase = "none"
    BY <1>2, <2>1, EndedTypes
  <2>. QED BY <2>2, <2>3, OneJobTypes
<1>3. ASSUME NEW j \in Jobs, AlreadyCurrent(j) PROVE TypeOK' /\ Named'
  <2>1. job' \in [Jobs -> Publish] /\ Named'
    BY <1>2, <1>3 DEF AlreadyCurrent
  <2>. QED BY <1>3, <2>1 DEF AlreadyCurrent, TypeOK
<1>4. ASSUME NEW j \in Jobs, Prepare(j) PROVE TypeOK' /\ Named'
  <2>1. job[j].state = "OPEN" /\ job' = [job EXCEPT ![j] = PreparedJob(j)]
    BY <1>4 DEF Prepare
  <2>2. job[j].version \in Versions
    BY <2>1 DEF Named
  <2>3. job' \in [Jobs -> Publish] /\ Named'
    BY <2>1, <2>2, PreparedTypes, OneJobTypes
  <2>4. rel' \in [Jobs -> Release]
    BY <1>4 DEF Prepare, TypeOK, Release
  <2>. QED BY <1>4, <2>3, <2>4 DEF Prepare, TypeOK
<1>5. ASSUME NEW j \in Jobs, WriteArtifacts(j) PROVE TypeOK' /\ Named'
  <2>1. job[j] \in Publish /\ job[j].state = "OPEN" /\ job[j].version \in Versions
    BY <1>5 DEF WriteArtifacts, TypeOK, Named
  <2>2. /\ [job[j] EXCEPT !.phase = "written"] \in Publish
        /\ [job[j] EXCEPT !.phase = "written"].state = "OPEN"
        /\ [job[j] EXCEPT !.phase = "written"].version = job[j].version
        /\ job[j].deps \in Manifests
    BY <2>1 DEF Publish
  <2>3. job' = [job EXCEPT ![j] = [job[j] EXCEPT !.phase = "written"]]
    BY <1>5 DEF WriteArtifacts
  <2>4. job' \in [Jobs -> Publish] /\ Named'
    BY <2>1, <2>2, <2>3, OneJobTypes
  <2>. QED BY <1>5, <2>2, <2>4 DEF WriteArtifacts, TypeOK
<1>6. ASSUME NEW j \in Jobs, Activate(j) PROVE TypeOK' /\ Named'
  <2>1. /\ job[j].state = "OPEN" /\ job[j].version \in Versions
        /\ ResourceOf[job[j].version] \in Resources
    BY <1>6, RowsAssumption DEF Activate, Named
  <2>2. job' = [job EXCEPT ![j] = [Forgotten(j) EXCEPT !.state = "SUCCEEDED"]]
    BY <1>6 DEF Activate
  <2>3. job' \in [Jobs -> Publish] /\ Named'
    <3>1. Forgotten(j) \in Publish /\ Forgotten(j).version \in Versions /\ Forgotten(j).phase = "none"
      BY <2>1, ForgottenTypes
    <3>2. /\ [Forgotten(j) EXCEPT !.state = "SUCCEEDED"] \in Publish
          /\ [Forgotten(j) EXCEPT !.state = "SUCCEEDED"].version \in Versions
          /\ [Forgotten(j) EXCEPT !.state = "SUCCEEDED"].phase = "none"
      BY <3>1, EndedTypes
    <3>. QED BY <2>2, <3>2, OneJobTypes
  <2>4. job[j].deps \in Manifests
    BY DEF TypeOK, Publish
  <2>5. rel' \in [Jobs -> Release]
    <3>1. ASSUME NEW row \in Release PROVE [row EXCEPT !.state = "SUPERSEDED"] \in Release
      BY DEF Release
    <3>2. [state |-> "ACTIVE", manifest |-> job[j].deps] \in Release
      BY <2>4 DEF Release
    <3>. QED BY <1>6, <3>1, <3>2 DEF Activate, TypeOK
  <2>6. res' \in [Resources -> Resource]
    <3>1. ASSUME NEW row \in Resource PROVE [row EXCEPT !.active = j] \in Resource
      BY DEF Resource
    <3>. QED BY <1>6, <2>1, <3>1 DEF Activate, TypeOK
  <2>7. owed' \in [Resources -> [Causes -> Nat]]
    BY <1>6, <2>1 DEF Activate, TypeOK, Causes
  <2>. QED BY <1>6, <2>3, <2>5, <2>6, <2>7 DEF Activate, TypeOK
<1>7. ASSUME NEW j \in Jobs, Break(j) PROVE TypeOK' /\ Named'
  <2>1. job' = [job EXCEPT ![j] = Forgotten(j)] /\ upsets' \in Nat
    BY <1>7 DEF Break, Upset, TypeOK
  <2>2. job' \in [Jobs -> Publish] /\ Named'
    <3>1. Forgotten(j).state # "ABSENT" => Forgotten(j).version \in Versions
      BY ForgottenTypes DEF Named
    <3>. QED BY <2>1, <3>1, ForgottenTypes, OneJobTypes
  <2>3. job[j].deps \in Manifests
    BY DEF TypeOK, Publish
  <2>4. late' \in [Jobs -> SUBSET Manifests]
    BY <1>7, <2>3 DEF Break, TypeOK
  <2>. QED BY <1>7, <2>1, <2>2, <2>4 DEF Break, TypeOK
<1>8. ASSUME NEW j \in Jobs, LateWrite(j) PROVE TypeOK' /\ Named'
  BY <1>8 DEF LateWrite, TypeOK, Named
<1>9. ASSUME NEW j \in Jobs, Fail(j) PROVE TypeOK' /\ Named'
  <2>1. PICK s \in {"OPEN", "ENDED"} : job' = [job EXCEPT ![j] = [Forgotten(j) EXCEPT !.state = s]]
    BY <1>9 DEF Fail
  <2>2. job[j].version \in Versions
    BY <1>9 DEF Fail, Named
  <2>3. job' \in [Jobs -> Publish] /\ Named'
    <3>1. Forgotten(j) \in Publish /\ Forgotten(j).version \in Versions /\ Forgotten(j).phase = "none"
      BY <2>2, ForgottenTypes
    <3>2. /\ [Forgotten(j) EXCEPT !.state = s] \in Publish
          /\ [Forgotten(j) EXCEPT !.state = s].version \in Versions
          /\ [Forgotten(j) EXCEPT !.state = s].phase = "none"
      <4>1. s \in {"OPEN", "SUCCEEDED", "ENDED"}
        OBVIOUS
      <4>. QED BY <3>1, <4>1, EndedTypes
    <3>. QED BY <2>1, <3>2, OneJobTypes
  <2>4. rel' \in [Jobs -> Release] /\ upsets' \in Nat
    BY <1>9 DEF Fail, Upset, TypeOK, Release
  <2>. QED BY <1>9, <2>3, <2>4 DEF Fail, TypeOK
<1>10. ASSUME NEW j \in Jobs, Cancel(j) PROVE TypeOK' /\ Named'
  <2>1. job' \in [Jobs -> Publish] /\ Named'
    BY <1>2, <1>10 DEF Cancel
  <2>. QED BY <1>10, <2>1 DEF Cancel, Upset, TypeOK
<1>11. ASSUME NEW j \in Jobs, Retry(j) PROVE TypeOK' /\ Named'
  <2>1. job[j].phase = "none"
    BY <1>11 DEF Retry, Named
  <2>2. job' \in [Jobs -> Publish] /\ Named'
    BY <1>2, <1>11, <2>1 DEF Retry
  <2>. QED BY <1>11, <2>2 DEF Retry, TypeOK
<1>. QED
  BY <1>1, <1>3, <1>4, <1>5, <1>6, <1>7, <1>8, <1>9, <1>10, <1>11 DEF PublishStep

\* Every change of a resource preserves the types, and only its availability and
\* its epoch change.
LEMMA ResourceStepTypes ==
    ASSUME TypeOK, Named, ResourceStep
    PROVE  TypeOK' /\ Named'
<1>1. ASSUME NEW r \in Resources, NEW suspended \in BOOLEAN, NEW deleted \in BOOLEAN
      PROVE  Bumped(r, suspended, deleted) \in Resource
  <2>1. res[r] \in Resource
    BY DEF TypeOK
  <2>2. res[r].epoch + 1 \in Nat
    BY <2>1 DEF Resource
  <2>. QED BY <2>1, <2>2, Zenon DEF Bumped, Resource
<1>2. ASSUME NEW rs \in SUBSET Resources, Disturb(rs)
      PROVE  disturbed' \in [Jobs -> SUBSET Resources]
  BY <1>2 DEF Disturb, TypeOK
<1>3. ASSUME NEW r \in Resources, NEW suspended \in BOOLEAN, NEW deleted \in BOOLEAN,
             Change(r, suspended, deleted), paused' \in SUBSET Resources
      PROVE  TypeOK' /\ Named'
  <2>1. res' \in [Resources -> Resource]
    BY <1>1, <1>3 DEF Change, TypeOK
  <2>2. owed' \in [Resources -> [Causes -> Nat]]
    BY <1>3 DEF Change, TypeOK, Causes
  <2>3. disturbed' \in [Jobs -> SUBSET Resources]
    BY <1>2, <1>3 DEF Change
  <2>. QED BY <1>3, <2>1, <2>2, <2>3 DEF Change, TypeOK, Named
<1>4. ASSUME NEW r \in Resources
      PROVE  res[r].suspended \in BOOLEAN /\ res[r].deleted \in BOOLEAN
  BY DEF TypeOK, Resource
<1>5. ASSUME NEW r \in Resources, Suspend(r) \/ Resume(r) \/ TrashOrRestore(r)
      PROVE  TypeOK' /\ Named'
  <2>1. paused' \in SUBSET Resources
    BY <1>5 DEF Suspend, Resume, TrashOrRestore, TypeOK
  <2>. QED BY <1>3, <1>4, <1>5, <2>1 DEF Suspend, Resume, TrashOrRestore
<1>6. ASSUME NEW r \in Resources, SetPermissions(r) PROVE TypeOK' /\ Named'
  <2>1. paused' \in SUBSET Resources
    BY <1>6 DEF SetPermissions, TypeOK
  <2>. QED BY <1>3, <1>4, <1>6, <2>1 DEF SetPermissions
<1>7. ASSUME NEW r \in Resources, NEW cause \in Causes, Invalidate(r, cause)
      PROVE  TypeOK' /\ Named'
  <2>1. Downstream(r) \in SUBSET Resources
    BY RowsAssumption DEF Downstream
  <2>2. res' \in [Resources -> Resource] /\ disturbed' \in [Jobs -> SUBSET Resources]
    <3>1. CASE cause = "updated" \/ ~InUse(r)
      <4>1. /\ res' = [d \in Resources |-> IF d \in Downstream(r)
                                           THEN Bumped(d, TRUE, res[d].deleted) ELSE res[d]]
            /\ Disturb(Downstream(r))
        BY <1>7, <3>1 DEF Invalidate
      <4>2. \A d \in Resources : Bumped(d, TRUE, res[d].deleted) \in Resource /\ res[d] \in Resource
        BY <1>1, <1>4 DEF TypeOK
      <4>. QED BY <1>2, <2>1, <4>1, <4>2
    <3>2. CASE ~(cause = "updated" \/ ~InUse(r))
      BY <1>7, <3>2 DEF Invalidate, TypeOK
    <3>. QED BY <3>1, <3>2
  <2>3. owed' \in [Resources -> [Causes -> Nat]] /\ upsets' \in Nat
    <3>1. owed[r][cause] \in Nat /\ owed[r][cause] > 0
      BY <1>7 DEF Invalidate, TypeOK
    <3>. QED BY <1>7, <3>1 DEF Invalidate, Upset, TypeOK
  <2>. QED BY <1>7, <2>2, <2>3 DEF Invalidate, TypeOK, Named
<1>. QED BY <1>5, <1>6, <1>7 DEF ResourceStep

LEMMA NextTypes == TypeOK /\ Named /\ [Next]_vars => TypeOK' /\ Named'
<1>. SUFFICES ASSUME TypeOK, Named, [Next]_vars PROVE TypeOK' /\ Named'
  OBVIOUS
<1>1. CASE DraftStep
  BY <1>1, DraftTypes DEF TypeOK, Named
<1>2. CASE PublishStep
  BY <1>2, PublishStepTypes
<1>3. CASE ResourceStep
  BY <1>3, ResourceStepTypes
<1>4. CASE NextDay \/ UNCHANGED vars
  BY <1>4 DEF NextDay, vars, TypeOK, Named
<1>. QED BY <1>1, <1>2, <1>3, <1>4 DEF Next

\* Every variable keeps its type, and a publication that runs is open: what a
\* request, a handler or a stalled thread writes is a well-formed row.
THEOREM PublicationTypes == Spec => []TypeOK
<1>1. Spec => [](TypeOK /\ Named)
  BY InitTypes, NextTypes, PTL DEF Spec
<1>. QED BY <1>1, PTL

-------------------------------------------------------------------------------
(* The inductive invariant.                                                *)

Inv == TypeOK /\ Named /\ PublicationInv

\* JobSound in two parts: what a running publication remembers ...
Remembers(j) ==
    job[j].phase # "none" =>
       /\ job[j].expected # NoJob =>
             /\ job[job[j].expected].state = "SUCCEEDED"
             /\ job[job[j].expected].version # job[j].version
       /\ \A d \in job[j].deps :
             /\ d.epoch <= res[ResourceOf[d.version]].epoch
             /\ ResourceOf[d.version] \in disturbed[j] => d.epoch # res[ResourceOf[d.version]].epoch

\* ... and what a finished one has released.
Finished(j) ==
    Published(j) => job[j].state = "SUCCEEDED" /\ ver[job[j].version].state = "APPROVED"

LEMMA JobParts ==
    ASSUME Named, NEW j \in Jobs
    PROVE  JobSound(j) <=> Remembers(j) /\ Finished(j)
BY DEF Named, JobSound, Remembers, Finished

LEMMA InitInv == Init => Inv
<1>. SUFFICES ASSUME Init PROVE Inv
  OBVIOUS
<1>1. TypeOK /\ Named
  BY InitTypes
<1>2. ASSUME NEW j \in Jobs PROVE JobSound(j) /\ ~Published(j)
  BY DEF Init, JobSound, NoPublish, Published
<1>3. ASSUME NEW v \in Versions PROVE VersionSound(v)
  BY DEF Init, VersionSound, Blank
<1>4. ASSUME NEW r \in Resources PROVE ResourceSound(r)
  BY DEF Init, ResourceSound
<1>5. ActiveIsLatest
  BY <1>2 DEF Init, ActiveIsLatest, ReleasesOf, Published
<1>. QED BY <1>1, <1>2, <1>3, <1>4, <1>5 DEF Inv, PublicationInv

\* A published release has a version of its own resource.
LEMMA PublishedVersion ==
    ASSUME Inv, NEW j \in Jobs, Published(j)
    PROVE  /\ job[j].version \in Versions
           /\ job[j].state = "SUCCEEDED" /\ job[j].phase = "none"
           /\ ver[job[j].version].state = "APPROVED"
BY DEF Inv, Named, PublicationInv, JobSound

\* Steps that leave releases as they are.
LEMMA ReleasesFrame ==
    ASSUME Inv,
           \A r \in Resources : res'[r].active = res[r].active,
           \A j \in Jobs : /\ rel'[j].state = "ACTIVE" <=> rel[j].state = "ACTIVE"
                           /\ rel'[j].state = "SUPERSEDED" <=> rel[j].state = "SUPERSEDED",
           \A j \in Jobs : Published(j) =>
                 /\ job'[j].version = job[j].version /\ job'[j].state = job[j].state
                 /\ ver'[job[j].version].number = ver[job[j].version].number
                 /\ ver'[job[j].version].state = "APPROVED"
    PROVE  /\ \A j \in Jobs : Finished(j)'
           /\ \A r \in Resources : ResourceSound(r)'
           /\ ActiveIsLatest'
<1>1. \A j \in Jobs : Published(j)' <=> Published(j)
  BY DEF Published
<1>2. ASSUME NEW j \in Jobs PROVE Finished(j)'
  BY <1>1, PublishedVersion DEF Finished
<1>3. ASSUME NEW r \in Resources, res[r].active # NoJob
      PROVE  /\ res[r].active \in Jobs /\ Published(res[r].active)
             /\ ResourceOf[job[res[r].active].version] = r
  BY <1>3 DEF Inv, TypeOK, Resource, PublicationInv, ResourceSound
<1>4. ASSUME NEW r \in Resources PROVE ResourceSound(r)'
  BY <1>1, <1>3 DEF ResourceSound
<1>5. ASSUME NEW r \in Resources PROVE ReleasesOf(r)' = ReleasesOf(r)
  BY <1>1 DEF ReleasesOf, Published
<1>6. ASSUME NEW r \in Resources, NEW j \in ReleasesOf(r)
      PROVE  /\ rel'[j].state = "ACTIVE" <=> j = res'[r].active
             /\ ver'[job'[j].version].number <= ver'[CurrentVersion(r)'].number
  <2>1. /\ rel[j].state = "ACTIVE" <=> j = res[r].active
        /\ ver[job[j].version].number <= ver[CurrentVersion(r)].number
        /\ res[r].active # NoJob
        /\ j \in Jobs /\ Published(j)
    BY DEF Inv, PublicationInv, ActiveIsLatest, ReleasesOf, Published
  <2>2. CurrentVersion(r) = job[res[r].active].version /\ CurrentVersion(r)' = job'[res[r].active].version
    BY <2>1 DEF CurrentVersion
  <2>. QED BY <1>3, <2>1, <2>2
<1>7. ASSUME NEW r \in Resources PROVE res'[r].active = NoJob <=> ReleasesOf(r) = {}
  BY DEF Inv, PublicationInv, ActiveIsLatest
<1>. QED BY <1>2, <1>4, <1>5, <1>6, <1>7 DEF ActiveIsLatest

\* A job that does not step remembers the same, unless a resource changes; then
\* its epoch tells.
LEMMA RememberFrame ==
    ASSUME Inv, NEW j \in Jobs, job'[j] = job[j],
           \A k \in Jobs : job[k].state = "SUCCEEDED" =>
                 job'[k].state = "SUCCEEDED" /\ job'[k].version = job[k].version,
           job[j].phase # "none" => \A r \in Resources :
                 /\ res'[r].epoch \in Nat
                 /\ res[r].epoch <= res'[r].epoch
                 /\ r \in disturbed'[j] => r \in disturbed[j] \/ res[r].epoch < res'[r].epoch
    PROVE  Remembers(j)'
<1>. SUFFICES ASSUME job[j].phase # "none" PROVE Remembers(j)'
  BY DEF Remembers
<1>1. Remembers(j)
  BY JobParts DEF Inv, PublicationInv
<1>2. job[j].expected \in Jobs \cup {NoJob} /\ job[j].deps \in Manifests
  BY DEF Inv, TypeOK, Publish
<1>3. ASSUME NEW d \in job[j].deps
      PROVE  /\ d.epoch <= res'[ResourceOf[d.version]].epoch
             /\ ResourceOf[d.version] \in disturbed'[j] => d.epoch # res'[ResourceOf[d.version]].epoch
  <2>1. d.epoch \in Nat /\ ResourceOf[d.version] \in Resources
    BY <1>2, RowsAssumption DEF Manifests
  <2>2. res[ResourceOf[d.version]].epoch \in Nat
    BY <2>1 DEF Inv, TypeOK, Resource
  <2>. QED BY <1>1, <2>1, <2>2 DEF Remembers
<1>. QED BY <1>1, <1>2, <1>3 DEF Remembers

\* Steps that change one version, which was not approved or stays so.
LEMMA OneVersion ==
    ASSUME Inv, TypeOK', Named', NEW v \in Versions,
           UNCHANGED <<res, job, rel, file, late, owed, today, upsets, paused, disturbed>>,
           \A w \in Versions \ {v} : ver'[w] = ver[w],
           ver[v].state = "APPROVED" => ver'[v].state = "APPROVED",
           \/ ver'[v].number = ver[v].number /\ ver'[v].state # "ABSENT"
           \/ ver[v].state # "APPROVED" /\ \A w \in Versions : ver[w].base # v,
           VersionSound(v)'
    PROVE  Inv'
<1>1. ASSUME NEW w \in Versions PROVE VersionSound(w)'
  <2>. SUFFICES ASSUME w # v PROVE VersionSound(w)'
    OBVIOUS
  <2>1. VersionSound(w) /\ ver'[w] = ver[w]
    BY DEF Inv, PublicationInv
  <2>2. ver'[w].base # NoVersion =>
          ver'[w].base \in Of(ResourceOf[w])' /\ ver'[ver'[w].base].number < ver'[w].number
    BY <2>1 DEF VersionSound, Of
  <2>. QED BY <2>1, <2>2 DEF VersionSound
<1>2. ASSUME NEW j \in Jobs, Published(j)
      PROVE  /\ ver'[job[j].version].number = ver[job[j].version].number
             /\ ver'[job[j].version].state = "APPROVED"
  BY <1>2, PublishedVersion
<1>3. /\ \A j \in Jobs : Finished(j)'
      /\ \A r \in Resources : ResourceSound(r)'
      /\ ActiveIsLatest'
  BY <1>2, ReleasesFrame
<1>4. ASSUME NEW j \in Jobs PROVE Remembers(j)'
  BY JobParts DEF Inv, PublicationInv, Remembers
<1>5. ASSUME NEW j \in Jobs PROVE JobSound(j)'
  BY <1>3, <1>4 DEF JobSound, Remembers, Finished, Named
<1>. QED BY <1>1, <1>3, <1>5 DEF Inv, PublicationInv

\* No version is derived from an absent one.
LEMMA BasePresent ==
    ASSUME Inv, NEW v \in Versions, ver[v].state = "ABSENT", NEW w \in Versions
    PROVE  ver[w].base # v
BY RowsAssumption DEF Inv, PublicationInv, VersionSound, Of

LEMMA DraftInv == Inv /\ DraftStep => Inv'
<1>. SUFFICES ASSUME Inv, DraftStep PROVE Inv'
  OBVIOUS
<1>1. /\ TypeOK' /\ Named'
      /\ UNCHANGED <<res, job, rel, file, late, owed, today, upsets, paused, disturbed>>
  BY DraftTypes, NextTypes DEF Inv, Next
<1>2. ASSUME NEW v \in Versions PROVE ver[v] \in Version /\ v \in DOMAIN ver /\ VersionSound(v)
  BY DEF Inv, TypeOK, PublicationInv
<1>3. ASSUME NEW v \in Versions, NEW u \in Users, NEW b \in Versions \cup {NoVersion},
             CreateDraft(u, v, b)
      PROVE  Inv'
  <2>. DEFINE row(n) == [Blank EXCEPT !.state = "DRAFT", !.number = n, !.base = b,
                               !.author = u, !.contributors = {u},
                               !.content = IF b = NoVersion THEN Empty ELSE ver[b].content]
  <2>1. PICK n \in 1..MaxNumber : IsNext(n, ResourceOf[v]) /\ ver' = [ver EXCEPT ![v] = row(n)]
    BY <1>3 DEF CreateDraft
  <2>2. ver[v].state = "ABSENT" /\ (b # NoVersion => b \in Of(ResourceOf[v]))
    BY <1>3 DEF CreateDraft
  <2>3. ver'[v] = row(n)
    BY <1>2, <2>1
  <2>4. row(n).state = "DRAFT" /\ row(n).base = b /\ row(n).number = n
    BY DEF Blank
  <2>5. b # NoVersion => /\ b \in Of(ResourceOf[v])' /\ ver'[b] = ver[b] /\ ver[b].number < n
    BY <2>1, <2>2 DEF Of, IsNext
  <2>6. VersionSound(v)'
    BY <2>3, <2>4, <2>5 DEF VersionSound
  <2>7. \A w \in Versions \ {v} : ver'[w] = ver[w]
    BY <2>1
  <2>. QED BY <1>1, <2>2, <2>6, <2>7, BasePresent, OneVersion
<1>4. ASSUME NEW v \in Versions, \A w \in Versions \ {v} : ver'[w] = ver[w],
             ver'[v].number = ver[v].number /\ ver'[v].base = ver[v].base /\ ver'[v].state # "ABSENT",
             ver[v].state = "APPROVED" => ver'[v].state = "APPROVED",
             ver'[v].state = "IN_REVIEW" => ver'[v].content # Empty,
             ver'[v].state = "APPROVED" =>
                /\ ver'[v].content # Empty /\ ver'[v].frozen = ver'[v].content
                /\ ver'[v].reviewer \in Users \ ver'[v].contributors \/ ver'[v].confirmed.content = ver'[v].content
      PROVE  Inv'
  <2>1. ver'[v].base # NoVersion =>
          ver'[v].base \in Of(ResourceOf[v])' /\ ver'[ver'[v].base].number < ver'[v].number
    BY <1>2, <1>4 DEF VersionSound, Of, Version
  <2>2. VersionSound(v)'
    BY <1>4, <2>1 DEF VersionSound
  <2>. QED BY <1>1, <1>4, <2>2, OneVersion
<1>5. ASSUME NEW v \in Versions, NEW u \in Users, NEW c \in Contents, Edit(u, v, c) PROVE Inv'
  <2>. DEFINE row == [ver[v] EXCEPT !.content = c, !.frozen = NoContent,
                                    !.contributors = ver[v].contributors \cup {u}]
  <2>1. ver' = [ver EXCEPT ![v] = row] /\ ver[v].state = "DRAFT"
    BY <1>5 DEF Edit, Editable
  <2>2. ver'[v] = row /\ \A w \in Versions \ {v} : ver'[w] = ver[w]
    BY <1>2, <2>1
  <2>3. ver'[v].number = ver[v].number /\ ver'[v].base = ver[v].base /\ ver'[v].state = ver[v].state
    BY <1>2, <2>2 DEF Version
  <2>. HIDE DEF row
  <2>. QED BY <1>4, <2>1, <2>2, <2>3
<1>6. ASSUME NEW v \in Versions, Discard(v) PROVE Inv'
  <2>1. /\ ver' = [ver EXCEPT ![v] = Blank] /\ ver[v].state = "DRAFT"
        /\ \A w \in Versions : ver[w].base # v
    BY <1>6 DEF Discard, Editable
  <2>2. ver'[v] = Blank
    BY <1>2, <2>1
  <2>3. VersionSound(v)'
    BY <2>2 DEF VersionSound, Blank
  <2>. QED BY <1>1, <2>1, <2>3, OneVersion
<1>7. ASSUME NEW v \in Versions, NEW u \in Users, Submit(u, v) PROVE Inv'
  <2>. DEFINE row == [ver[v] EXCEPT !.state = "IN_REVIEW", !.frozen = ver[v].content,
                                    !.contributors = ver[v].contributors \cup {u}]
  <2>1. /\ ver' = [ver EXCEPT ![v] = row] /\ ver[v].state = "DRAFT"
        /\ ver[v].content # Empty
    BY <1>7 DEF Submit, Editable
  <2>2. ver'[v] = row /\ \A w \in Versions \ {v} : ver'[w] = ver[w]
    BY <1>2, <2>1
  <2>3. /\ ver'[v].number = ver[v].number /\ ver'[v].base = ver[v].base
        /\ ver'[v].state = "IN_REVIEW" /\ ver'[v].content = ver[v].content
    BY <1>2, <2>2 DEF Version
  <2>. HIDE DEF row
  <2>. QED BY <1>4, <2>1, <2>2, <2>3
<1>8. ASSUME NEW v \in Versions, NEW u \in Users, Review(u, v) PROVE Inv'
  <2>1. /\ ver[v].state = "IN_REVIEW" /\ u \notin ver[v].contributors
        /\ ver[v].frozen = ver[v].content /\ ver[v].content # Empty
    BY <1>2, <1>8 DEF Review, VersionSound
  <2>2. CASE ver' = [ver EXCEPT ![v].state = "APPROVED", ![v].reviewer = u]
    <3>. DEFINE row == [ver[v] EXCEPT !.state = "APPROVED", !.reviewer = u]
    <3>1. ver' = [ver EXCEPT ![v] = row]
      BY <2>2
    <3>2. ver'[v] = row /\ \A w \in Versions \ {v} : ver'[w] = ver[w]
      BY <1>2, <3>1
    <3>3. /\ ver'[v].number = ver[v].number /\ ver'[v].base = ver[v].base
          /\ ver'[v].state = "APPROVED" /\ ver'[v].content = ver[v].content
          /\ ver'[v].frozen = ver[v].frozen /\ ver'[v].contributors = ver[v].contributors
          /\ ver'[v].reviewer = u
      BY <1>2, <3>2 DEF Version
    <3>. HIDE DEF row
    <3>. QED BY <1>4, <2>1, <3>1, <3>2, <3>3
  <2>3. CASE ver' = [ver EXCEPT ![v].state = "REJECTED"]
    <3>. DEFINE row == [ver[v] EXCEPT !.state = "REJECTED"]
    <3>1. ver' = [ver EXCEPT ![v] = row]
      BY <2>3
    <3>2. ver'[v] = row /\ \A w \in Versions \ {v} : ver'[w] = ver[w]
      BY <1>2, <3>1
    <3>3. ver'[v].number = ver[v].number /\ ver'[v].base = ver[v].base /\ ver'[v].state = "REJECTED"
      BY <1>2, <3>2 DEF Version
    <3>. HIDE DEF row
    <3>. QED BY <1>4, <2>1, <3>1, <3>2, <3>3
  <2>. QED BY <1>8, <2>2, <2>3 DEF Review
<1>9. ASSUME NEW v \in Versions, Confirm(v) PROVE Inv'
  <2>. DEFINE seal == [content |-> ver[v].content, epoch |-> res[ResourceOf[v]].epoch]
              row == [ver[v] EXCEPT !.state = "APPROVED", !.frozen = ver[v].content,
                                    !.confirmed = seal]
  <2>1. ver' = [ver EXCEPT ![v] = row] /\ ver[v].content # Empty
    BY <1>9 DEF Confirm
  <2>2. ver'[v] = row /\ \A w \in Versions \ {v} : ver'[w] = ver[w]
    BY <1>2, <2>1
  <2>3. /\ ver'[v].number = ver[v].number /\ ver'[v].base = ver[v].base
        /\ ver'[v].state = "APPROVED" /\ ver'[v].content = ver[v].content
        /\ ver'[v].frozen = ver[v].content /\ ver'[v].confirmed = seal
    BY <1>2, <2>2 DEF Version
  <2>. HIDE DEF row
  <2>. QED BY <1>4, <2>1, <2>2, <2>3
<1>. QED BY <1>3, <1>5, <1>6, <1>7, <1>8, <1>9 DEF DraftStep

\* Steps of one publication that has released nothing and does not release.
LEMMA OnePublication ==
    ASSUME Inv, TypeOK', Named', NEW j \in Jobs, UNCHANGED <<ver, res>>,
           \A k \in Jobs \ {j} :
              job'[k] = job[k] /\ rel'[k] = rel[k] /\ disturbed'[k] = disturbed[k],
           job[j].state # "SUCCEEDED", ~Published(j)', Remembers(j)'
    PROVE  Inv'
<1>1. ~Published(j)
  BY PublishedVersion
<1>2. /\ \A k \in Jobs : Finished(k)'
      /\ \A r \in Resources : ResourceSound(r)'
      /\ ActiveIsLatest'
  <2>1. \A k \in Jobs : /\ rel'[k].state = "ACTIVE" <=> rel[k].state = "ACTIVE"
                        /\ rel'[k].state = "SUPERSEDED" <=> rel[k].state = "SUPERSEDED"
    BY <1>1 DEF Published
  <2>2. ASSUME NEW k \in Jobs, Published(k)
        PROVE  /\ job'[k].version = job[k].version /\ job'[k].state = job[k].state
               /\ ver'[job[k].version].number = ver[job[k].version].number
               /\ ver'[job[k].version].state = "APPROVED"
    BY <1>1, <2>2, PublishedVersion
  <2>. QED BY <2>1, <2>2, ReleasesFrame
<1>3. ASSUME NEW k \in Jobs, k # j PROVE Remembers(k)'
  <2>1. ASSUME NEW r \in Resources
        PROVE  /\ res'[r].epoch \in Nat /\ res[r].epoch <= res'[r].epoch
               /\ r \in disturbed'[k] => r \in disturbed[k]
    BY <1>3 DEF Inv, TypeOK, Resource
  <2>. QED BY <1>3, <2>1, RememberFrame
<1>4. ASSUME NEW k \in Jobs PROVE JobSound(k)'
  BY <1>2, <1>3 DEF JobSound, Remembers, Finished, Named
<1>5. ASSUME NEW v \in Versions PROVE VersionSound(v)'
  BY DEF Inv, PublicationInv, VersionSound, Of
<1>. QED BY <1>2, <1>4, <1>5 DEF Inv, PublicationInv

\* What is active follows the base of its successor, which is newer than
\* everything released before it.
LEMMA SuccessorIsNewest ==
    ASSUME Inv, NEW j \in Jobs, Activate(j)
    PROVE  /\ job[j].state = "OPEN" /\ job[j].version \in Versions
           /\ ~Published(j)
           /\ \A k \in ReleasesOf(ResourceOf[job[j].version]) :
                 ver[job[k].version].number < ver[job[j].version].number
<1>. DEFINE v == job[j].version
            r == ResourceOf[v]
            old == res[r].active
<1>1. job[j].state = "OPEN" /\ v \in Versions /\ r \in Resources /\ job[j].phase = "written"
  BY RowsAssumption DEF Activate, Inv, Named
<1>2. ~Published(j)
  BY <1>1, PublishedVersion
<1>3. ASSUME NEW k \in ReleasesOf(r)
      PROVE  ver[job[k].version].number < ver[v].number
  <2>1. /\ old # NoJob /\ k \in Jobs /\ Published(k)
        /\ ver[job[k].version].number <= ver[CurrentVersion(r)].number
    BY <1>1 DEF Inv, PublicationInv, ActiveIsLatest, ReleasesOf, Published
  <2>2. old \in Jobs /\ Published(old) /\ CurrentVersion(r) = job[old].version
    BY <1>1, <2>1 DEF CurrentVersion, Inv, TypeOK, Resource, PublicationInv, ResourceSound
  <2>3. CurrentVersion(r) \in Versions
    BY <2>2, PublishedVersion
  <2>4. CurrentVersion(r) \in {NoVersion, v, ver[v].base} /\ old = job[j].expected
    BY DEF Activate, PublishChecks, BaseFits, Undisturbed
  <2>5. CurrentVersion(r) # v
    BY <1>1, <2>1, <2>2, <2>4 DEF Inv, PublicationInv, JobSound
  <2>6. CurrentVersion(r) = ver[v].base /\ ver[v].base # NoVersion
    BY <2>3, <2>4, <2>5, RowsAssumption
  <2>7. ver[CurrentVersion(r)].number < ver[v].number
    BY <1>1, <2>6 DEF Inv, PublicationInv, VersionSound
  <2>8. /\ ver[job[k].version].number \in Nat /\ ver[CurrentVersion(r)].number \in Nat
        /\ ver[v].number \in Nat
    BY <1>1, <2>1, <2>3, PublishedVersion DEF Inv, TypeOK, Version
  <2>. QED BY <2>1, <2>7, <2>8
<1>. QED BY <1>1, <1>2, <1>3

\* What a step of Activate does to jobs, resources and releases.
LEMMA ActivateEffect ==
    ASSUME Inv, NEW j \in Jobs, Activate(j)
    PROVE  /\ job'[j].state = "SUCCEEDED" /\ job'[j].version = job[j].version /\ job'[j].phase = "none"
           /\ \A k \in Jobs \ {j} : job'[k] = job[k]
           /\ res'[ResourceOf[job[j].version]].active = j
           /\ \A q \in Resources \ {ResourceOf[job[j].version]} : res'[q] = res[q]
           /\ \A q \in Resources : res'[q].epoch = res[q].epoch
           /\ rel'[j].state = "ACTIVE"
           /\ \A k \in Jobs \ {j} : IF k = res[ResourceOf[job[j].version]].active
                                   THEN rel'[k].state = "SUPERSEDED" ELSE rel'[k] = rel[k]
           /\ \A k \in Jobs : Published(k)' <=> Published(k) \/ k = j
<1>. DEFINE v == job[j].version
            r == ResourceOf[v]
            old == res[r].active
<1>1. /\ job[j].state = "OPEN" /\ v \in Versions /\ r \in Resources /\ ~Published(j)
  BY SuccessorIsNewest, RowsAssumption
<1>2. /\ job'[j].state = "SUCCEEDED" /\ job'[j].version = v /\ job'[j].phase = "none"
      /\ \A k \in Jobs \ {j} : job'[k] = job[k]
  <2>1. job'[j] = [Forgotten(j) EXCEPT !.state = "SUCCEEDED"] /\ \A k \in Jobs \ {j} : job'[k] = job[k]
    BY DEF Activate, Inv, TypeOK
  <2>2. Forgotten(j) \in Publish /\ Forgotten(j).version = v /\ Forgotten(j).phase = "none"
    BY ForgottenTypes DEF Inv
  <2>. QED BY <2>1, <2>2, EndedTypes
<1>4. /\ res'[r].active = j /\ \A q \in Resources \ {r} : res'[q] = res[q]
      /\ \A q \in Resources : res'[q].epoch = res[q].epoch
  <2>1. res' = [res EXCEPT ![r] = [res[r] EXCEPT !.active = j]] /\ res[r] \in Resource
    BY <1>1 DEF Activate, Inv, TypeOK
  <2>2. res'[r] = [res[r] EXCEPT !.active = j] /\ \A q \in Resources \ {r} : res'[q] = res[q]
    BY <1>1, <2>1 DEF Inv, TypeOK
  <2>3. [res[r] EXCEPT !.active = j].active = j /\ [res[r] EXCEPT !.active = j].epoch = res[r].epoch
    BY <2>1 DEF Resource
  <2>. QED BY <2>2, <2>3
<1>5. /\ rel'[j].state = "ACTIVE"
      /\ \A k \in Jobs \ {j} : IF k = old THEN rel'[k].state = "SUPERSEDED" ELSE rel'[k] = rel[k]
  <2>1. rel' = [k \in Jobs |->
                 IF k = j THEN [state |-> "ACTIVE", manifest |-> job[j].deps]
                 ELSE IF k = old THEN [rel[k] EXCEPT !.state = "SUPERSEDED"] ELSE rel[k]]
    BY DEF Activate
  <2>2. ASSUME NEW k \in Jobs PROVE [rel[k] EXCEPT !.state = "SUPERSEDED"].state = "SUPERSEDED"
    <3>1. rel[k] \in Release
      BY DEF Inv, TypeOK
    <3>. QED BY <3>1 DEF Release
  <2>. QED BY <2>1, <2>2
<1>6. old # NoJob => old \in Jobs /\ Published(old) /\ ResourceOf[job[old].version] = r
  <2>1. old \in Jobs \cup {NoJob}
    BY <1>1 DEF Inv, TypeOK, Resource
  <2>2. ResourceSound(r)
    BY <1>1 DEF Inv, PublicationInv
  <2>. QED BY <2>1, <2>2 DEF ResourceSound
<1>7. \A k \in Jobs : Published(k)' <=> Published(k) \/ k = j
  BY <1>5, <1>6, RowsAssumption DEF Published
<1>. QED BY <1>2, <1>4, <1>5, <1>7

LEMMA ActivateInv == ASSUME Inv, TypeOK', Named', NEW j \in Jobs, Activate(j) PROVE Inv'
<1>. DEFINE v == job[j].version
            r == ResourceOf[v]
            old == res[r].active
<1>1. /\ job[j].state = "OPEN" /\ v \in Versions /\ r \in Resources /\ ~Published(j)
      /\ \A k \in ReleasesOf(r) : ver[job[k].version].number < ver[v].number
  BY SuccessorIsNewest, RowsAssumption
<1>2. /\ job'[j].state = "SUCCEEDED" /\ job'[j].version = v /\ job'[j].phase = "none"
      /\ \A k \in Jobs \ {j} : job'[k] = job[k]
  BY ActivateEffect
<1>3. UNCHANGED <<ver, disturbed>>
  BY DEF Activate
<1>4. /\ res'[r].active = j /\ \A q \in Resources \ {r} : res'[q] = res[q]
      /\ \A q \in Resources : res'[q].epoch = res[q].epoch
  BY ActivateEffect
<1>5. /\ rel'[j].state = "ACTIVE"
      /\ \A k \in Jobs \ {j} : IF k = old THEN rel'[k].state = "SUPERSEDED" ELSE rel'[k] = rel[k]
  BY ActivateEffect
<1>6. old # NoJob => old \in Jobs /\ Published(old) /\ ResourceOf[job[old].version] = r
  <2>1. old \in Jobs \cup {NoJob}
    BY <1>1 DEF Inv, TypeOK, Resource
  <2>2. ResourceSound(r)
    BY <1>1 DEF Inv, PublicationInv
  <2>. QED BY <2>1, <2>2 DEF ResourceSound
<1>7. \A k \in Jobs : Published(k)' <=> Published(k) \/ k = j
  BY ActivateEffect
<1>8. /\ ReleasesOf(r)' = ReleasesOf(r) \cup {j}
      /\ \A q \in Resources \ {r} : ReleasesOf(q)' = ReleasesOf(q)
  BY <1>1, <1>2, <1>7 DEF ReleasesOf, Published
<1>9. ASSUME NEW k \in Jobs PROVE JobSound(k)'
  <2>1. CASE k = j
    <3>1. ver[v].state = "APPROVED"
      BY DEF Activate, PublishChecks, Approved, Intact
    <3>. QED BY <1>1, <1>2, <1>3, <2>1, <3>1 DEF JobSound
  <2>2. CASE k # j
    <3>1. Finished(k)'
      BY <1>2, <1>3, <1>7, <2>2, PublishedVersion DEF Finished
    <3>2. ASSUME NEW q \in Resources
          PROVE  /\ res'[q].epoch \in Nat /\ res[q].epoch <= res'[q].epoch
                 /\ q \in disturbed'[k] => q \in disturbed[k]
      BY <1>3, <1>4 DEF Inv, TypeOK, Resource
    <3>3. ASSUME NEW i \in Jobs, job[i].state = "SUCCEEDED"
          PROVE  job'[i].state = "SUCCEEDED" /\ job'[i].version = job[i].version
      BY <1>1, <1>2, <3>3
    <3>4. Remembers(k)'
      BY <1>2, <2>2, <3>2, <3>3, RememberFrame
    <3>. QED BY <3>1, <3>4 DEF JobSound, Remembers, Finished, Named
  <2>. QED BY <2>1, <2>2
<1>10. ASSUME NEW q \in Resources PROVE ResourceSound(q)'
  <2>1. CASE q = r
    BY <1>2, <1>4, <1>7, <2>1 DEF ResourceSound
  <2>2. CASE q # r
    <3>1. res[q].active # NoJob =>
            /\ res[q].active \in Jobs \ {j} /\ Published(res[q].active)
            /\ ResourceOf[job[res[q].active].version] = q
      BY <1>1, <2>2 DEF Inv, TypeOK, Resource, PublicationInv, ResourceSound
    <3>. QED BY <1>2, <1>4, <1>7, <2>2, <3>1 DEF ResourceSound
  <2>. QED BY <2>1, <2>2
<1>11. ASSUME NEW q \in Resources
       PROVE  /\ res'[q].active = NoJob <=> ReleasesOf(q)' = {}
              /\ \A k \in ReleasesOf(q)' :
                    /\ rel'[k].state = "ACTIVE" <=> k = res'[q].active
                    /\ ver'[job'[k].version].number <= ver'[CurrentVersion(q)'].number
  <2>1. CASE q = r
    <3>1. CurrentVersion(q)' = v /\ ver'[v].number \in Nat
      BY <1>1, <1>2, <1>3, <1>4, <2>1, RowsAssumption DEF CurrentVersion, Inv, TypeOK, Version
    <3>2. ASSUME NEW k \in ReleasesOf(r), k # j
          PROVE  /\ rel'[k].state # "ACTIVE"
                 /\ ver'[job'[k].version].number <= ver'[v].number
      <4>1. k \in Jobs /\ Published(k) /\ (rel[k].state = "ACTIVE" <=> k = old)
        BY <1>1 DEF Inv, PublicationInv, ActiveIsLatest, ReleasesOf, Published
      <4>2. rel'[k].state # "ACTIVE"
        BY <1>5, <3>2, <4>1
      <4>3. ver[job[k].version].number \in Nat
        BY <4>1, PublishedVersion DEF Inv, TypeOK, Version
      <4>. QED BY <1>1, <1>2, <1>3, <3>1, <3>2, <4>1, <4>2, <4>3
    <3>3. /\ res'[q].active = j /\ j # NoJob /\ ReleasesOf(q)' = ReleasesOf(r) \cup {j}
          /\ rel'[j].state = "ACTIVE" /\ job'[j].version = v
      BY <1>2, <1>4, <1>5, <1>8, <2>1, RowsAssumption
    <3>. HIDE DEF v, r
    <3>4. \A k \in ReleasesOf(q)' :
             /\ rel'[k].state = "ACTIVE" <=> k = res'[q].active
             /\ ver'[job'[k].version].number <= ver'[CurrentVersion(q)'].number
      BY <3>1, <3>2, <3>3
    <3>. QED BY <3>3, <3>4
  <2>2. CASE q # r
    <3>1. ReleasesOf(q)' = ReleasesOf(q) /\ res'[q].active = res[q].active
      BY <1>4, <1>8, <2>2
    <3>2. ASSUME NEW k \in ReleasesOf(q)
          PROVE  /\ rel'[k].state = "ACTIVE" <=> k = res'[q].active
                 /\ ver'[job'[k].version].number <= ver'[CurrentVersion(q)'].number
      <4>1. /\ k \in Jobs \ {j} /\ Published(k) /\ ResourceOf[job[k].version] = q
            /\ rel[k].state = "ACTIVE" <=> k = res[q].active
            /\ ver[job[k].version].number <= ver[CurrentVersion(q)].number
            /\ res[q].active # NoJob
        BY <1>1 DEF Inv, PublicationInv, ActiveIsLatest, ReleasesOf, Published
      <4>2. res[q].active \in Jobs \ {j}
        BY <1>1, <4>1 DEF Inv, TypeOK, Resource, PublicationInv, ResourceSound
      <4>3. CurrentVersion(q)' = CurrentVersion(q)
        BY <1>2, <3>1, <4>1, <4>2 DEF CurrentVersion
      <4>4. k # old
        BY <1>6, <2>2, <4>1, RowsAssumption
      <4>. QED BY <1>2, <1>3, <1>5, <3>1, <4>1, <4>3, <4>4
    <3>3. res[q].active = NoJob <=> ReleasesOf(q) = {}
      BY DEF Inv, PublicationInv, ActiveIsLatest
    <3>. QED BY <3>1, <3>2, <3>3
  <2>. QED BY <2>1, <2>2
<1>12. ASSUME NEW w \in Versions PROVE VersionSound(w)'
  BY <1>3 DEF Inv, PublicationInv, VersionSound, Of
<1>. QED BY <1>9, <1>10, <1>11, <1>12 DEF Inv, PublicationInv, ActiveIsLatest

LEMMA PublishInv == Inv /\ PublishStep => Inv'
<1>. SUFFICES ASSUME Inv, PublishStep PROVE Inv'
  OBVIOUS
<1>1. TypeOK' /\ Named'
  BY PublishStepTypes DEF Inv
<1>2. ASSUME NEW j \in Jobs PROVE job[j] \in Publish /\ (job[j].state # "SUCCEEDED" => ~Published(j))
  BY PublishedVersion DEF Inv, TypeOK
<1>3. ASSUME NEW j \in Jobs, UNCHANGED <<ver, res, disturbed>>,
             job[j].state # "SUCCEEDED", job'[j].phase = "none",
             \A k \in Jobs \ {j} : job'[k] = job[k] /\ rel'[k] = rel[k],
             ~Published(j)'
      PROVE  Inv'
  <2>1. Remembers(j)'
    BY <1>3 DEF Remembers
  <2>. QED BY <1>1, <1>3, <2>1, OnePublication
<1>4. ASSUME NEW j \in Jobs, NEW v \in Versions, RequestPublish(j, v) PROVE Inv'
  <2>1. job' = [job EXCEPT ![j] = [job[j] EXCEPT !.state = "OPEN", !.version = v]]
    BY <1>4 DEF RequestPublish
  <2>2. job[j].state = "ABSENT" /\ job[j].phase = "none"
    BY <1>4 DEF RequestPublish, Inv, Named
  <2>3. [job[j] EXCEPT !.state = "OPEN", !.version = v].phase = "none"
    BY <1>2, <2>2 DEF Publish
  <2>4. job'[j].phase = "none" /\ \A k \in Jobs \ {j} : job'[k] = job[k]
    BY <2>1, <2>3 DEF Inv, TypeOK
  <2>5. UNCHANGED <<ver, res, rel, disturbed>>
    BY <1>4 DEF RequestPublish
  <2>. QED BY <1>2, <1>3, <2>2, <2>4, <2>5 DEF Published
<1>5. ASSUME NEW j \in Jobs, NEW s \in {"OPEN", "SUCCEEDED", "ENDED"},
             job' = [job EXCEPT ![j].state = s], UNCHANGED <<ver, res, rel, disturbed>>,
             job[j].state # "SUCCEEDED", job[j].phase = "none"
      PROVE  Inv'
  <2>1. [job[j] EXCEPT !.state = s].phase = "none"
    BY <1>2, <1>5, EndedTypes
  <2>2. job' = [job EXCEPT ![j] = [job[j] EXCEPT !.state = s]]
    BY <1>5
  <2>3. job'[j].phase = "none" /\ \A k \in Jobs \ {j} : job'[k] = job[k]
    BY <2>1, <2>2 DEF Inv, TypeOK
  <2>. QED BY <1>2, <1>3, <1>5, <2>3 DEF Published
<1>6. ASSUME NEW j \in Jobs, AlreadyCurrent(j) PROVE Inv'
  BY <1>5, <1>6 DEF AlreadyCurrent
<1>7. ASSUME NEW j \in Jobs, Cancel(j) PROVE Inv'
  BY <1>5, <1>7 DEF Cancel
<1>8. ASSUME NEW j \in Jobs, Retry(j) PROVE Inv'
  <2>1. job[j].phase = "none"
    BY <1>8 DEF Retry, Inv, Named
  <2>. QED BY <1>5, <1>8, <2>1 DEF Retry
<1>9. ASSUME NEW j \in Jobs, Prepare(j) PROVE Inv'
  <2>. DEFINE v == job[j].version
              r == ResourceOf[v]
  <2>1. job[j].state = "OPEN" /\ v \in Versions /\ r \in Resources
    BY <1>9, RowsAssumption DEF Prepare, Inv, Named
  <2>2. /\ job'[j] = PreparedJob(j) /\ disturbed'[j] = {}
        /\ \A k \in Jobs \ {j} :
              job'[k] = job[k] /\ rel'[k] = rel[k] /\ disturbed'[k] = disturbed[k]
        /\ UNCHANGED <<ver, res>>
    BY <1>9 DEF Prepare, Inv, TypeOK
  <2>3. ~Published(j)'
    <3>1. rel' = [rel EXCEPT ![j] = [rel[j] EXCEPT !.state = "PREPARING"]] /\ rel[j] \in Release
      BY <1>9 DEF Prepare, Inv, TypeOK
    <3>2. [rel[j] EXCEPT !.state = "PREPARING"].state = "PREPARING"
      BY <3>1 DEF Release
    <3>3. rel'[j].state = "PREPARING"
      BY <3>1, <3>2 DEF Inv, TypeOK
    <3>. QED BY <3>3 DEF Published
  <2>4. job'[j].version = v /\ job'[j].expected = res[r].active /\ job'[j].deps = Dependencies(v)
    BY <2>1, <2>2, PreparedTypes DEF Inv
  <2>5. ASSUME res[r].active # NoJob
        PROVE  /\ job'[res[r].active].state = "SUCCEEDED"
               /\ job'[res[r].active].version # v
    <3>1. res[r].active \in Jobs \cup {NoJob} /\ ResourceSound(r)
      BY <2>1 DEF Inv, TypeOK, Resource, PublicationInv
    <3>2. res[r].active \in Jobs /\ Published(res[r].active)
      BY <2>5, <3>1 DEF ResourceSound
    <3>3. job[res[r].active].state = "SUCCEEDED" /\ CurrentVersion(r) = job[res[r].active].version
      BY <2>5, <3>2, PublishedVersion DEF CurrentVersion
    <3>4. CurrentVersion(r) # v
      BY <1>9 DEF Prepare
    <3>. QED BY <2>1, <2>2, <3>2, <3>3, <3>4
  <2>6. ASSUME NEW d \in Dependencies(v)
        PROVE  d.epoch = res[ResourceOf[d.version]].epoch /\ d.epoch \in Nat
    <3>1. PICK w \in Behind(v) : d = [version |-> w, epoch |-> res[ResourceOf[w]].epoch]
      BY DEF Dependencies
    <3>2. d \in [version : Versions, epoch : Nat]
      BY <2>6, DependenciesType DEF Manifests, Inv
    <3>. QED BY <3>1, <3>2
  <2>7. Remembers(j)'
    BY <2>2, <2>4, <2>5, <2>6 DEF Remembers
  <2>. QED BY <1>1, <2>1, <2>2, <2>3, <2>7, OnePublication
<1>10. ASSUME NEW j \in Jobs, WriteArtifacts(j) PROVE Inv'
  <2>1. job[j].state = "OPEN" /\ job[j].phase = "prepared" /\ job[j] \in Publish
    BY <1>2, <1>10 DEF WriteArtifacts, Inv, Named
  <2>2. /\ job'[j] = [job[j] EXCEPT !.phase = "written"]
        /\ \A k \in Jobs \ {j} : job'[k] = job[k]
        /\ UNCHANGED <<ver, res, rel, disturbed>>
    BY <1>10 DEF WriteArtifacts, Inv, TypeOK
  <2>3. /\ job'[j].version = job[j].version /\ job'[j].expected = job[j].expected
        /\ job'[j].deps = job[j].deps
    BY <2>1, <2>2 DEF Publish
  <2>4. Remembers(j)
    BY JobParts DEF Inv, PublicationInv
  <2>5. job[j].expected # NoJob =>
           job'[job[j].expected] = job[job[j].expected]
    BY <2>1, <2>2, <2>4 DEF Remembers, Publish
  <2>6. Remembers(j)'
    BY <2>1, <2>2, <2>3, <2>4, <2>5 DEF Remembers
  <2>7. ~Published(j)'
    BY <1>2, <2>1, <2>2 DEF Published
  <2>. QED BY <1>1, <2>1, <2>2, <2>6, <2>7, OnePublication
<1>11. ASSUME NEW j \in Jobs, Break(j) PROVE Inv'
  <2>1. job[j].state = "OPEN"
    BY <1>11 DEF Break, Inv, Named
  <2>2. job'[j] = Forgotten(j) /\ \A k \in Jobs \ {j} : job'[k] = job[k]
    BY <1>11 DEF Break, Inv, TypeOK
  <2>3. UNCHANGED <<ver, res, rel, disturbed>>
    BY <1>11 DEF Break
  <2>4. job'[j].phase = "none"
    BY <2>2, ForgottenTypes DEF Inv
  <2>. QED BY <1>2, <1>3, <2>1, <2>2, <2>3, <2>4 DEF Published
<1>12. ASSUME NEW j \in Jobs, Fail(j) PROVE Inv'
  <2>1. PICK s \in {"OPEN", "ENDED"} : job' = [job EXCEPT ![j] = [Forgotten(j) EXCEPT !.state = s]]
    BY <1>12 DEF Fail
  <2>2. job'[j] = [Forgotten(j) EXCEPT !.state = s] /\ \A k \in Jobs \ {j} : job'[k] = job[k]
    BY <2>1 DEF Inv, TypeOK
  <2>3. job'[j].phase = "none"
    <3>1. s \in {"OPEN", "SUCCEEDED", "ENDED"}
      OBVIOUS
    <3>. QED BY <2>2, <3>1, ForgottenTypes, EndedTypes DEF Inv
  <2>4. job[j].state = "OPEN" /\ UNCHANGED <<ver, res, disturbed>>
    BY <1>12 DEF Fail
  <2>5. ~Published(j)' /\ \A k \in Jobs \ {j} : rel'[k] = rel[k]
    <3>1. ~Published(j) /\ rel[j] \in Release
      BY <1>2, <2>4 DEF Inv, TypeOK
    <3>2. PICK x \in {"FAILED", rel[j].state} : rel' = [rel EXCEPT ![j] = [rel[j] EXCEPT !.state = x]]
      BY <1>12 DEF Fail
    <3>3. [rel[j] EXCEPT !.state = x].state = x
      BY <3>1 DEF Release
    <3>4. rel'[j].state = x /\ \A k \in Jobs \ {j} : rel'[k] = rel[k]
      BY <3>2, <3>3 DEF Inv, TypeOK
    <3>. QED BY <3>1, <3>4 DEF Published
  <2>. QED BY <1>3, <2>2, <2>3, <2>4, <2>5
<1>13. ASSUME NEW j \in Jobs, LateWrite(j) PROVE Inv'
  <2>1. UNCHANGED <<ver, res, job, rel, disturbed>>
    BY <1>13 DEF LateWrite
  <2>. QED BY <1>1, <2>1 DEF Inv, PublicationInv, VersionSound, JobSound, ResourceSound,
                             ActiveIsLatest, Of, Published, ReleasesOf, CurrentVersion
<1>. QED
  BY <1>4, <1>6, <1>7, <1>8, <1>9, <1>10, <1>11, <1>12, <1>13, ActivateInv, <1>1 DEF PublishStep

\* A change of availability moves the epoch of every resource that it marks as
\* disturbed.
LEMMA ResourceInv == Inv /\ ResourceStep => Inv'
<1>. SUFFICES ASSUME Inv, ResourceStep PROVE Inv'
  OBVIOUS
<1>1. TypeOK' /\ Named'
  BY ResourceStepTypes DEF Inv
<1>2. ASSUME NEW r \in Resources
      PROVE  res[r] \in Resource /\ res[r].epoch \in Nat
  BY DEF Inv, TypeOK, Resource
<1>3. ASSUME NEW r \in Resources, NEW suspended, NEW deleted
      PROVE  /\ Bumped(r, suspended, deleted).active = res[r].active
             /\ Bumped(r, suspended, deleted).epoch = res[r].epoch + 1
  BY <1>2 DEF Bumped, Resource
<1>4. ASSUME NEW rs, UNCHANGED <<ver, job, rel>>, Disturb(rs) \/ UNCHANGED disturbed,
             \A r \in Resources :
                /\ res'[r].active = res[r].active
                /\ res[r].epoch <= res'[r].epoch
                /\ r \in rs => res[r].epoch < res'[r].epoch \/ UNCHANGED disturbed
      PROVE  Inv'
  <2>1. /\ \A j \in Jobs : Finished(j)'
        /\ \A r \in Resources : ResourceSound(r)'
        /\ ActiveIsLatest'
    <3>1. ASSUME NEW j \in Jobs, Published(j)
          PROVE  ver[job[j].version].state = "APPROVED"
      BY <3>1, PublishedVersion
    <3>. QED BY <1>4, <3>1, ReleasesFrame
  <2>2. ASSUME NEW j \in Jobs PROVE Remembers(j)'
    <3>1. ASSUME NEW r \in Resources, job[j].phase # "none"
          PROVE  /\ res'[r].epoch \in Nat
                 /\ res[r].epoch <= res'[r].epoch
                 /\ r \in disturbed'[j] => r \in disturbed[j] \/ res[r].epoch < res'[r].epoch
      <4>1. res'[r].epoch \in Nat
        BY <1>1 DEF TypeOK, Resource
      <4>2. r \in disturbed'[j] => r \in disturbed[j] \/ r \in rs
        BY <1>4, <3>1 DEF Disturb
      <4>3. r \in disturbed'[j] /\ r \notin disturbed[j] => ~UNCHANGED disturbed
        OBVIOUS
      <4>. QED BY <1>4, <4>1, <4>2, <4>3
    <3>. QED BY <1>4, <3>1, RememberFrame
  <2>3. ASSUME NEW j \in Jobs PROVE JobSound(j)'
    BY <1>1, <2>1, <2>2 DEF JobSound, Remembers, Finished, Named
  <2>4. ASSUME NEW v \in Versions PROVE VersionSound(v)'
    BY <1>4 DEF Inv, PublicationInv, VersionSound, Of
  <2>. QED BY <1>1, <2>1, <2>3, <2>4 DEF Inv, PublicationInv
<1>5. ASSUME NEW r \in Resources, NEW suspended, NEW deleted, Change(r, suspended, deleted)
      PROVE  Inv'
  <2>1. res'[r] = Bumped(r, suspended, deleted) /\ \A q \in Resources \ {r} : res'[q] = res[q]
    BY <1>5 DEF Change, Inv, TypeOK
  <2>2. ASSUME NEW q \in Resources
        PROVE  /\ res'[q].active = res[q].active
               /\ res[q].epoch <= res'[q].epoch
               /\ q \in {r} => res[q].epoch < res'[q].epoch
    BY <1>2, <1>3, <2>1
  <2>3. UNCHANGED <<ver, job, rel>> /\ Disturb({r})
    BY <1>5 DEF Change
  <2>. QED BY <1>4, <2>2, <2>3
<1>6. ASSUME NEW r \in Resources, NEW cause \in Causes, Invalidate(r, cause) PROVE Inv'
  <2>. DEFINE ds == Downstream(r)
  <2>1. UNCHANGED <<ver, job, rel>>
    BY <1>6 DEF Invalidate
  <2>2. CASE UNCHANGED <<res, disturbed>>
    BY <1>2, <1>4, <2>1, <2>2
  <2>3. CASE /\ res' = [d \in Resources |-> IF d \in ds
                                 THEN Bumped(d, TRUE, res[d].deleted) ELSE res[d]]
             /\ Disturb(ds)
    <3>1. ASSUME NEW q \in Resources
          PROVE  /\ res'[q].active = res[q].active
                 /\ res[q].epoch <= res'[q].epoch
                 /\ q \in ds => res[q].epoch < res'[q].epoch
      <4>1. res'[q] = IF q \in ds THEN Bumped(q, TRUE, res[q].deleted) ELSE res[q]
        BY <2>3
      <4>2. /\ Bumped(q, TRUE, res[q].deleted).active = res[q].active
            /\ Bumped(q, TRUE, res[q].deleted).epoch = res[q].epoch + 1
        BY <1>3
      <4>. HIDE DEF ds
      <4>3. CASE q \in ds
        <5>1. res'[q].active = res[q].active /\ res'[q].epoch = res[q].epoch + 1
          BY <4>1, <4>2, <4>3, Zenon
        <5>. QED BY <1>2, <5>1
      <4>4. CASE q \notin ds
        BY <1>2, <4>1, <4>4
      <4>. QED BY <4>3, <4>4
    <3>. QED BY <1>4, <2>1, <2>3, <3>1
  <2>. QED BY <1>6, <2>2, <2>3 DEF Invalidate
<1>. QED BY <1>5, <1>6 DEF ResourceStep, Suspend, Resume, TrashOrRestore, SetPermissions

LEMMA NextInv == Inv /\ [Next]_vars => Inv'
<1>1. ASSUME Inv, NextDay \/ UNCHANGED vars PROVE Inv'
  BY <1>1 DEF NextDay, vars, Inv, TypeOK, Named, PublicationInv, VersionSound, JobSound, ResourceSound,
              ActiveIsLatest, Of, Published, ReleasesOf, CurrentVersion
<1>. QED BY <1>1, DraftInv, PublishInv, ResourceInv DEF Next

\* In every reachable state the tables agree: what was approved is unchanged,
\* what a publication remembers is at most as new as the resources, and what is
\* active was released last.
THEOREM PublicationInvariant == Spec => []PublicationInv
<1>1. Spec => []Inv
  BY InitInv, NextInv, PTL DEF Spec
<1>2. Inv => PublicationInv
  BY DEF Inv
<1>. QED BY <1>1, <1>2, PTL

-------------------------------------------------------------------------------
(* What follows for releases.                                              *)

\* Only Activate releases, and what is released keeps its version.
LEMMA OnlyActivateReleases ==
    ASSUME Inv, [Next]_vars, NEW j \in Jobs
    PROVE  /\ Published(j)' => Published(j) \/ Activate(j)
           /\ Published(j) => Published(j)' /\ job'[j].version = job[j].version
           /\ rel'[j].state = "ACTIVE" => rel[j].state = "ACTIVE" \/ Activate(j)
<1>. DEFINE Kept == /\ Published(j)' => Published(j)
                    /\ Published(j) => Published(j)' /\ job'[j].version = job[j].version
                    /\ rel'[j].state = "ACTIVE" => rel[j].state = "ACTIVE"
<1>1. Published(j) => job[j].state = "SUCCEEDED"
  BY PublishedVersion
<1>2. CASE DraftStep \/ ResourceStep \/ NextDay \/ UNCHANGED vars
  <2>1. UNCHANGED <<job, rel>>
    BY <1>2, DraftTypes DEF Inv, ResourceStep, Suspend, Resume, TrashOrRestore, SetPermissions,
                            Change, Invalidate, NextDay, vars
  <2>. QED BY <2>1 DEF Published
<1>3. ASSUME NEW i \in Jobs, i # j,
             \/ \E v \in Versions : RequestPublish(i, v)
             \/ AlreadyCurrent(i) \/ Prepare(i) \/ WriteArtifacts(i) \/ Break(i)
             \/ LateWrite(i) \/ Fail(i) \/ Cancel(i) \/ Retry(i)
      PROVE  Kept
  <2>1. job'[j] = job[j] /\ rel'[j] = rel[j]
    BY <1>3 DEF RequestPublish, AlreadyCurrent, Prepare, WriteArtifacts, Break, LateWrite,
                Fail, Cancel, Retry, Inv, TypeOK
  <2>. QED BY <2>1 DEF Published
<1>4. ASSUME \/ \E v \in Versions : RequestPublish(j, v)
             \/ AlreadyCurrent(j) \/ WriteArtifacts(j) \/ Break(j) \/ Cancel(j) \/ Retry(j)
      PROVE  Kept
  <2>1. job[j].state # "SUCCEEDED" /\ rel' = rel
    BY <1>4 DEF RequestPublish, AlreadyCurrent, WriteArtifacts, Break, Cancel, Retry, Inv, Named
  <2>. QED BY <1>1, <2>1 DEF Published
<1>5. ASSUME Prepare(j) \/ Fail(j) PROVE Kept
  <2>1. job[j].state = "OPEN" /\ rel[j] \in Release
    BY <1>5 DEF Prepare, Fail, Inv, TypeOK
  <2>2. PICK x \in {"PREPARING", "FAILED", rel[j].state} :
           rel' = [rel EXCEPT ![j] = [rel[j] EXCEPT !.state = x]]
    BY <1>5 DEF Prepare, Fail
  <2>3. rel'[j].state = x
    <3>1. [rel[j] EXCEPT !.state = x].state = x
      BY <2>1 DEF Release
    <3>. QED BY <2>2, <3>1 DEF Inv, TypeOK
  <2>. QED BY <1>1, <2>1, <2>3 DEF Published
<1>6. ASSUME LateWrite(j) PROVE Kept
  BY <1>6 DEF LateWrite, Published
<1>7. ASSUME NEW i \in Jobs, Activate(i), i # j PROVE Kept
  <2>1. job'[j] = job[j] /\ (rel'[j] = rel[j] \/ (rel'[j].state = "SUPERSEDED" /\ Published(j)))
    <3>. DEFINE old == res[ResourceOf[job[i].version]].active
    <3>1. job'[j] = job[j] /\ rel'[j] = IF j = old THEN [rel[j] EXCEPT !.state = "SUPERSEDED"] ELSE rel[j]
      BY <1>7 DEF Activate, Inv, TypeOK
    <3>2. j = old => Published(j)
      <4>1. ResourceOf[job[i].version] \in Resources
        BY <1>7, SuccessorIsNewest, RowsAssumption
      <4>. QED BY <4>1, RowsAssumption DEF Inv, PublicationInv, ResourceSound
    <3>3. rel[j] \in Release
      BY DEF Inv, TypeOK
    <3>4. [rel[j] EXCEPT !.state = "SUPERSEDED"].state = "SUPERSEDED"
      BY <3>3 DEF Release
    <3>. QED BY <3>1, <3>2, <3>4
  <2>. QED BY <2>1 DEF Published
<1>8. ASSUME Activate(j) PROVE ~Published(j)
  BY <1>8, SuccessorIsNewest
<1>. QED BY <1>2, <1>3, <1>4, <1>5, <1>6, <1>7, <1>8 DEF Next, PublishStep

LEMMA ReachableInv == Spec => []Inv
BY InitInv, NextInv, PTL DEF Spec

\* The active release of a resource is its one ACTIVE release and shows the
\* newest of its released versions, whatever jobs race for it.
THEOREM ActiveReleaseIsLatest == Spec => []ActiveIsLatest
<1>1. Inv => ActiveIsLatest
  BY DEF Inv, PublicationInv
<1>. QED BY <1>1, ReachableInv, PTL

\* What readers see was approved, as it is, by somebody entitled to.
THEOREM ReleasesAreApproved == Spec => []ReleasedAsApproved
<1>1. ASSUME Inv PROVE ReleasedAsApproved
  <2>1. ASSUME NEW j \in Jobs, rel[j].state \in {"ACTIVE", "SUPERSEDED"}
        PROVE  /\ ver[job[j].version].state = "APPROVED" /\ VersionSound(job[j].version)
    BY <1>1, <2>1, PublishedVersion DEF Published, Inv, PublicationInv
  <2>. QED BY <2>1 DEF ReleasedAsApproved, VersionSound
<1>. QED BY <1>1, ReachableInv, PTL

\* A version is released at most once, whatever is retried or requested again.
THEOREM ReleasesAreUnique == Spec => []ReleasedOnce
<1>1. Init => ReleasedOnce
  BY DEF Init, ReleasedOnce
<1>2. ASSUME Inv, ReleasedOnce, [Next]_vars PROVE ReleasedOnce'
  <2>1. ASSUME NEW j \in Jobs, Activate(j), NEW k \in Jobs, Published(k)
        PROVE  job[k].version # job[j].version
    <3>1. job[k].version \in Versions
      BY <1>2, <2>1, PublishedVersion
    <3>2. SUFFICES ASSUME job[k].version = job[j].version PROVE FALSE
      OBVIOUS
    <3>3. k \in ReleasesOf(ResourceOf[job[j].version])
      BY <2>1, <3>2 DEF ReleasesOf, Published
    <3>4. ver[job[k].version].number < ver[job[j].version].number
      BY <1>2, <2>1, <3>3, SuccessorIsNewest
    <3>5. ver[job[k].version].number \in Nat
      BY <1>2, <3>1 DEF Inv, TypeOK, Version
    <3>. QED BY <3>2, <3>4, <3>5
  <2>2. ASSUME NEW j \in Jobs, NEW k \in Jobs, Activate(j), Activate(k) PROVE j = k
    <3>1. job'[k].state = "SUCCEEDED"
      <4>1. job'[k] = [Forgotten(k) EXCEPT !.state = "SUCCEEDED"]
        BY <1>2, <2>2 DEF Activate, Inv, TypeOK
      <4>2. Forgotten(k) \in Publish
        BY <1>2, ForgottenTypes DEF Inv
      <4>. QED BY <4>1, <4>2, EndedTypes
    <3>2. j # k => job'[k] = job[k]
      BY <1>2, <2>2 DEF Activate, Inv, TypeOK
    <3>3. job[k].state = "OPEN"
      BY <1>2, <2>2, SuccessorIsNewest
    <3>. QED BY <3>1, <3>2, <3>3
  <2>3. ASSUME NEW j \in Jobs, Activate(j) PROVE job'[j].version = job[j].version
    <3>1. job'[j] = [Forgotten(j) EXCEPT !.state = "SUCCEEDED"]
      BY <1>2, <2>3 DEF Activate, Inv, TypeOK
    <3>2. Forgotten(j) \in Publish /\ Forgotten(j).version = job[j].version
      BY <1>2, ForgottenTypes DEF Inv
    <3>. QED BY <3>1, <3>2, EndedTypes
  <2>4. ASSUME NEW j \in Jobs, NEW k \in Jobs, Published(j)', Published(k)',
               job'[j].version = job'[k].version
        PROVE  j = k
    <3>1. /\ Published(j) \/ Activate(j)
          /\ Published(k) \/ Activate(k)
          /\ job'[j].version = job[j].version /\ job'[k].version = job[k].version
      BY <1>2, <2>3, <2>4, OnlyActivateReleases
    <3>. QED BY <1>2, <2>1, <2>2, <2>4, <3>1 DEF ReleasedOnce, Published
  <2>. QED BY <2>4 DEF ReleasedOnce, Published
<1>. QED BY <1>1, <1>2, ReachableInv, PTL DEF Spec

\* A release is activated only if the availability of everything it depends on
\* stayed as its preparation found it: an epoch never returns.
THEOREM ReleasesAreUndisturbed == Spec => UndisturbedRelease
<1>1. ASSUME Inv, [Next]_vars, NEW j \in Jobs, rel'[j].state = "ACTIVE", rel[j].state # "ACTIVE",
             NEW w \in Behind(job[j].version)
      PROVE  ResourceOf[w] \notin disturbed[j]
  <2>1. Activate(j)
    BY <1>1, OnlyActivateReleases
  <2>2. job[j].deps = Dependencies(job[j].version) /\ job[j].phase # "none"
    BY <2>1 DEF Activate, Undisturbed
  <2>3. PICK d \in job[j].deps : d.version = w /\ d.epoch = res[ResourceOf[w]].epoch
    <3>. DEFINE x == [version |-> w, epoch |-> res[ResourceOf[w]].epoch]
    <3>1. x \in Dependencies(job[j].version)
      BY <1>1 DEF Dependencies
    <3>2. x.version = w /\ x.epoch = res[ResourceOf[w]].epoch
      OBVIOUS
    <3>. HIDE DEF x
    <3>. QED BY <2>2, <3>1, <3>2
  <2>. QED BY <1>1, <2>2, <2>3 DEF Inv, PublicationInv, JobSound
<1>2. Inv /\ [Next]_vars => [\A j \in Jobs : (rel'[j].state = "ACTIVE" /\ rel[j].state # "ACTIVE") =>
          \A w \in Behind(job[j].version) : ResourceOf[w] \notin disturbed[j]]_vars
  BY <1>1
<1>. QED BY <1>2, ReachableInv, PTL DEF Spec, UndisturbedRelease

-------------------------------------------------------------------------------
(* Publication keeps the promise of ReleaseLine.                           *)

\* A draft's step changes one version that is not approved yet, approves one as
\* it stands, or confirms one again.
LEMMA DraftEffect ==
    ASSUME Inv, DraftStep
    PROVE  \E v \in Versions :
              /\ \A w \in Versions \ {v} : ver'[w] = ver[w]
              /\ \/ ver[v].state # "APPROVED" /\ ver'[v].state # "APPROVED"
                 \/ /\ ver'[v].state = "APPROVED"
                    /\ ver'[v].content = ver[v].content /\ ver'[v].base = ver[v].base
                    /\ ver'[v].number = ver[v].number
<1>. DEFINE Effect(v) ==
              /\ \A w \in Versions \ {v} : ver'[w] = ver[w]
              /\ \/ ver[v].state # "APPROVED" /\ ver'[v].state # "APPROVED"
                 \/ /\ ver'[v].state = "APPROVED"
                    /\ ver'[v].content = ver[v].content /\ ver'[v].base = ver[v].base
                    /\ ver'[v].number = ver[v].number
<1>1. ASSUME NEW v \in Versions, NEW row, ver' = [ver EXCEPT ![v] = row]
      PROVE  ver'[v] = row /\ \A w \in Versions \ {v} : ver'[w] = ver[w]
  BY <1>1 DEF Inv, TypeOK
<1>2. ASSUME NEW v \in Versions, NEW u \in Users, NEW b \in Versions \cup {NoVersion},
             CreateDraft(u, v, b)
      PROVE  Effect(v)
  <2>. DEFINE row(n) == [Blank EXCEPT !.state = "DRAFT", !.number = n, !.base = b,
                               !.author = u, !.contributors = {u},
                               !.content = IF b = NoVersion THEN Empty ELSE ver[b].content]
  <2>1. PICK n \in 1..MaxNumber : ver' = [ver EXCEPT ![v] = row(n)]
    BY <1>2 DEF CreateDraft
  <2>2. ver[v].state = "ABSENT"
    BY <1>2 DEF CreateDraft
  <2>3. row(n).state = "DRAFT"
    BY DEF Blank
  <2>. HIDE DEF row
  <2>. QED BY <1>1, <2>1, <2>2, <2>3
<1>3. ASSUME NEW v \in Versions, Discard(v) PROVE Effect(v)
  <2>1. ver' = [ver EXCEPT ![v] = Blank] /\ ver[v].state = "DRAFT"
    BY <1>3 DEF Discard, Editable
  <2>. QED BY <1>1, <2>1 DEF Blank
<1>4. ASSUME NEW v \in Versions PROVE ver[v] \in Version
  BY DEF Inv, TypeOK
<1>5. ASSUME NEW v \in Versions, NEW u \in Users, NEW c \in Contents, Edit(u, v, c) PROVE Effect(v)
  <2>. DEFINE row == [ver[v] EXCEPT !.content = c, !.frozen = NoContent,
                                    !.contributors = ver[v].contributors \cup {u}]
  <2>1. ver' = [ver EXCEPT ![v] = row] /\ ver[v].state = "DRAFT"
    BY <1>5 DEF Edit, Editable
  <2>2. row.state = ver[v].state
    BY <1>4 DEF Version
  <2>. HIDE DEF row
  <2>. QED BY <1>1, <2>1, <2>2
<1>6. ASSUME NEW v \in Versions, NEW u \in Users, Submit(u, v) PROVE Effect(v)
  <2>. DEFINE row == [ver[v] EXCEPT !.state = "IN_REVIEW", !.frozen = ver[v].content,
                                    !.contributors = ver[v].contributors \cup {u}]
  <2>1. ver' = [ver EXCEPT ![v] = row] /\ ver[v].state = "DRAFT"
    BY <1>6 DEF Submit, Editable
  <2>2. row.state = "IN_REVIEW"
    BY <1>4 DEF Version
  <2>. HIDE DEF row
  <2>. QED BY <1>1, <2>1, <2>2
<1>7. ASSUME NEW v \in Versions, NEW u \in Users, Review(u, v) PROVE Effect(v)
  <2>. DEFINE yes == [ver[v] EXCEPT !.state = "APPROVED", !.reviewer = u]
              no == [ver[v] EXCEPT !.state = "REJECTED"]
  <2>1. /\ ver[v].state = "IN_REVIEW"
        /\ ver' = [ver EXCEPT ![v] = yes] \/ ver' = [ver EXCEPT ![v] = no]
    BY <1>7 DEF Review
  <2>2. /\ yes.state = "APPROVED" /\ yes.content = ver[v].content /\ yes.base = ver[v].base
        /\ yes.number = ver[v].number
        /\ no.state = "REJECTED"
    BY <1>4 DEF Version
  <2>. HIDE DEF yes, no
  <2>. QED BY <1>1, <2>1, <2>2
<1>8. ASSUME NEW v \in Versions, Confirm(v) PROVE Effect(v)
  <2>. DEFINE seal == [content |-> ver[v].content, epoch |-> res[ResourceOf[v]].epoch]
              row == [ver[v] EXCEPT !.state = "APPROVED", !.frozen = ver[v].content,
                                    !.confirmed = seal]
  <2>1. ver' = [ver EXCEPT ![v] = row]
    BY <1>8 DEF Confirm
  <2>2. /\ row.state = "APPROVED" /\ row.content = ver[v].content /\ row.base = ver[v].base
        /\ row.number = ver[v].number
    BY <1>4 DEF Version
  <2>. HIDE DEF row
  <2>. QED BY <1>1, <2>1, <2>2
<1>. HIDE DEF Effect
<1>9. \E v \in Versions : Effect(v)
  BY <1>2, <1>3, <1>5, <1>6, <1>7, <1>8 DEF DraftStep
<1>. QED BY <1>9 DEF Effect

\* Only Activate changes which release is active.
LEMMA SameActive ==
    ASSUME Inv, [Next]_vars, \A j \in Jobs : ~Activate(j), NEW r \in Resources
    PROVE  res'[r].active = res[r].active
<1>1. CASE DraftStep \/ PublishStep \/ NextDay \/ UNCHANGED vars
  <2>1. UNCHANGED res
    BY <1>1, DraftTypes DEF Inv, PublishStep, RequestPublish, AlreadyCurrent, Prepare,
       WriteArtifacts, Break, LateWrite, Fail, Cancel, Retry, NextDay, vars
  <2>. QED BY <2>1
<1>2. CASE ResourceStep
  <2>1. ASSUME NEW q \in Resources, NEW suspended, NEW deleted
        PROVE  Bumped(q, suspended, deleted).active = res[q].active
    <3>1. res[q] \in Resource
      BY DEF Inv, TypeOK
    <3>. QED BY <3>1 DEF Bumped, Resource
  <2>2. ASSUME NEW q \in Resources, NEW suspended, NEW deleted, Change(q, suspended, deleted)
        PROVE  res'[r].active = res[r].active
    <3>1. (r = q /\ res'[r] = Bumped(q, suspended, deleted)) \/ res'[r] = res[r]
      BY <2>2 DEF Change, Inv, TypeOK
    <3>2. CASE r = q /\ res'[r] = Bumped(q, suspended, deleted)
      BY <2>1, <3>2, Zenon
    <3>3. CASE res'[r] = res[r]
      BY <3>3
    <3>. QED BY <3>1, <3>2, <3>3
  <2>3. ASSUME NEW q \in Resources, NEW cause \in Causes, Invalidate(q, cause)
        PROVE  res'[r].active = res[r].active
    <3>1. res'[r] = Bumped(r, TRUE, res[r].deleted) \/ res'[r] = res[r]
      BY <2>3 DEF Invalidate
    <3>2. CASE res'[r] = Bumped(r, TRUE, res[r].deleted)
      <4>1. Bumped(r, TRUE, res[r].deleted).active = res[r].active
        BY <2>1
      <4>. QED BY <3>2, <4>1, Zenon
    <3>3. CASE res'[r] = res[r]
      BY <3>3
    <3>. QED BY <3>1, <3>2, <3>3
  <2>. QED BY <1>2, <2>2, <2>3
              DEF ResourceStep, Suspend, Resume, TrashOrRestore, SetPermissions
<1>. QED BY <1>1, <1>2 DEF Next

\* Readers see the same releases unless one is activated.
LEMMA SameReleases ==
    ASSUME Inv, [Next]_vars, \A j \in Jobs : ~Activate(j)
    PROVE  Released' = Released /\ \A r \in Resources : CurrentVersion(r)' = CurrentVersion(r)
<1>1. \A j \in Jobs : /\ Published(j)' <=> Published(j)
                      /\ Published(j) => job'[j].version = job[j].version
  BY OnlyActivateReleases
<1>2. Released' = Released
  <2>1. Released = {job[j].version : j \in {k \in Jobs : Published(k)}}
    BY DEF Released
  <2>2. Released' = {job'[j].version : j \in {k \in Jobs : Published(k)'}}
    BY DEF Released
  <2>3. {k \in Jobs : Published(k)'} = {k \in Jobs : Published(k)}
    BY <1>1 DEF Published
  <2>4. \A j \in {k \in Jobs : Published(k)} : job'[j].version = job[j].version
    BY <1>1 DEF Published
  <2>. QED BY <2>1, <2>2, <2>3, <2>4
<1>3. ASSUME NEW r \in Resources PROVE CurrentVersion(r)' = CurrentVersion(r)
  <2>1. res'[r].active = res[r].active
    BY SameActive
  <2>2. ASSUME res[r].active # NoJob
        PROVE  res[r].active \in Jobs /\ Published(res[r].active)
    <3>1. res[r].active \in Jobs \cup {NoJob} /\ ResourceSound(r)
      BY DEF Inv, TypeOK, Resource, PublicationInv
    <3>. QED BY <2>2, <3>1 DEF ResourceSound
  <2>3. CASE res[r].active = NoJob
    BY <2>1, <2>3 DEF CurrentVersion
  <2>4. CASE res[r].active # NoJob
    <3>1. job'[res[r].active].version = job[res[r].active].version
      BY <1>1, <2>2, <2>4 DEF Published
    <3>. QED BY <2>1, <2>4, <3>1 DEF CurrentVersion
  <2>. QED BY <2>3, <2>4
<1>. QED BY <1>2, <1>3

LEMMA PromiseInit == Init => Promise!Init
<1>. SUFFICES ASSUME Init PROVE Promise!Init
  OBVIOUS
<1>1. Released = {}
  BY DEF Init, Released, Published
<1>2. ASSUME NEW r \in Resources PROVE CurrentVersion(r) = NoVersion
  BY DEF Init, CurrentVersion
<1>3. {[r \in Resources |-> CurrentVersion(r)][q] : q \in Resources} \ {NoVersion} = {}
  BY <1>2
<1>. QED BY <1>1, <1>3 DEF Promise!Init

\* Steps of drafts write, approve or change nothing that readers rely on.
LEMMA DraftPromise ==
    ASSUME Inv, DraftStep
    PROVE  [Promise!Next]_(Promise!line)
<1>1. PICK v \in Versions :
         /\ \A w \in Versions \ {v} : ver'[w] = ver[w]
         /\ \/ ver[v].state # "APPROVED" /\ ver'[v].state # "APPROVED"
            \/ /\ ver'[v].state = "APPROVED"
               /\ ver'[v].content = ver[v].content /\ ver'[v].base = ver[v].base
  BY DraftEffect
<1>2. Released' = Released /\ \A r \in Resources : CurrentVersion(r)' = CurrentVersion(r)
  <2>1. UNCHANGED <<res, job, rel>>
    BY DraftTypes DEF Inv
  <2>. QED BY <2>1 DEF Released, Published, CurrentVersion
<1>3. [r \in Resources |-> CurrentVersion(r)]' = [r \in Resources |-> CurrentVersion(r)]
  BY <1>2
<1>4. CASE ver[v].state # "APPROVED" /\ ver'[v].state # "APPROVED"
  <2>1. {w \in Versions : ver[w].state = "APPROVED"}' = {w \in Versions : ver[w].state = "APPROVED"}
    BY <1>1, <1>4
  <2>2. Promise!Write(v)
    BY <1>1, <1>2, <1>3, <1>4, <2>1 DEF Promise!Write
  <2>. QED BY <2>2 DEF Promise!Next
<1>5. CASE /\ ver'[v].state = "APPROVED"
           /\ ver'[v].content = ver[v].content /\ ver'[v].base = ver[v].base
  <2>1. /\ [w \in Versions |-> ver[w].content]' = [w \in Versions |-> ver[w].content]
        /\ [w \in Versions |-> ver[w].base]' = [w \in Versions |-> ver[w].base]
    BY <1>1, <1>5
  <2>2. {w \in Versions : ver[w].state = "APPROVED"}'
          = {w \in Versions : ver[w].state = "APPROVED"} \cup {v}
    BY <1>1, <1>5
  <2>3. CASE ver[v].state = "APPROVED"
    <3>1. {w \in Versions : ver[w].state = "APPROVED"}' = {w \in Versions : ver[w].state = "APPROVED"}
      BY <2>2, <2>3
    <3>. QED BY <1>2, <1>3, <2>1, <3>1 DEF Promise!line
  <2>4. CASE ver[v].state # "APPROVED"
    <3>1. Promise!Approve(v)
      BY <1>2, <1>3, <2>1, <2>2, <2>4 DEF Promise!Approve
    <3>. QED BY <3>1 DEF Promise!Next
  <2>. QED BY <2>3, <2>4
<1>. QED BY <1>1, <1>4, <1>5

\* Activation releases the successor of what readers see.
LEMMA ActivatePromise ==
    ASSUME Inv, NEW j \in Jobs, Activate(j)
    PROVE  Promise!Next
<1>. DEFINE v == job[j].version
            r == ResourceOf[v]
<1>1. /\ v \in Versions /\ r \in Resources /\ ~Published(j)
      /\ \A k \in ReleasesOf(r) : ver[job[k].version].number < ver[v].number
  BY SuccessorIsNewest, RowsAssumption
<1>2. ver[v].state = "APPROVED" /\ CurrentVersion(r) \in {NoVersion, v, ver[v].base}
  BY DEF Activate, PublishChecks, Approved, Intact, BaseFits
<1>3. v \notin Released
  <2>. SUFFICES ASSUME NEW k \in Jobs, Published(k), job[k].version = v PROVE FALSE
    BY DEF Released
  <2>1. k \in ReleasesOf(r)
    BY DEF ReleasesOf, Published
  <2>2. ver[v].number < ver[v].number /\ ver[v].number \in Nat
    BY <1>1, <2>1 DEF Inv, TypeOK, Version
  <2>. QED BY <2>2
<1>4. CurrentVersion(r) \in {NoVersion, ver[v].base}
  <2>1. CurrentVersion(r) # NoVersion => CurrentVersion(r) \in Released
    <3>1. res[r].active \in Jobs \cup {NoJob} /\ ResourceSound(r)
      BY <1>1 DEF Inv, TypeOK, Resource, PublicationInv
    <3>. QED BY <3>1 DEF CurrentVersion, ResourceSound, Released
  <2>. QED BY <1>1, <1>2, <1>3, <2>1, RowsAssumption
<1>5. /\ job'[j].version = v
      /\ \A k \in Jobs \ {j} : job'[k] = job[k]
      /\ res'[r].active = j
      /\ \A q \in Resources \ {r} : res'[q] = res[q]
      /\ \A k \in Jobs : Published(k)' <=> Published(k) \/ k = j
  BY ActivateEffect
<1>6. Released' = Released \cup {v}
  <2>1. ASSUME NEW x PROVE x \in Released' <=> x \in Released \/ x = v
    <3>1. x \in Released' <=> \E k \in Jobs : Published(k)' /\ job'[k].version = x
      BY DEF Released
    <3>2. x \in Released <=> \E k \in Jobs : Published(k) /\ job[k].version = x
      BY DEF Released
    <3>3. \A k \in Jobs : job'[k].version = job[k].version
      BY <1>5
    <3>. HIDE DEF v, r
    <3>. QED BY <1>5, <3>1, <3>2, <3>3
  <2>. QED BY <2>1
<1>7. [q \in Resources |-> CurrentVersion(q)]'
        = [[q \in Resources |-> CurrentVersion(q)] EXCEPT ![r] = v]
  <2>1. ASSUME NEW q \in Resources, q = r PROVE CurrentVersion(q)' = v
    BY <1>5, <2>1, RowsAssumption DEF CurrentVersion
  <2>2. ASSUME NEW q \in Resources, q # r PROVE CurrentVersion(q)' = CurrentVersion(q)
    <3>1. \A k \in Jobs : job'[k].version = job[k].version
      BY <1>5
    <3>2. res'[q].active = res[q].active /\ res[q].active \in Jobs \cup {NoJob}
      BY <1>5, <2>2 DEF Inv, TypeOK, Resource
    <3>. QED BY <3>1, <3>2 DEF CurrentVersion
  <2>. HIDE DEF v, r
  <2>3. [q \in Resources |-> CurrentVersion(q)]' = [q \in Resources |-> CurrentVersion(q)']
    OBVIOUS
  <2>4. \A q \in Resources : CurrentVersion(q)' = IF q = r THEN v ELSE CurrentVersion(q)
    BY <2>1, <2>2
  <2>5. [q \in Resources |-> CurrentVersion(q)']
          = [q \in Resources |-> IF q = r THEN v ELSE CurrentVersion(q)]
    BY <2>4, Zenon
  <2>. QED BY <1>1, <2>3, <2>5
<1>8. UNCHANGED ver
  BY DEF Activate
<1>9. Promise!Release(v)
  <2>1. v \in {w \in Versions : ver[w].state = "APPROVED"} \ Released
    BY <1>1, <1>2, <1>3
  <2>2. /\ [q \in Resources |-> CurrentVersion(q)][r] = CurrentVersion(r)
        /\ [w \in Versions |-> ver[w].base][v] = ver[v].base
    BY <1>1
  <2>. QED BY <1>4, <1>6, <1>7, <1>8, <2>1, <2>2 DEF Promise!Release
<1>. QED BY <1>1, <1>9 DEF Promise!Next

\* Behind the queue, the files, the crashes and the retries, readers see exactly
\* what ReleaseLine allows: approved text, once, each after its base.
THEOREM PublicationKeepsPromise == Spec => KeepsPromise
<1>1. ASSUME Inv, [Next]_vars PROVE [Promise!Next]_(Promise!line)
  <2>1. CASE DraftStep
    BY <1>1, <2>1, DraftPromise
  <2>2. CASE \E j \in Jobs : Activate(j)
    BY <1>1, <2>2, ActivatePromise
  <2>3. CASE ~DraftStep /\ \A j \in Jobs : ~Activate(j)
    <3>1. Released' = Released /\ \A r \in Resources : CurrentVersion(r)' = CurrentVersion(r)
      BY <1>1, <2>3, SameReleases
    <3>2. UNCHANGED ver
      BY <1>1, <2>3 DEF Next, PublishStep, RequestPublish, AlreadyCurrent, Prepare,
         WriteArtifacts, Break, LateWrite, Fail, Cancel, Retry, ResourceStep, Suspend, Resume,
         TrashOrRestore, SetPermissions, Change, Invalidate, NextDay, vars
    <3>3. [r \in Resources |-> CurrentVersion(r)]' = [r \in Resources |-> CurrentVersion(r)]
      BY <3>1
    <3>. QED BY <3>1, <3>2, <3>3 DEF Promise!line
  <2>. QED BY <2>1, <2>2, <2>3
<1>. QED BY <1>1, PromiseInit, ReachableInv, PTL DEF Spec, KeepsPromise, Promise!Spec

===============================================================================
