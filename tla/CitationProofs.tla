---------------------------- MODULE CitationProofs ----------------------------
(***************************************************************************)
(* What Publication keeps true along chains of citations: releases rest on *)
(* releases, a pause reaches everything that rests on it, and what is      *)
(* stranded stays so.  The layers of a version are a recursive function;   *)
(* that a set of numbers without a least element is empty replaces the     *)
(* induction that the provers cannot instantiate.                          *)
(***************************************************************************)
EXTENDS PublicationProofs, WellFoundedInduction

-------------------------------------------------------------------------------
(* Layers.                                                                 *)

LEMMA LeastNumber ==
    ASSUME NEW S \in SUBSET Nat, S # {}
    PROVE  \E n \in S : \A m \in S : ~(m < n)
<1>1. IsWellFoundedOn(OpToRel(<, Nat), Nat)
  BY NatLessThanWellFounded
<1>2. \E n \in S : \A m \in S : <<m, n>> \notin OpToRel(<, Nat)
  BY <1>1, WFMin
<1>. QED BY <1>2 DEF OpToRel

\* f lists what v reaches in 0 to k citations.
IsLayers(f, v, k) ==
    f = [n \in 0..k |-> IF n = 0 THEN {v} ELSE UNION {CitesOf(w) : w \in f[n - 1]}]

\* One more layer can always be added.
LEMMA NextLayer ==
    ASSUME NEW v, NEW k \in Nat \ {0}, NEW f, IsLayers(f, v, k - 1)
    PROVE  \E g : IsLayers(g, v, k)
<1>. DEFINE g == [n \in 0..k |-> IF n < k THEN f[n] ELSE UNION {CitesOf(w) : w \in f[k - 1]}]
<1>1. ASSUME NEW n \in 0..k
      PROVE  g[n] = IF n = 0 THEN {v} ELSE UNION {CitesOf(w) : w \in g[n - 1]}
  <2>1. CASE n = 0
    BY <2>1 DEF IsLayers
  <2>2. CASE n # 0 /\ n < k
    <3>1. g[n] = f[n] /\ g[n - 1] = f[n - 1] /\ n \in 0..(k - 1)
      BY <2>2
    <3>2. f[n] = UNION {CitesOf(w) : w \in f[n - 1]}
      BY <2>2, <3>1 DEF IsLayers
    <3>. QED BY <2>2, <3>1, <3>2
  <2>3. CASE n = k
    <3>1. g[n] = UNION {CitesOf(w) : w \in f[k - 1]} /\ g[n - 1] = f[k - 1]
      BY <2>3
    <3>. QED BY <2>3, <3>1
  <2>. QED BY <2>1, <2>2, <2>3
<1>2. g = [n \in 0..k |-> IF n = 0 THEN {v} ELSE UNION {CitesOf(w) : w \in g[n - 1]}]
  BY <1>1
<1>. QED BY <1>2 DEF IsLayers

LEMMA LayersExist ==
    ASSUME NEW v, NEW k \in Nat
    PROVE  \E f : IsLayers(f, v, k)
<1>. DEFINE Missing == {n \in Nat : ~\E f : IsLayers(f, v, n)}
<1>. SUFFICES ASSUME Missing # {} PROVE FALSE
  OBVIOUS
<1>1. PICK n \in Missing : \A m \in Missing : ~(m < n)
  BY LeastNumber
<1>2. n # 0
  <2>. DEFINE g == [m \in 0..0 |-> {v}]
  <2>1. g = [m \in 0..0 |-> IF m = 0 THEN {v} ELSE UNION {CitesOf(w) : w \in g[m - 1]}]
    OBVIOUS
  <2>2. IsLayers(g, v, 0)
    BY <2>1 DEF IsLayers
  <2>. QED BY <1>1, <2>2
<1>3. n - 1 \in Nat /\ n - 1 \notin Missing
  BY <1>1, <1>2
<1>4. PICK f : IsLayers(f, v, n - 1)
  BY <1>3
<1>5. \E g : IsLayers(g, v, n)
  BY <1>1, <1>2, <1>4, NextLayer
<1>. QED BY <1>1, <1>5

Layered ==
    \A v : /\ Layer(v)[0] = {v}
           /\ \A n \in 1..MaxDepth : Layer(v)[n] = UNION {CitesOf(w) : w \in Layer(v)[n - 1]}

\* The recursion that defines the layers holds of them.
LEMMA LayerSteps == Layered
<1>. SUFFICES ASSUME NEW v
              PROVE  /\ Layer(v)[0] = {v}
                     /\ \A n \in 1..MaxDepth : Layer(v)[n] = UNION {CitesOf(w) : w \in Layer(v)[n - 1]}
  BY DEF Layered
<1>1. MaxDepth \in Nat
  BY LimitsAssumption
<1>2. \E f : f = [n \in 0..MaxDepth |-> IF n = 0 THEN {v} ELSE UNION {CitesOf(w) : w \in f[n - 1]}]
  <2>1. PICK f : IsLayers(f, v, MaxDepth)
    BY <1>1, LayersExist
  <2>2. f = [n \in 0..MaxDepth |-> IF n = 0 THEN {v} ELSE UNION {CitesOf(w) : w \in f[n - 1]}]
    BY <2>1, Zenon DEF IsLayers
  <2>. WITNESS f
  <2>. QED BY <2>2, Zenon
<1>3. Layer(v) = [n \in 0..MaxDepth |-> IF n = 0 THEN {v} ELSE UNION {CitesOf(w) : w \in Layer(v)[n - 1]}]
  BY <1>2 DEF Layer
<1>4. ASSUME NEW n \in 1..MaxDepth
      PROVE  Layer(v)[n] = UNION {CitesOf(w) : w \in Layer(v)[n - 1]}
  BY <1>1, <1>3, <1>4
<1>5. Layer(v)[0] = {v}
  BY <1>1, <1>3
<1>. QED BY <1>4, <1>5

\* What a version cites directly is behind it.
LEMMA CitedIsBehind ==
    ASSUME TypeOK, NEW v \in Versions
    PROVE  CitesOf(v) \subseteq Behind(v)
<1>1. CitesOf(v) \subseteq Versions
  BY ContentsAssumption DEF TypeOK, Version, CitesOf
<1>2. 1 \in 1..MaxDepth /\ Layer(v)[0] = {v} /\ Layer(v)[1] = UNION {CitesOf(w) : w \in Layer(v)[0]}
  BY LayerSteps, LimitsAssumption DEF Layered
<1>3. Layer(v)[1] = CitesOf(v)
  BY <1>2
<1>. QED BY <1>1, <1>2, <1>3 DEF Behind

\* Sets of versions that cite nothing else are not left by any chain.
LEMMA ClosedLayers ==
    ASSUME NEW W, \A w \in W : CitesOf(w) \subseteq W, NEW v \in W
    PROVE  \A n \in 0..MaxDepth : Layer(v)[n] \subseteq W
<1>. DEFINE Outside == {n \in 0..MaxDepth : ~(Layer(v)[n] \subseteq W)}
<1>. SUFFICES ASSUME Outside # {} PROVE FALSE
  OBVIOUS
<1>0. MaxDepth \in Nat
  BY LimitsAssumption
<1>1. PICK n \in Outside : \A m \in Outside : ~(m < n)
  <2>1. Outside \in SUBSET Nat
    BY <1>0
  <2>. HIDE DEF Outside
  <2>. QED BY <2>1, LeastNumber
<1>2. n \in 0..MaxDepth /\ ~(Layer(v)[n] \subseteq W)
  OBVIOUS
<1>3. n # 0
  BY <1>2, LayerSteps DEF Layered
<1>4. Layer(v)[n - 1] \subseteq W
  BY <1>0, <1>1, <1>2, <1>3
<1>5. Layer(v)[n] = UNION {CitesOf(w) : w \in Layer(v)[n - 1]}
  BY <1>0, <1>2, <1>3, LayerSteps DEF Layered
<1>. QED BY <1>2, <1>4, <1>5

-------------------------------------------------------------------------------
(* Releases rest on releases.                                              *)

\* What a released version cites is released.
Closed == \A v \in Released : CitesOf(v) \subseteq Released

\* No chain of citations leads from a released version back to it.
Acyclic == \A v \in Released : v \notin Behind(v)

LEMMA ReleasedOf ==
    ASSUME Inv, NEW v \in Released
    PROVE  /\ v \in Versions /\ ver[v].state = "APPROVED"
           /\ \E j \in Jobs : Published(j) /\ job[j].version = v
BY PublishedVersion DEF Released

LEMMA BehindReleased ==
    ASSUME Closed, NEW v \in Released
    PROVE  Behind(v) \subseteq Released
<1>1. \A n \in 0..MaxDepth : Layer(v)[n] \subseteq Released
  BY ClosedLayers DEF Closed
<1>. QED BY <1>1, LimitsAssumption DEF Behind

\* Nobody rewrites what was released.
LEMMA ReleasedText ==
    ASSUME Inv, [Next]_vars, NEW v \in Released
    PROVE  /\ ver'[v].content = ver[v].content
           /\ CitesOf(v)' = CitesOf(v) /\ ver'[v].state = "APPROVED"
<1>1. v \in Versions /\ ver[v].state = "APPROVED"
  BY ReleasedOf
<1>2. CASE DraftStep
  <2>1. PICK w \in Versions :
              /\ \A u \in Versions \ {w} : ver'[u] = ver[u]
              /\ \/ ver[w].state # "APPROVED" /\ ver'[w].state # "APPROVED"
                 \/ /\ ver'[w].state = "APPROVED"
                    /\ ver'[w].content = ver[w].content /\ ver'[w].base = ver[w].base
    BY <1>2, DraftEffect
  <2>2. ver'[v].content = ver[v].content /\ ver'[v].state = "APPROVED"
    BY <1>1, <2>1
  <2>. QED BY <2>2 DEF CitesOf
<1>3. CASE ~DraftStep
  <2>1. UNCHANGED ver
    BY <1>3 DEF Next, PublishStep, RequestPublish, AlreadyCurrent, Prepare, WriteArtifacts,
       Activate, Break, LateWrite, Fail, Cancel, Retry, ResourceStep, Suspend, Resume,
       TrashOrRestore, SetPermissions, Change, Invalidate, NextDay, vars
  <2>. QED BY <1>1, <2>1 DEF CitesOf
<1>. QED BY <1>2, <1>3

\* A chain of citations within versions that nobody rewrites stays as it is.
LEMMA SameLayers ==
    ASSUME NEW W, \A w \in W : CitesOf(w) \subseteq W /\ CitesOf(w)' = CitesOf(w),
           NEW v \in W
    PROVE  \A n \in 0..MaxDepth : Layer(v)'[n] = Layer(v)[n]
<1>. DEFINE Changed == {n \in 0..MaxDepth : Layer(v)'[n] # Layer(v)[n]}
<1>. SUFFICES ASSUME Changed # {} PROVE FALSE
  OBVIOUS
<1>1. MaxDepth \in Nat
  BY LimitsAssumption
<1>2. PICK n \in Changed : \A m \in Changed : ~(m < n)
  <2>1. Changed \in SUBSET Nat
    BY <1>1
  <2>. HIDE DEF Changed
  <2>. QED BY <2>1, LeastNumber
<1>3. n \in 0..MaxDepth /\ Layer(v)'[n] # Layer(v)[n]
  OBVIOUS
<1>4. \A u : /\ Layer(u)'[0] = {u}
             /\ \A m \in 1..MaxDepth : Layer(u)'[m] = UNION {CitesOf(w)' : w \in Layer(u)'[m - 1]}
  <2>1. Layered'
    BY LayerSteps, PTL
  <2>. QED BY <2>1 DEF Layered
<1>5. n # 0
  BY <1>3, <1>4, LayerSteps DEF Layered
<1>6. Layer(v)'[n - 1] = Layer(v)[n - 1] /\ n - 1 \in 0..MaxDepth
  BY <1>1, <1>2, <1>3, <1>5
<1>. HIDE DEF Changed
<1>7. n \in 1..MaxDepth
  BY <1>1, <1>3, <1>5
<1>8. /\ Layer(v)[n] = UNION {CitesOf(w) : w \in Layer(v)[n - 1]}
      /\ Layer(v)'[n] = UNION {CitesOf(w)' : w \in Layer(v)'[n - 1]}
  BY <1>4, <1>7, LayerSteps DEF Layered
<1>9. \A w \in Layer(v)[n - 1] : CitesOf(w)' = CitesOf(w)
  <2>1. \A w \in W : CitesOf(w) \subseteq W
    OBVIOUS
  <2>2. Layer(v)[n - 1] \subseteq W
    BY <1>6, <2>1, ClosedLayers
  <2>. QED BY <2>2
<1>. QED BY <1>3, <1>6, <1>8, <1>9

LEMMA SameBehind ==
    ASSUME Inv, Closed, [Next]_vars, NEW v \in Released
    PROVE  Behind(v)' = Behind(v)
<1>1. \A w \in Released : CitesOf(w) \subseteq Released /\ CitesOf(w)' = CitesOf(w)
  BY ReleasedText DEF Closed
<1>2. \A n \in 0..MaxDepth : Layer(v)'[n] = Layer(v)[n]
  BY <1>1, SameLayers
<1>. QED BY <1>2, LimitsAssumption DEF Behind

\* A release is activated only with what is behind it, and while that is in use.
LEMMA ActivateRests ==
    ASSUME Inv, NEW j \in Jobs, Activate(j), NEW v, v = job[j].version
    PROVE  /\ v \in Versions \ Released
           /\ InUse(ResourceOf[v])
           /\ \A w \in Behind(v) : w \in Released /\ InUse(ResourceOf[w])
           /\ Behind(v)' = Behind(v)
           /\ CitesOf(v)' = CitesOf(v)
<1>1. v \in Versions
  BY SuccessorIsNewest
<1>2. v \notin Released
  <2>. SUFFICES ASSUME NEW k \in Jobs, Published(k), job[k].version = v PROVE FALSE
    BY DEF Released
  <2>1. k \in ReleasesOf(ResourceOf[v])
    BY DEF ReleasesOf, Published
  <2>2. ver[job[k].version].number < ver[v].number
    BY <2>1, SuccessorIsNewest
  <2>3. ver[job[k].version].number \in Nat
    BY <1>1 DEF Inv, TypeOK, Version
  <2>. QED BY <2>2, <2>3
<1>3. PublishChecks(v) /\ UNCHANGED ver
  BY DEF Activate
<1>4. \A w \in Versions : CitesOf(w) \subseteq Versions /\ CitesOf(w)' = CitesOf(w)
  BY <1>3, ContentsAssumption DEF Inv, TypeOK, Version, CitesOf
<1>5. \A n \in 0..MaxDepth : Layer(v)'[n] = Layer(v)[n]
  BY <1>1, <1>4, SameLayers
<1>6. Behind(v)' = Behind(v)
  BY <1>5, LimitsAssumption DEF Behind
<1>. QED BY <1>1, <1>2, <1>3, <1>4, <1>6 DEF PublishChecks, Reliable

\* Releases are added one by one and never withdrawn.
LEMMA ReleasedGrows ==
    ASSUME Inv, [Next]_vars
    PROVE  /\ Released \subseteq Released'
           /\ \A v \in Released' \ Released : \E j \in Jobs : Activate(j) /\ job[j].version = v
<1>1. ASSUME NEW v \in Released PROVE v \in Released'
  BY OnlyActivateReleases DEF Released
<1>2. ASSUME NEW v \in Released', v \notin Released
      PROVE  \E j \in Jobs : Activate(j) /\ job[j].version = v
  <2>1. PICK j \in Jobs : Published(j)' /\ job'[j].version = v
    BY DEF Released
  <2>2. ~(Published(j) /\ job[j].version = v)
    BY <1>2 DEF Released
  <2>3. Activate(j)
    BY <2>1, <2>2, OnlyActivateReleases
  <2>. QED BY <2>1, <2>3, ActivateEffect
<1>. QED BY <1>1, <1>2

Grounded == Closed /\ Acyclic

LEMMA GroundedInit == Init => Grounded
<1>1. Init => Released = {}
  BY DEF Init, Released, Published
<1>. QED BY <1>1 DEF Grounded, Closed, Acyclic

LEMMA GroundedNext == Inv /\ Grounded /\ [Next]_vars => Grounded'
<1>. SUFFICES ASSUME Inv, Grounded, [Next]_vars PROVE Grounded'
  OBVIOUS
<1>1. ASSUME NEW v \in Released
      PROVE  CitesOf(v)' \subseteq Released' /\ v \notin Behind(v)'
  <2>1. CitesOf(v)' = CitesOf(v) /\ Behind(v)' = Behind(v)
    BY ReleasedText, SameBehind DEF Grounded
  <2>. QED BY <2>1, ReleasedGrows DEF Grounded, Closed, Acyclic
<1>2. ASSUME NEW v \in Released', v \notin Released
      PROVE  CitesOf(v)' \subseteq Released' /\ v \notin Behind(v)'
  <2>1. PICK j \in Jobs : Activate(j) /\ job[j].version = v
    BY <1>2, ReleasedGrows
  <2>2. /\ v \in Versions /\ Behind(v) \subseteq Released
        /\ Behind(v)' = Behind(v) /\ CitesOf(v)' = CitesOf(v)
    BY <2>1, ActivateRests
  <2>3. CitesOf(v) \subseteq Behind(v)
    BY <2>2, CitedIsBehind DEF Inv
  <2>. QED BY <1>2, <2>2, <2>3, ReleasedGrows
<1>. QED BY <1>1, <1>2 DEF Grounded, Closed, Acyclic

LEMMA ReachableGrounded == Spec => [](Inv /\ Grounded)
BY InitInv, GroundedInit, NextInv, GroundedNext, PTL DEF Spec

\* A released version cites released versions only, and no chain of citations
\* leads back to it, however long the chains are and whoever edits what.
THEOREM ReleasesAreGrounded == Spec => []ReleasedGrounded
<1>1. ASSUME Inv, Grounded PROVE ReleasedGrounded
  <2>. SUFFICES ASSUME NEW j \in Jobs, Published(j)
                PROVE  /\ job[j].version \notin Behind(job[j].version)
                       /\ \A w \in CitesOf(job[j].version) :
                             \E k \in Jobs : Published(k) /\ job[k].version = w
    BY DEF ReleasedGrounded, Published
  <2>1. job[j].version \in Released
    BY DEF Released
  <2>2. CitesOf(job[j].version) \subseteq Released /\ job[j].version \notin Behind(job[j].version)
    BY <1>1, <2>1 DEF Grounded, Closed, Acyclic
  <2>. QED BY <2>2 DEF Released
<1>. QED BY <1>1, ReachableGrounded, PTL

-------------------------------------------------------------------------------
(* A pause reaches what rests on it.                                       *)

\* What was paused by request and not resumed is suspended.
Stopped == \A r \in paused : res[r].suspended

Rests(q, r) ==
    /\ q # r /\ res[q].active # NoJob
    /\ \E w \in Behind(CurrentVersion(q)) : ResourceOf[w] = r

LEMMA ReadersByRests ==
    PauseReachesReaders <=>
       \A r \in paused, q \in Resources : Rests(q, r) /\ InUse(q) => owed[r]["changed"] > 0
BY DEF PauseReachesReaders, Rests

\* What readers see was released, and so was everything behind it.
LEMMA CurrentReleased ==
    ASSUME Inv, NEW q \in Resources, res[q].active # NoJob
    PROVE  CurrentVersion(q) \in Released /\ ResourceOf[CurrentVersion(q)] = q
<1>1. res[q].active \in Jobs /\ ResourceSound(q)
  BY DEF Inv, TypeOK, Resource, PublicationInv
<1>. QED BY <1>1 DEF ResourceSound, CurrentVersion, Released

LEMMA SameRests ==
    ASSUME Inv, Closed, [Next]_vars, \A j \in Jobs : ~Activate(j), NEW q \in Resources, NEW r
    PROVE  Rests(q, r)' <=> Rests(q, r)
<1>1. CASE res[q].active = NoJob
  BY <1>1, SameActive DEF Rests
<1>2. CASE res[q].active # NoJob
  <2>1. PICK v \in Released : CurrentVersion(q) = v
    BY <1>2, CurrentReleased
  <2>2. CurrentVersion(q)' = v /\ Behind(v)' = Behind(v)
    BY <2>1, SameReleases, SameBehind
  <2>3. Rests(q, r)' <=> q # r /\ res'[q].active # NoJob /\ \E w \in Behind(v)' : ResourceOf[w] = r
    BY <2>2, Zenon DEF Rests
  <2>. QED BY <2>1, <2>2, <2>3, SameActive DEF Rests
<1>. QED BY <1>1, <1>2

\* What a change of one resource's availability does.
LEMMA ChangeEffect ==
    ASSUME TypeOK, NEW r \in Resources, NEW suspended, NEW deleted, Change(r, suspended, deleted)
    PROVE  /\ res'[r].suspended = suspended /\ res'[r].deleted = deleted
           /\ \A q \in Resources \ {r} : res'[q] = res[q] /\ owed'[q] = owed[q]
           /\ owed'[r]["changed"] > 0
           /\ \A q \in Resources : owed[q]["changed"] \in Nat
<1>1. res[r] \in Resource /\ \A q \in Resources : owed[q] \in [Causes -> Nat]
  BY DEF TypeOK
<1>2. res'[r] = Bumped(r, suspended, deleted) /\ \A q \in Resources \ {r} : res'[q] = res[q]
  BY DEF Change, TypeOK
<1>3. Bumped(r, suspended, deleted).suspended = suspended /\ Bumped(r, suspended, deleted).deleted = deleted
  BY <1>1 DEF Bumped, Resource
<1>4. /\ owed'[r]["changed"] = owed[r]["changed"] + 1
      /\ \A q \in Resources \ {r} : owed'[q] = owed[q]
  BY DEF Change, TypeOK, Causes
<1>5. \A q \in Resources : owed[q]["changed"] \in Nat
  BY <1>1 DEF Causes
<1>. QED BY <1>2, <1>3, <1>4, <1>5

\* What an INVALIDATE job does, whether or not it survives its transaction.
LEMMA InvalidateEffect ==
    ASSUME TypeOK, NEW r \in Resources, NEW cause \in Causes, Invalidate(r, cause)
    PROVE  /\ paused' = paused
           /\ \A q \in Resources : res[q].suspended => res'[q].suspended
           /\ \A q \in Resources : InUse(q)' => InUse(q)
           /\ ~InUse(r) => \A q \in Downstream(r) : ~InUse(q)'
           /\ \A q \in Resources : q # r => owed'[q] = owed[q]
<1>1. \A q \in Resources : res'[q] = res[q] \/ res'[q] = Bumped(q, TRUE, res[q].deleted)
  BY DEF Invalidate
<1>2. ASSUME NEW q \in Resources PROVE Bumped(q, TRUE, res[q].deleted).suspended = TRUE
  <2>1. res[q] \in Resource
    BY DEF TypeOK
  <2>. QED BY <2>1 DEF Bumped, Resource
<1>3. ASSUME NEW q \in Resources, res'[q] = Bumped(q, TRUE, res[q].deleted)
      PROVE  res'[q].suspended = TRUE
  BY <1>2, <1>3, Zenon
<1>4. ~InUse(r) => \A q \in Downstream(r) : res'[q] = Bumped(q, TRUE, res[q].deleted) /\ q \in Resources
  <2>1. Downstream(r) \subseteq Resources
    BY RowsAssumption DEF Downstream
  <2>2. ~InUse(r) => res' = [d \in Resources |-> IF d \in Downstream(r)
                                                 THEN Bumped(d, TRUE, res[d].deleted) ELSE res[d]]
    BY DEF Invalidate
  <2>. QED BY <2>1, <2>2
<1>5. paused' = paused /\ \A q \in Resources : q # r => owed'[q] = owed[q]
  BY DEF Invalidate, TypeOK
<1>. QED BY <1>1, <1>3, <1>4, <1>5 DEF InUse

\* Resuming a resource needs everything behind its version to be in use.
LEMMA ResumeNeeds ==
    ASSUME NEW r \in Resources, Resume(r), NEW s, Rests(r, s)
    PROVE  ~res[s].suspended
BY DEF Resume, CanResume, EligibleIn, Rests

LEMMA StoppedNext == Inv /\ Stopped /\ [Next]_vars => Stopped'
<1>. SUFFICES ASSUME Inv, Stopped, [Next]_vars, NEW r \in paused' PROVE res'[r].suspended
  BY DEF Stopped
<1>1. TypeOK /\ paused \subseteq Resources
  BY DEF Inv, TypeOK
<1>2. CASE DraftStep \/ NextDay \/ UNCHANGED vars
  <2>1. UNCHANGED <<res, paused>>
    BY <1>2, DraftTypes DEF Inv, NextDay, vars
  <2>. QED BY <2>1 DEF Stopped
<1>3. CASE PublishStep
  <2>1. CASE \E j \in Jobs : Activate(j)
    <3>1. PICK j \in Jobs : Activate(j)
      BY <2>1
    <3>2. paused' = paused /\ r \in Resources /\ res[r].suspended
      BY <1>1, <3>1 DEF Activate, Stopped
    <3>3. InUse(ResourceOf[job[j].version])
      BY <3>1, ActivateRests
    <3>4. r # ResourceOf[job[j].version]
      BY <3>2, <3>3 DEF InUse
    <3>. QED BY <3>1, <3>2, <3>4, ActivateEffect
  <2>2. CASE ~\E j \in Jobs : Activate(j)
    <3>1. UNCHANGED <<res, paused>>
      BY <1>3, <2>2 DEF PublishStep, RequestPublish, AlreadyCurrent, Prepare, WriteArtifacts, Break,
                        LateWrite, Fail, Cancel, Retry
    <3>. QED BY <3>1 DEF Stopped
  <2>. QED BY <2>1, <2>2
<1>4. ASSUME NEW s \in Resources, Suspend(s) \/ TrashOrRestore(s) PROVE res'[r].suspended
  <2>1. PICK deleted : Change(s, TRUE, deleted)
    BY <1>4 DEF Suspend, TrashOrRestore
  <2>2. paused' = paused \cup {s}
    BY <1>4 DEF Suspend, TrashOrRestore
  <2>. QED BY <1>1, <2>1, <2>2, ChangeEffect DEF Stopped
<1>5. ASSUME NEW s \in Resources, Resume(s) PROVE res'[r].suspended
  <2>1. Change(s, FALSE, FALSE) /\ paused' = paused \ {s}
    BY <1>5 DEF Resume
  <2>. QED BY <1>1, <2>1, ChangeEffect DEF Stopped
<1>6. ASSUME NEW s \in Resources, SetPermissions(s) PROVE res'[r].suspended
  <2>1. Change(s, res[s].suspended, FALSE) /\ paused' = paused
    BY <1>6 DEF SetPermissions
  <2>2. /\ res'[s].suspended = res[s].suspended
        /\ \A q \in Resources \ {s} : res'[q] = res[q]
    BY <1>1, <2>1, ChangeEffect
  <2>. QED BY <1>1, <2>1, <2>2 DEF Stopped
<1>7. ASSUME NEW s \in Resources, NEW cause \in Causes, Invalidate(s, cause)
      PROVE  res'[r].suspended
  BY <1>1, <1>7, InvalidateEffect DEF Stopped
<1>. QED BY <1>2, <1>3, <1>4, <1>5, <1>6, <1>7 DEF Next, ResourceStep

LEMMA ReadersNext ==
    Inv /\ Grounded /\ Stopped /\ PauseReachesReaders /\ [Next]_vars => PauseReachesReaders'
<1>. SUFFICES ASSUME Inv, Grounded, Stopped, PauseReachesReaders, [Next]_vars,
                     NEW r \in paused', NEW q \in Resources, Rests(q, r)', InUse(q)'
              PROVE  owed'[r]["changed"] > 0
  BY DEF PauseReachesReaders, Rests
<1>1. TypeOK /\ paused \subseteq Resources /\ Closed
  BY DEF Inv, TypeOK, Grounded
<1>2. r \in paused /\ Rests(q, r) /\ InUse(q) => owed[r]["changed"] > 0
  BY DEF PauseReachesReaders, Rests
<1>3. q # r
  BY DEF Rests
<1>4. CASE \E j \in Jobs : Activate(j)
  <2>1. PICK j \in Jobs : Activate(j)
    BY <1>4
  <2>. PICK v : v = job[j].version
    OBVIOUS
  <2>2. /\ v \in Versions /\ \A w \in Behind(v) : InUse(ResourceOf[w])
        /\ Behind(v)' = Behind(v)
    BY <2>1, ActivateRests
  <2>3. /\ job'[j].version = v /\ \A k \in Jobs \ {j} : job'[k] = job[k]
        /\ res'[ResourceOf[v]].active = j
        /\ \A s \in Resources \ {ResourceOf[v]} : res'[s] = res[s]
        /\ UNCHANGED paused
        /\ \A s \in Resources : owed'[s]["changed"] = owed[s]["changed"]
    <3>1. UNCHANGED paused /\ \A s \in Resources : owed'[s]["changed"] = owed[s]["changed"]
      BY <1>1, <2>1 DEF Activate, TypeOK, Causes
    <3>. QED BY <2>1, <3>1, ActivateEffect
  <2>4. CASE q = ResourceOf[v]
    <3>1. CurrentVersion(q)' = v
      BY <2>3, <2>4, RowsAssumption DEF CurrentVersion
    <3>2. \E w \in Behind(v)' : ResourceOf[w] = r
      BY <3>1, Zenon DEF Rests
    <3>3. ~res[r].suspended
      BY <2>2, <3>2 DEF InUse
    <3>. QED BY <2>3, <3>3 DEF Stopped
  <2>5. CASE q # ResourceOf[v]
    <3>1. res'[q] = res[q] /\ res[q].active # NoJob
      BY <2>3, <2>5 DEF Rests
    <3>2. res[q].active \in Jobs /\ Published(res[q].active)
      BY <3>1 DEF Inv, TypeOK, Resource, PublicationInv, ResourceSound
    <3>3. ~Published(j)
      BY <2>1, SuccessorIsNewest
    <3>4. PICK x \in Released : CurrentVersion(q) = x
      BY <3>1, CurrentReleased
    <3>5. CurrentVersion(q)' = x /\ Behind(x)' = Behind(x)
      BY <1>1, <2>3, <3>1, <3>2, <3>3, <3>4, SameBehind DEF CurrentVersion
    <3>6. \E w \in Behind(x)' : ResourceOf[w] = r
      BY <3>5, Zenon DEF Rests
    <3>7. Rests(q, r) /\ InUse(q)
      BY <1>3, <3>1, <3>4, <3>5, <3>6 DEF Rests, InUse
    <3>. QED BY <1>1, <1>2, <2>3, <3>7
  <2>. QED BY <2>4, <2>5
<1>5. CASE \A j \in Jobs : ~Activate(j)
  <2>1. Rests(q, r)
    BY <1>1, <1>5, SameRests
  <2>2. CASE DraftStep \/ PublishStep \/ NextDay \/ UNCHANGED vars
    <3>1. UNCHANGED <<res, paused, owed>>
      BY <1>5, <2>2, DraftTypes DEF Inv, PublishStep, RequestPublish, AlreadyCurrent, Prepare,
         WriteArtifacts, Break, LateWrite, Fail, Cancel, Retry, NextDay, vars
    <3>2. InUse(q)
      BY <3>1 DEF InUse
    <3>. QED BY <1>2, <2>1, <3>1, <3>2
  <2>3. ASSUME NEW s \in Resources, Suspend(s) \/ TrashOrRestore(s)
        PROVE  owed'[r]["changed"] > 0
    <3>1. PICK deleted : Change(s, TRUE, deleted)
      BY <2>3 DEF Suspend, TrashOrRestore
    <3>2. paused' = paused \cup {s}
      BY <2>3 DEF Suspend, TrashOrRestore
    <3>3. res'[s].suspended /\ \A p \in Resources \ {s} : res'[p] = res[p] /\ owed'[p] = owed[p]
      BY <1>1, <3>1, ChangeEffect
    <3>4. q # s /\ InUse(q)
      BY <3>3 DEF InUse
    <3>. QED BY <1>1, <1>2, <2>1, <3>1, <3>2, <3>3, <3>4, ChangeEffect
  <2>4. ASSUME NEW s \in Resources, Resume(s) PROVE owed'[r]["changed"] > 0
    <3>1. Change(s, FALSE, FALSE) /\ paused' = paused \ {s}
      BY <2>4 DEF Resume
    <3>2. r \in paused /\ r # s /\ res[r].suspended
      BY <3>1 DEF Stopped
    <3>3. q # s
      BY <2>1, <2>4, <3>2, ResumeNeeds
    <3>4. \A p \in Resources \ {s} : res'[p] = res[p] /\ owed'[p] = owed[p]
      BY <1>1, <3>1, ChangeEffect
    <3>5. InUse(q)
      BY <3>3, <3>4 DEF InUse
    <3>. QED BY <1>1, <1>2, <2>1, <3>2, <3>4, <3>5
  <2>5. ASSUME NEW s \in Resources, SetPermissions(s) PROVE owed'[r]["changed"] > 0
    <3>1. Change(s, res[s].suspended, FALSE) /\ paused' = paused /\ ~res[s].deleted
      BY <2>5 DEF SetPermissions
    <3>2. /\ res'[s].suspended = res[s].suspended /\ owed'[s]["changed"] > 0
          /\ \A p \in Resources \ {s} : res'[p] = res[p] /\ owed'[p] = owed[p]
      BY <1>1, <3>1, ChangeEffect
    <3>3. InUse(q)
      BY <3>1, <3>2 DEF InUse
    <3>. QED BY <1>1, <1>2, <2>1, <3>1, <3>2, <3>3
  <2>6. ASSUME NEW s \in Resources, NEW cause \in Causes, Invalidate(s, cause)
        PROVE  owed'[r]["changed"] > 0
    <3>1. /\ paused' = paused /\ InUse(q)
          /\ ~InUse(s) => \A p \in Downstream(s) : ~InUse(p)'
          /\ r # s => owed'[r] = owed[r]
      BY <1>1, <2>6, InvalidateEffect
    <3>2. CASE r # s
      BY <1>2, <2>1, <3>1, <3>2
    <3>3. CASE r = s
      <4>1. ~InUse(s)
        BY <3>1, <3>3 DEF Stopped, InUse
      <4>2. q \in Downstream(s)
        <5>1. res[q].active # NoJob
          BY <2>1 DEF Rests
        <5>2. PICK v \in Released : CurrentVersion(q) = v /\ ResourceOf[v] = q
          BY <5>1, CurrentReleased
        <5>3. PICK w \in Behind(v) : ResourceOf[w] = s
          BY <2>1, <3>3, <5>2 DEF Rests
        <5>4. w \in Released
          BY <1>1, <5>3, BehindReleased
        <5>5. w \in Of(s) /\ v \in Versions
          BY <5>2, <5>3, <5>4, ReleasedOf DEF Of
        <5>. QED BY <1>3, <3>3, <5>2, <5>3, <5>5 DEF Downstream
      <4>. QED BY <3>1, <4>1, <4>2
    <3>. QED BY <3>2, <3>3
  <2>. QED BY <2>2, <2>3, <2>4, <2>5, <2>6 DEF Next, ResourceStep
<1>. QED BY <1>4, <1>5

ReadersInv == Inv /\ Grounded /\ Stopped /\ PauseReachesReaders

LEMMA ReadersInit == Init => Stopped /\ PauseReachesReaders
BY DEF Init, Stopped, PauseReachesReaders

LEMMA ReadersInvNext == ReadersInv /\ [Next]_vars => ReadersInv'
BY NextInv, GroundedNext, StoppedNext, ReadersNext DEF ReadersInv

\* While a resource is suspended or deleted by request, everything active that
\* rests on it over any number of citations is suspended too, or a job that
\* will suspend it is still owed.
THEOREM PausesReachReaders == Spec => []PauseReachesReaders
<1>1. Init => ReadersInv
  BY InitInv, GroundedInit, ReadersInit DEF ReadersInv
<1>2. ReadersInv => PauseReachesReaders
  BY DEF ReadersInv
<1>. QED BY <1>1, <1>2, ReadersInvNext, PTL DEF Spec

-------------------------------------------------------------------------------
(* What is stranded stays so.                                              *)

\* What a later release in force has outdated does not represent its resource,
\* whatever its own date says.
LEMMA OutdatedIsPassedOver ==
    ASSUME Inv, NEW w \in Released, Outdated(w)
    PROVE  ~Selected(w)
<1>1. w \in Versions
  BY ReleasedOf
<1>2. PICK x \in Candidates(ResourceOf[w]) : ver[x].number > ver[w].number
  BY DEF Outdated
<1>3. ver[w].number \in Nat /\ ver[x].number \in Nat
  BY <1>1, <1>2 DEF Candidates, Of, Inv, TypeOK, Version
<1>. QED BY <1>2, <1>3 DEF Selected

LEMMA ReleasedNumber ==
    ASSUME Inv, [Next]_vars, NEW v \in Released
    PROVE  ver'[v].number = ver[v].number
<1>1. v \in Versions /\ ver[v].state = "APPROVED"
  BY ReleasedOf
<1>2. CASE DraftStep
  <2>1. PICK w \in Versions :
              /\ \A u \in Versions \ {w} : ver'[u] = ver[u]
              /\ \/ ver[w].state # "APPROVED" /\ ver'[w].state # "APPROVED"
                 \/ /\ ver'[w].state = "APPROVED"
                    /\ ver'[w].content = ver[w].content /\ ver'[w].base = ver[w].base
                    /\ ver'[w].number = ver[w].number
    BY <1>2, DraftEffect
  <2>. QED BY <1>1, <2>1
<1>3. CASE ~DraftStep
  <2>1. UNCHANGED ver
    BY <1>3 DEF Next, PublishStep, RequestPublish, AlreadyCurrent, Prepare, WriteArtifacts,
       Activate, Break, LateWrite, Fail, Cancel, Retry, ResourceStep, Suspend, Resume,
       TrashOrRestore, SetPermissions, Change, Invalidate, NextDay, vars
  <2>. QED BY <2>1
<1>. QED BY <1>2, <1>3

\* Days are not taken back, and the date of what is released is frozen.
LEMMA InForceStays ==
    ASSUME Inv, [Next]_vars, NEW v \in Released, InForce(v)
    PROVE  InForce(v)'
<1>1. v \in Versions /\ ver'[v].content = ver[v].content
  BY ReleasedOf, ReleasedText
<1>2. ver[v].content \in Contents
  BY <1>1 DEF Inv, TypeOK, Version
<1>3. ValidFrom[ver[v].content] \in Nat
  BY <1>2, ContentsAssumption
<1>4. today \in Nat /\ today' \in Nat
  BY NextInv DEF Inv, TypeOK
<1>5. today' = today \/ today' = today + 1
  <2>1. CASE DraftStep
    BY <2>1, DraftTypes DEF Inv
  <2>2. CASE ~DraftStep
    BY <2>2 DEF Next, PublishStep, RequestPublish, AlreadyCurrent, Prepare, WriteArtifacts,
       Activate, Break, LateWrite, Fail, Cancel, Retry, ResourceStep, Suspend, Resume,
       TrashOrRestore, SetPermissions, Change, Invalidate, NextDay, vars
  <2>. QED BY <2>1, <2>2
<1>6. ValidFrom[ver[v].content] <= today'
  BY <1>3, <1>4, <1>5 DEF InForce
<1>. QED BY <1>1, <1>6 DEF InForce

\* A later release that is in force is never withdrawn.
LEMMA OutdatedStays ==
    ASSUME Inv, [Next]_vars, NEW w \in Released, Outdated(w)
    PROVE  w \in Released' /\ Outdated(w)'
<1>1. PICK x \in Released : /\ x \in Candidates(ResourceOf[w])
                             /\ ver[x].number > ver[w].number
  BY DEF Outdated, Candidates
<1>2. /\ x \in Versions /\ x \in Released' /\ w \in Released' /\ ver'[x].state # "ABSENT"
      /\ ver'[w].number = ver[w].number /\ ver'[x].number = ver[x].number
  BY <1>1, ReleasedOf, ReleasedText, ReleasedNumber, ReleasedGrows DEF Inv, TypeOK, Version
<1>3. InForce(x)'
  BY <1>1, InForceStays DEF Candidates
<1>4. x \in Candidates(ResourceOf[w])'
  BY <1>1, <1>2, <1>3 DEF Candidates, Of
<1>5. ver'[x].number > ver'[w].number
  BY <1>1, <1>2
<1>. QED BY <1>2, <1>4, <1>5 DEF Outdated

\* Only resuming ends a suspension, and only of what everything selected bears.
LEMMA SuspensionEnds ==
    ASSUME Inv, [Next]_vars, NEW q \in Resources, res[q].suspended, ~res'[q].suspended
    PROVE  /\ res[q].active # NoJob
           /\ \A w \in Behind(CurrentVersion(q)) \cup {CurrentVersion(q)} : Selected(w)
<1>1. TypeOK
  BY DEF Inv
<1>2. ~(DraftStep \/ NextDay \/ UNCHANGED vars)
  <2>. SUFFICES ASSUME DraftStep \/ NextDay \/ UNCHANGED vars PROVE FALSE
    OBVIOUS
  <2>1. UNCHANGED res
    BY DraftTypes DEF Inv, NextDay, vars
  <2>. QED BY <2>1
<1>3. ~PublishStep
  <2>. SUFFICES ASSUME PublishStep PROVE FALSE
    OBVIOUS
  <2>1. CASE \E j \in Jobs : Activate(j)
    <3>1. PICK j \in Jobs : Activate(j)
      BY <2>1
    <3>2. q # ResourceOf[job[j].version]
      BY <3>1, ActivateRests DEF InUse
    <3>. QED BY <3>1, <3>2, ActivateEffect
  <2>2. CASE ~\E j \in Jobs : Activate(j)
    BY <2>2 DEF PublishStep, RequestPublish, AlreadyCurrent, Prepare, WriteArtifacts, Break,
                LateWrite, Fail, Cancel, Retry
  <2>. QED BY <2>1, <2>2
<1>4. ASSUME NEW s \in Resources, Suspend(s) \/ TrashOrRestore(s) \/ SetPermissions(s)
      PROVE  FALSE
  <2>1. PICK suspended, deleted : Change(s, suspended, deleted) /\ (suspended = TRUE \/ suspended = res[s].suspended)
    BY <1>4 DEF Suspend, TrashOrRestore, SetPermissions
  <2>. QED BY <1>1, <2>1, ChangeEffect
<1>5. ASSUME NEW s \in Resources, NEW cause \in Causes, Invalidate(s, cause) PROVE FALSE
  BY <1>1, <1>5, InvalidateEffect
<1>6. PICK s \in Resources : Resume(s)
  BY <1>2, <1>3, <1>4, <1>5 DEF Next, ResourceStep
<1>7. q = s
  BY <1>1, <1>6, ChangeEffect DEF Resume
<1>. QED BY <1>6, <1>7 DEF Resume, CanResume, EligibleIn

LEMMA StrandedStays ==
    ASSUME Inv, Grounded, [Next]_vars, NEW q \in Resources, Stranded(q)
    PROVE  Stranded(q)'
<1>1. CASE res[q].active = NoJob
  <2>1. res'[q].suspended
    BY <1>1, SuspensionEnds DEF Stranded
  <2>2. ASSUME NEW j \in Jobs, Activate(j) PROVE res'[q] = res[q]
    <3>1. q # ResourceOf[job[j].version]
      BY <2>2, ActivateRests DEF InUse, Stranded
    <3>. QED BY <2>2, <3>1, ActivateEffect
  <2>3. res'[q].active = NoJob
    BY <1>1, <2>2, SameActive
  <2>. QED BY <2>1, <2>3 DEF Stranded
<1>2. CASE res[q].active # NoJob
  <2>1. PICK v \in Released : CurrentVersion(q) = v
    BY <1>2, CurrentReleased
  <2>2. PICK w \in Behind(v) \cup {v} : w \in Released /\ Outdated(w)
    BY <1>2, <2>1 DEF Stranded
  <2>3. res[q].suspended /\ res'[q].suspended
    BY <2>1, <2>2, OutdatedIsPassedOver, SuspensionEnds DEF Stranded
  <2>4. w \in Released' /\ Outdated(w)'
    BY <2>2, OutdatedStays
  <2>5. Behind(v)' = Behind(v)
    BY SameBehind DEF Grounded
  <2>6. CurrentVersion(q)' = v
    <3>1. CASE \A j \in Jobs : ~Activate(j)
      BY <2>1, <3>1, SameReleases
    <3>2. CASE \E j \in Jobs : Activate(j)
      <4>1. PICK j \in Jobs : Activate(j)
        BY <3>2
      <4>2. q # ResourceOf[job[j].version] /\ ~Published(j)
        BY <2>3, <4>1, ActivateRests, SuccessorIsNewest DEF InUse
      <4>3. res'[q] = res[q] /\ \A k \in Jobs \ {j} : job'[k] = job[k]
        BY <4>1, <4>2, ActivateEffect
      <4>4. res[q].active \in Jobs /\ Published(res[q].active)
        BY <1>2 DEF Inv, TypeOK, Resource, PublicationInv, ResourceSound
      <4>. QED BY <1>2, <2>1, <4>2, <4>3, <4>4 DEF CurrentVersion
    <3>. QED BY <3>1, <3>2
  <2>7. \E x \in Behind(CurrentVersion(q))' \cup {CurrentVersion(q)'} : x \in Released' /\ Outdated(x)'
    <3>1. w \in Behind(v)' \cup {v}
      BY <2>2, <2>5
    <3>2. Behind(CurrentVersion(q))' = Behind(v)'
      BY <2>6, Zenon
    <3>. QED BY <2>4, <2>6, <3>1, <3>2
  <2>. QED BY <2>3, <2>7 DEF Stranded
<1>. QED BY <1>1, <1>2

\* A suspended resource that was never released, or whose active version is or
\* rests on a version with a released successor in force, is never in use again.
THEOREM NoWayBackEver == Spec => NoWayBack
<1>1. Inv /\ Grounded /\ [Next]_vars => [\A q \in Resources : Stranded(q) => Stranded(q)']_vars
  BY StrandedStays
<1>. QED BY <1>1, ReachableGrounded, PTL DEF Spec, NoWayBack

\* The same from any database in which releases rest on releases and a pause has
\* reached its readers, such as one that was seeded with published resources.
THEOREM SoundStarts ==
    ReadersInv /\ [][Next]_vars => [](PublicationInv /\ PauseReachesReaders) /\ NoWayBack
<1>1. Inv /\ Grounded /\ [Next]_vars => [\A q \in Resources : Stranded(q) => Stranded(q)']_vars
  BY StrandedStays
<1>2. ReadersInv => Inv /\ Grounded /\ PublicationInv /\ PauseReachesReaders
  BY DEF ReadersInv, Inv
<1>. QED BY <1>1, <1>2, ReadersInvNext, PTL DEF NoWayBack
===============================================================================
