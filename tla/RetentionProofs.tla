---------------------------- MODULE RetentionProofs ----------------------------
(***************************************************************************)
(* Theorems about Retention, for every value of its constants.  The        *)
(* inductive invariant says why a check made before the first deletion     *)
(* holds until the last: whatever could undo it waits for a lock of the    *)
(* purge, or needs a resource that is not in the trash, or is a thread     *)
(* that read the resource today, while a purge needs MinDays in the trash. *)
(***************************************************************************)
EXTENDS Retention, TLAPS

\* The row keeps every day that was promised, and policies state MinDays.
Kept ==
    /\ \A r \in Resources : promise[r] <= resource[r].until /\ resource[r].deleted <= day
    /\ policy.set => policy.days >= MinDays

\* Nobody is about to write the preview of r.
Unread(r) == \A i \in Invals :
    inval[i].at = "read" /\ inval[i].resource = r => ~inval[i].rebuild

Erasable(r) ==
    /\ resource[r].deleted > 0 /\ day >= resource[r].deleted + MinDays
    /\ ~resource[r].hold /\ day >= resource[r].until /\ r \notin Referred
    /\ Unread(r)

\* What a purge checked before the first deletion still holds.
Rightful == \A p \in Purges : purge[p].at = "erasing" => Erasable(purge[p].resource)

\* A thread that will write a preview read a resource that was there today.
Readers == \A i \in Invals : inval[i].at = "read" /\ inval[i].rebuild =>
    LET r == inval[i].resource
    IN  resource[r].text /\ resource[r].deleted \in {0, day}

Gone(r) == object[r] = {} /\ resource[r].suspended /\ r \notin quoted \cup recorded

Purged == \A r \in Resources : ~resource[r].text => Gone(r)

RetentionInv == TypeOK /\ Kept /\ Rightful /\ Readers /\ Purged

\* The two action properties, of one step.
ByRight(r) ==
    (object'[r] \cap Originals # object[r] \cap Originals \/ resource'[r].text # resource[r].text)
      => /\ resource[r].deleted > 0 /\ day >= resource[r].deleted + MinDays
         /\ ~resource[r].hold
         /\ day >= promise[r]
         /\ r \notin Referred

NotShorter(r) ==
    /\ resource'[r].until >= resource[r].until
    /\ (resource[r].deleted > 0 /\ policy'.approved /\ resource'[r] # resource[r]
          /\ policy' # policy /\ policy.set)
         => Expiry(resource'[r], policy'.days) >= Expiry(resource[r], policy.days)

Lawful == \A r \in Resources : ByRight(r) /\ NotShorter(r)

LEMMA Constants ==
    /\ MinDays \in Nat /\ MinDays > 0
    /\ \A t \in Terms : t \in Nat /\ t >= MinDays
    /\ \A d \in Dates \cup {0} : d \in Nat
    /\ Preview \notin Originals /\ None \notin Resources
    /\ MaxAttempts \in Nat /\ MaxOrders \in Nat /\ MaxEvents \in Nat /\ MaxDay \in Nat
    /\ NoInval \in Inval /\ NoInval.state = "ABSENT" /\ NoInval.at = "idle"
    /\ NoPurge \in Purge /\ NoPurge.state = "ABSENT" /\ NoPurge.at = "idle"
BY TermsAssumption, ObjectsAssumption, LimitsAssumption
DEF NoInval, Inval, NoPurge, Purge

LEMMA LaterIsMax ==
    ASSUME NEW a \in Nat, NEW b \in Nat
    PROVE  /\ Later(a, b) \in Nat /\ Later(a, b) >= a /\ Later(a, b) >= b
           /\ \A c \in Nat : c >= a /\ c >= b => c >= Later(a, b)
BY DEF Later

\* Extending a row moves its date, never back, and nothing else.
LEMMA ExtendedRow ==
    ASSUME NEW row \in Resource, NEW days \in Nat
    PROVE  /\ Expiry(row, days) \in Nat
           /\ Expiry(row, days) >= row.until
           /\ row.deleted > 0 /\ days > 0 => Expiry(row, days) >= row.deleted + days
           /\ Extended(row, days) \in Resource
           /\ Extended(row, days).until = Expiry(row, days)
           /\ Extended(row, days).deleted = row.deleted
           /\ Extended(row, days).hold = row.hold
           /\ Extended(row, days).suspended = row.suspended
           /\ Extended(row, days).text = row.text
<1>1. row.until \in Nat /\ row.deleted \in Nat
  BY DEF Resource
<1> DEFINE term == IF row.deleted > 0 /\ days > 0 THEN row.deleted + days ELSE 0
<1>2. term \in Nat /\ Expiry(row, days) = Later(row.until, term)
  BY <1>1 DEF Expiry
<1>3. /\ Expiry(row, days) \in Nat
      /\ Expiry(row, days) >= row.until
      /\ Expiry(row, days) >= term
  <2> HIDE DEF term
  <2> QED BY <1>1, <1>2, LaterIsMax
<1>4. row.deleted > 0 /\ days > 0 => Expiry(row, days) >= row.deleted + days
  BY <1>1, <1>3
<1> HIDE DEF term
<1> DEFINE until == Expiry(row, days)
<1>5. Extended(row, days) = [row EXCEPT !.until = until] /\ until \in Nat /\ row \in Resource
  BY <1>3 DEF Extended
<1> HIDE DEF until
<1>6. /\ Extended(row, days) \in Resource
      /\ Extended(row, days).until = until
      /\ Extended(row, days).deleted = row.deleted
      /\ Extended(row, days).hold = row.hold
      /\ Extended(row, days).suspended = row.suspended
      /\ Extended(row, days).text = row.text
  <2> DEFINE q == [row EXCEPT !.until = until]
  <2>1. row = [deleted |-> row.deleted, until |-> row.until, hold |-> row.hold,
               suspended |-> row.suspended, text |-> row.text]
    BY <1>5 DEF Resource
  <2>2. /\ q.until = until /\ q.deleted = row.deleted /\ q.hold = row.hold
        /\ q.suspended = row.suspended /\ q.text = row.text
    BY <2>1
  <2>3. q \in Resource
    BY <1>5 DEF Resource
  <2> QED
    BY <1>5, <2>2, <2>3
<1>7. until = Expiry(row, days)
  BY DEF until
<1>8. /\ Expiry(row, days) \in Nat
      /\ Expiry(row, days) >= row.until
  BY <1>3
<1> QED
  BY <1>4, <1>6, <1>7, <1>8

LEMMA InitHolds == Init => RetentionInv
<1> SUFFICES ASSUME Init PROVE RetentionInv
  OBVIOUS
<1>1. policy \in Policy /\ (policy.set => policy.days >= MinDays)
  <2>1. MinDays \in Nat
    BY Constants
  <2>2. CASE policy = [set |-> FALSE, approved |-> FALSE, days |-> 0, expires |-> 0]
    BY <2>2 DEF Policy
  <2>3. CASE policy = [set |-> TRUE, approved |-> TRUE, days |-> MinDays, expires |-> 0]
    BY <2>1, <2>3 DEF Policy
  <2> QED
    BY <2>2, <2>3 DEF Init, Policies
<1>2. TypeOK
  BY <1>1, Constants DEF Init, TypeOK, Resource, Policy
<1> QED
  BY <1>1, <1>2, Constants
  DEF RetentionInv, Init, Kept, Rightful, Readers, Purged

-------------------------------------------------------------------------------
(* Steps of requests on the rows.                                          *)

\* A change of the rows that no purge in progress forbids keeps what purges
\* and threads rely on.
LEMMA RowsKeep ==
    ASSUME RetentionInv, resource' \in [Resources -> Resource], UNCHANGED <<day, purge, quoted, related, recorded, object>>,
           \A i \in Invals : inval'[i] = inval[i] \/ inval'[i].at = "idle",
           \A r \in Resources :
              /\ resource'[r].text = resource[r].text
              /\ resource'[r].text = FALSE => resource'[r].suspended
              /\ resource'[r].deleted \in {0, day, resource[r].deleted}
              /\ Free(r) \/ resource'[r] = resource[r]
    PROVE  Rightful' /\ Readers' /\ Purged'
<1> USE DEF RetentionInv
<1>1. Purged'
  BY DEF Purged, Gone
<1>2. Readers'
  <2> SUFFICES ASSUME NEW i \in Invals, inval'[i].at = "read", inval'[i].rebuild
               PROVE  LET r == inval'[i].resource
                      IN  resource'[r].text /\ resource'[r].deleted \in {0, day}
    BY DEF Readers
  <2>1. inval'[i] = inval[i]
    OBVIOUS
  <2>2. inval[i].resource \in Resources
    BY <2>1 DEF TypeOK
  <2> QED
    BY <2>1, <2>2 DEF Readers
<1>3. Rightful'
  <2> SUFFICES ASSUME NEW p \in Purges, purge[p].at = "erasing"
               PROVE  Erasable(purge[p].resource)'
    BY DEF Rightful
  <2> DEFINE r == purge[p].resource
  <2>1. r \in Resources
    BY DEF TypeOK
  <2>2. resource'[r] = resource[r]
    BY <2>1 DEF Free
  <2>3. Erasable(r)
    BY DEF Rightful
  <2>4. Unread(r)'
    BY <2>3 DEF Erasable, Unread
  <2> QED
    BY <2>2, <2>3, <2>4 DEF Erasable, Referred
<1> QED
  BY <1>1, <1>2, <1>3

LEMMA SetPolicyKeeps ==
    ASSUME RetentionInv, NEW days \in Terms, NEW approved \in BOOLEAN,
           NEW expires \in Dates \cup {0}, NEW backfill \in BOOLEAN,
           SetPolicy(days, approved, expires, backfill)
    PROVE  RetentionInv' /\ Lawful
<1> USE DEF RetentionInv
<1>0. days \in Nat /\ days >= MinDays /\ days > 0 /\ expires \in Nat
  BY Constants
<1> DEFINE Reached(r) == approved /\ backfill /\ resource[r].deleted > 0
<1>1. /\ policy' = [set |-> TRUE, approved |-> approved, days |-> days, expires |-> expires]
      /\ resource' = [r \in Resources |-> IF Reached(r)
                        THEN Extended(resource[r], Backfill(days)) ELSE resource[r]]
      /\ promise' = [r \in Resources |-> IF Reached(r)
                        THEN Later(promise[r], resource[r].deleted + days) ELSE promise[r]]
  BY DEF SetPolicy
<1>2. /\ policy' \in Policy /\ policy'.set /\ policy'.days = days
      /\ policy'.days >= MinDays
  BY <1>0, <1>1 DEF Policy
<1>3. policy.days \in Nat /\ MinDays \in Nat
  BY Constants DEF TypeOK, Policy
<1>4. /\ Backfill(days) \in Nat /\ Backfill(days) >= days
      /\ policy.set => Backfill(days) >= policy.days
  BY <1>0, <1>3, LaterIsMax DEF Backfill
<1>5. \A r \in Resources :
        /\ resource[r] \in Resource /\ resource[r].deleted \in Nat
        /\ resource[r].until \in Nat /\ promise[r] \in Nat
  BY DEF TypeOK, Resource
<1>6. \A r \in Resources :
        /\ resource'[r] \in Resource /\ promise'[r] \in Nat
        /\ resource'[r].text = resource[r].text
        /\ resource'[r].suspended = resource[r].suspended
        /\ resource'[r].deleted = resource[r].deleted
        /\ resource'[r].until >= resource[r].until
        /\ promise'[r] <= resource'[r].until
        /\ Reached(r) => resource'[r].until = Expiry(resource[r], Backfill(days))
  <2> TAKE r \in Resources
  <2>1. CASE ~Reached(r)
    BY <2>1, <1>1, <1>5 DEF Kept
  <2>2. CASE Reached(r)
    <3>1. resource'[r] = Extended(resource[r], Backfill(days))
      BY <2>2, <1>1
    <3>2. promise'[r] = Later(promise[r], resource[r].deleted + days)
      BY <2>2, <1>1
    <3>0. /\ Expiry(resource[r], Backfill(days)) \in Nat
          /\ Expiry(resource[r], Backfill(days)) >= resource[r].until
          /\ resource[r].deleted > 0 /\ Backfill(days) > 0
               => Expiry(resource[r], Backfill(days)) >= resource[r].deleted + Backfill(days)
          /\ Extended(resource[r], Backfill(days)) \in Resource
          /\ Extended(resource[r], Backfill(days)).until = Expiry(resource[r], Backfill(days))
          /\ Extended(resource[r], Backfill(days)).deleted = resource[r].deleted
          /\ Extended(resource[r], Backfill(days)).suspended = resource[r].suspended
          /\ Extended(resource[r], Backfill(days)).text = resource[r].text
      <4>1. resource[r] \in Resource
        BY <1>5
      <4> QED
        BY <4>1, <1>4, ExtendedRow
    <3>3. /\ resource'[r] \in Resource
          /\ resource'[r].until = Expiry(resource[r], Backfill(days))
          /\ resource'[r].until \in Nat
          /\ resource'[r].until >= resource[r].until
          /\ resource'[r].text = resource[r].text
          /\ resource'[r].suspended = resource[r].suspended
          /\ resource'[r].deleted = resource[r].deleted
      BY <3>0, <3>1
    <3>4. resource'[r].until >= resource[r].deleted + Backfill(days)
      <4>1. resource[r].deleted > 0 /\ Backfill(days) > 0
        BY <2>2, <1>0, <1>4
      <4> QED
        BY <3>0, <3>3, <4>1
    <3>5. resource'[r].until >= resource[r].deleted + days
      BY <3>3, <3>4, <1>0, <1>4, <1>5
    <3>6. resource'[r].until >= promise[r]
      BY <3>3, <1>5 DEF Kept
    <3>7. promise'[r] \in Nat /\ promise'[r] <= resource'[r].until
      <4>1. promise[r] \in Nat /\ resource[r].deleted + days \in Nat
        BY <1>0, <1>5
      <4> QED
        BY <3>2, <3>3, <3>5, <3>6, <4>1, LaterIsMax
    <3> QED
      BY <3>3, <3>7
  <2> QED
    BY <2>1, <2>2
<1> HIDE DEF Reached
<1>7. resource' \in [Resources -> Resource] /\ promise' \in [Resources -> Nat]
  BY <1>1, <1>6
<1>8. TypeOK'
  BY <1>2, <1>7 DEF TypeOK, SetPolicy, Order, refs
<1>9. Kept'
  BY <1>2, <1>6 DEF Kept, SetPolicy
<1>10. Rightful' /\ Readers' /\ Purged'
  <2>1. LibraryFree /\ UNCHANGED <<day, purge, quoted, related, recorded, object, inval>>
    BY DEF SetPolicy, refs
  <2>2. \A r \in Resources : Free(r)
    BY <2>1 DEF LibraryFree, Free
  <2>3. \A r \in Resources : resource'[r].text = FALSE => resource'[r].suspended
    BY <1>6 DEF Purged, Gone
  <2>4. /\ \A r \in Resources : Free(r) \/ resource'[r] = resource[r]
        /\ \A i \in Invals : inval'[i] = inval[i] \/ inval'[i].at = "idle"
        /\ \A r \in Resources : resource'[r].deleted \in {0, day, resource[r].deleted}
        /\ UNCHANGED <<day, purge, quoted, related, recorded, object>>
    BY <1>6, <2>1, <2>2
  <2> QED
    BY <1>6, <1>7, <2>3, <2>4, RowsKeep
<1>11. Lawful
  <2> SUFFICES ASSUME NEW r \in Resources PROVE ByRight(r) /\ NotShorter(r)
    BY DEF Lawful
  <2>1. ByRight(r)
    BY <1>6 DEF ByRight, SetPolicy
  <2>2. ASSUME resource[r].deleted > 0, resource'[r] # resource[r], policy.set
        PROVE  Expiry(resource'[r], policy'.days) >= Expiry(resource[r], policy.days)
    <3>1. Reached(r)
      BY <2>2, <1>1 DEF Reached
    <3>2. policy.days > 0 /\ Backfill(days) >= policy.days
      BY <2>2, <1>3, <1>4, Constants DEF Kept
    <3>3. resource'[r].until = Expiry(resource[r], Backfill(days))
      BY <3>1, <1>6
    <3>4. /\ resource'[r].until >= resource[r].until
          /\ resource'[r].until >= resource[r].deleted + Backfill(days)
          /\ resource'[r].until \in Nat
      BY <2>2, <3>3, <3>2, <1>3, <1>4, <1>5, ExtendedRow
    <3>5. resource'[r].until >= resource[r].deleted + policy.days
      BY <3>2, <3>4, <1>3, <1>4, <1>5
    <3>6. Expiry(resource'[r], policy'.days) \in Nat
          /\ Expiry(resource'[r], policy'.days) >= resource'[r].until
      BY <1>0, <1>2, <1>6, ExtendedRow
    <3>7. resource'[r].until >= Expiry(resource[r], policy.days)
      BY <2>2, <3>2, <3>4, <3>5, <1>3, <1>5 DEF Expiry, Later
    <3>8. Expiry(resource[r], policy.days) \in Nat
      BY <1>3, <1>5, ExtendedRow
    <3> QED
      BY <3>4, <3>6, <3>7, <3>8
  <2> QED
    BY <2>1, <2>2, <1>6 DEF NotShorter
<1> QED
  BY <1>8, <1>9, <1>10, <1>11
LEMMA QueueIsTyped ==
    ASSUME RetentionInv, NEW r \in Resources, Queue(r)
    PROVE  /\ inval' \in [Invals -> Inval]
           /\ \A i \in Invals :
                 \/ inval'[i] = inval[i]
                 \/ inval'[i].at = "idle" /\ inval'[i].resource = r
<1> PICK i \in Invals :
      inval' = [inval EXCEPT ![i] = [NoInval EXCEPT !.state = "QUEUED", !.resource = r]]
  BY DEF Queue
<1> DEFINE q == [NoInval EXCEPT !.state = "QUEUED", !.resource = r]
<1>1. q \in Inval /\ q.at = "idle" /\ q.resource = r
  BY DEF NoInval, Inval
<1>2. inval \in [Invals -> Inval] /\ inval' = [inval EXCEPT ![i] = q]
  BY DEF RetentionInv, TypeOK
<1> HIDE DEF q
<1> QED
  BY <1>1, <1>2

\* One row moves while no purge in progress holds it, perhaps an INVALIDATE job
\* is queued for it.
LEMMA RowKeeps ==
    ASSUME RetentionInv, NEW r \in Resources, NEW row \in Resource, NEW day1 \in Nat,
           Free(r), resource' = [resource EXCEPT ![r] = row],
           row.text = resource[r].text, (row.text \/ row.suspended),
           row.deleted \in {0, day, resource[r].deleted},
           row.until >= resource[r].until,
           promise' = [promise EXCEPT ![r] = day1], day1 <= row.until,
           Queue(r) \/ UNCHANGED inval, orders' \in Nat,
           UNCHANGED <<local, day, policy, may, object, refs, purge, events>>
    PROVE  RetentionInv' /\ Lawful
<1> USE DEF RetentionInv
<1>0. UNCHANGED <<quoted, related, recorded>>
  BY DEF refs
<1>1. /\ resource \in [Resources -> Resource] /\ promise \in [Resources -> Nat]
      /\ day \in Nat /\ row.deleted \in Nat /\ row.until \in Nat /\ row.text \in BOOLEAN
      /\ \A s \in Resources : resource[s].deleted \in Nat /\ resource[s].until \in Nat
                              /\ resource[s].text \in BOOLEAN
  BY DEF TypeOK, Resource
<1>2. /\ resource' \in [Resources -> Resource] /\ promise' \in [Resources -> Nat]
      /\ \A s \in Resources : resource'[s] = IF s = r THEN row ELSE resource[s]
      /\ \A s \in Resources : promise'[s] = IF s = r THEN day1 ELSE promise[s]
  BY <1>1
<1>3. /\ inval' \in [Invals -> Inval]
      /\ \A i \in Invals :
            \/ inval'[i] = inval[i]
            \/ inval'[i].at = "idle" /\ inval'[i].resource \in Resources
  BY QueueIsTyped DEF TypeOK
<1>4. TypeOK'
  <2>1. \A i \in Invals : inval'[i].state # "ABSENT" \/ inval'[i].at = "read"
                            => inval'[i].resource \in Resources
    BY <1>3 DEF TypeOK
  <2> QED
    BY <1>0, <1>2, <1>3, <2>1 DEF TypeOK
<1>5. Kept'
  BY <1>1, <1>2 DEF Kept
<1>6. \A s \in Resources :
        /\ resource'[s].text = resource[s].text
        /\ resource'[s].text = FALSE => resource'[s].suspended
        /\ resource'[s].deleted \in {0, day, resource[s].deleted}
        /\ Free(s) \/ resource'[s] = resource[s]
        /\ resource'[s].until >= resource[s].until
  BY <1>1, <1>2 DEF Purged, Gone
<1>7. Rightful' /\ Readers' /\ Purged'
  <2>1. \A i \in Invals : inval'[i] = inval[i] \/ inval'[i].at = "idle"
    BY <1>3
  <2> QED
    BY <1>0, <1>2, <1>6, <2>1, RowsKeep
<1>8. Lawful
  BY <1>6 DEF Lawful, ByRight, NotShorter
<1> QED
  BY <1>4, <1>5, <1>7, <1>8

LEMMA FreeWhenLibraryFree ==
    ASSUME NEW r, LibraryFree PROVE Free(r)
BY DEF LibraryFree, Free

LEMMA RowStepsKeep ==
    ASSUME RetentionInv, NEW r \in Resources,
           Trash(r) \/ Restore(r) \/ Suspend(r) \/ Resume(r)
             \/ \E hold \in BOOLEAN, until \in Dates \cup {0} : Preserve(r, hold, until)
    PROVE  RetentionInv' /\ Lawful
<1> DEFINE old == resource[r]
<1>1. /\ old \in Resource /\ promise[r] \in Nat /\ promise[r] <= old.until
      /\ day \in Nat /\ promise \in [Resources -> Nat]
      /\ resource \in [Resources -> Resource] /\ orders \in Nat
      /\ promise = [promise EXCEPT ![r] = promise[r]]
      /\ policy.days \in Nat
      /\ PolicyState = "APPROVED" => policy.days > 0
  BY Constants DEF RetentionInv, TypeOK, Kept, Policy, PolicyState
<1>2. /\ old.deleted \in Nat /\ old.until \in Nat /\ old.hold \in BOOLEAN
      /\ old.suspended \in BOOLEAN /\ old.text \in BOOLEAN
      /\ old = [deleted |-> old.deleted, until |-> old.until, hold |-> old.hold,
                suspended |-> old.suspended, text |-> old.text]
  BY <1>1 DEF Resource
<1>3. old.text \/ old.suspended
  BY DEF RetentionInv, Purged, Gone
<1> HIDE DEF old
<1>4. CASE Trash(r)
  <2> DEFINE in == [old EXCEPT !.deleted = day, !.suspended = TRUE]
  <2>1. /\ in \in Resource /\ in.deleted = day /\ in.suspended /\ in.text = old.text
        /\ in.until = old.until
    BY <1>1, <1>2 DEF Resource
  <2> HIDE DEF in
  <2>2. day > 0
    BY DEF RetentionInv, TypeOK
  <2> DEFINE row == IF PolicyState = "APPROVED" THEN Extended(in, policy.days) ELSE in
             day1 == IF PolicyState = "APPROVED" THEN Later(promise[r], day + policy.days)
                     ELSE promise[r]
  <2>3. /\ row \in Resource /\ row.deleted = day /\ row.suspended /\ row.text = old.text
        /\ row.until >= old.until
        /\ PolicyState = "APPROVED" => row.until >= day + policy.days
    <3> DEFINE out == Extended(in, policy.days)
    <3>1. /\ out \in Resource /\ out.deleted = in.deleted
          /\ out.suspended = in.suspended /\ out.text = in.text
          /\ out.until = Expiry(in, policy.days)
          /\ Expiry(in, policy.days) >= in.until
          /\ in.deleted > 0 /\ policy.days > 0
               => Expiry(in, policy.days) >= in.deleted + policy.days
      BY <1>1, <2>1, ExtendedRow
    <3> HIDE DEF out
    <3>2. /\ out.deleted = day /\ out.suspended /\ out.text = old.text
          /\ out.until >= old.until
          /\ policy.days > 0 => out.until >= day + policy.days
      BY <1>1, <2>1, <2>2, <3>1
    <3>3. row = IF PolicyState = "APPROVED" THEN out ELSE in
      BY DEF out
    <3>4. CASE PolicyState = "APPROVED"
      BY <1>1, <3>1, <3>2, <3>3, <3>4
    <3>5. CASE PolicyState # "APPROVED"
      BY <1>2, <2>1, <3>3, <3>5
    <3> QED
      BY <3>4, <3>5
  <2>4. day1 \in Nat /\ day1 <= row.until
    <3>1. CASE PolicyState # "APPROVED"
      BY <1>1, <1>2, <2>3, <3>1 DEF Resource
    <3>2. CASE PolicyState = "APPROVED"
      <4>1. /\ day + policy.days \in Nat /\ row.until \in Nat
            /\ row.until >= day + policy.days /\ row.until >= promise[r]
        BY <1>1, <1>2, <2>3, <3>2 DEF Resource
      <4> HIDE DEF row
      <4> QED
        BY <1>1, <3>2, <4>1, LaterIsMax
    <3> QED
      BY <3>1, <3>2
  <2>5. resource' = [resource EXCEPT ![r] = row]
    BY <1>4 DEF Trash, Trashed, old, in
  <2>6. promise' = [promise EXCEPT ![r] = day1]
    BY <1>4 DEF Trash
  <2>7. Free(r) /\ Queue(r) /\ orders' \in Nat
        /\ UNCHANGED <<local, day, policy, may, object, refs, purge, events>>
    BY <1>1, <1>4, FreeWhenLibraryFree DEF Trash
  <2> HIDE DEF row, day1
  <2> QED
    BY <2>3, <2>4, <2>5, <2>6, <2>7, RowKeeps DEF old
<1>5. CASE Restore(r)
  <2> DEFINE row == [old EXCEPT !.deleted = 0, !.suspended = TRUE]
  <2>1. /\ row \in Resource /\ row.deleted = 0 /\ row.suspended /\ row.text = old.text
        /\ row.until = old.until
    BY <1>2 DEF Resource
  <2>2. resource' = [resource EXCEPT ![r] = row] /\ promise' = [promise EXCEPT ![r] = promise[r]]
    BY <1>1, <1>5 DEF Restore, old
  <2>3. Free(r) /\ Queue(r) /\ orders' \in Nat
        /\ UNCHANGED <<local, day, policy, may, object, refs, purge, events>>
    BY <1>1, <1>5 DEF Restore
  <2> HIDE DEF row
  <2>4. /\ row.text = resource[r].text
        /\ row.text \/ row.suspended
        /\ row.deleted \in {0, day, resource[r].deleted}
        /\ row.until >= resource[r].until /\ promise[r] <= row.until
    BY <1>1, <1>2, <2>1, <2>3 DEF old
  <2> QED
    BY <1>1, <2>1, <2>2, <2>3, <2>4, RowKeeps
<1>6. CASE Suspend(r)
  <2> DEFINE row == [old EXCEPT !.suspended = TRUE]
  <2>1. /\ row \in Resource /\ row.deleted = old.deleted /\ row.suspended
        /\ row.text = old.text /\ row.until = old.until
    BY <1>2 DEF Resource
  <2>2. resource' = [resource EXCEPT ![r] = row] /\ promise' = [promise EXCEPT ![r] = promise[r]]
    BY <1>1, <1>6 DEF Suspend, old
  <2>3. Free(r) /\ Queue(r) /\ orders' \in Nat
        /\ UNCHANGED <<local, day, policy, may, object, refs, purge, events>>
    BY <1>1, <1>6 DEF Suspend
  <2> HIDE DEF row
  <2>4. /\ row.text = resource[r].text
        /\ row.text \/ row.suspended
        /\ row.deleted \in {0, day, resource[r].deleted}
        /\ row.until >= resource[r].until /\ promise[r] <= row.until
    BY <1>1, <1>2, <2>1, <2>3 DEF old
  <2> QED
    BY <1>1, <2>1, <2>2, <2>3, <2>4, RowKeeps
<1>7. CASE Resume(r)
  <2> DEFINE row == [old EXCEPT !.suspended = FALSE]
  <2>1. /\ row \in Resource /\ row.deleted = old.deleted
        /\ row.text = old.text /\ row.until = old.until
    BY <1>2 DEF Resource
  <2>2. resource' = [resource EXCEPT ![r] = row] /\ promise' = [promise EXCEPT ![r] = promise[r]]
    BY <1>1, <1>7 DEF Resume, old
  <2>3. Free(r) /\ Queue(r) /\ orders' \in Nat /\ old.text
        /\ UNCHANGED <<local, day, policy, may, object, refs, purge, events>>
    BY <1>1, <1>7 DEF Resume, Resumes, old
  <2> HIDE DEF row
  <2>4. /\ row.text = resource[r].text
        /\ row.text \/ row.suspended
        /\ row.deleted \in {0, day, resource[r].deleted}
        /\ row.until >= resource[r].until /\ promise[r] <= row.until
    BY <1>1, <1>2, <2>1, <2>3 DEF old
  <2> QED
    BY <1>1, <2>1, <2>2, <2>3, <2>4, RowKeeps
<1>8. CASE \E hold \in BOOLEAN, until \in Dates \cup {0} : Preserve(r, hold, until)
  <2> PICK hold \in BOOLEAN, until \in Dates \cup {0} : Preserve(r, hold, until)
    BY <1>8
  <2>1. until \in Nat
    BY Constants
  <2> DEFINE date == IF until > 0 THEN until ELSE old.until
  <2>2. date \in Nat /\ date >= old.until /\ until <= date
    <3>1. CASE until = 0
      BY <1>2, <3>1
    <3>2. CASE until > 0
      <4> DEFINE days == IF PolicyState = "APPROVED" THEN policy.days ELSE 0
      <4>1. days \in Nat
        BY <1>1
      <4>2. until >= Expiry(old, days)
        BY <3>2 DEF Preserve, NoShorter, old
      <4> HIDE DEF days
      <4>3. Expiry(old, days) \in Nat /\ Expiry(old, days) >= old.until
        BY <1>1, <4>1, ExtendedRow
      <4> QED
        BY <1>2, <2>1, <3>2, <4>2, <4>3
    <3> QED
      BY <2>1, <3>1, <3>2
  <2>0. resource' = [resource EXCEPT ![r] = [old EXCEPT !.hold = hold, !.until = date]]
    BY DEF Preserve, old
  <2>3. /\ promise' = [promise EXCEPT ![r] = Later(promise[r], until)]
        /\ Free(r) /\ UNCHANGED inval /\ orders' \in Nat
        /\ UNCHANGED <<local, day, policy, may, object, refs, purge, events>>
    <3>1. promise' = [promise EXCEPT ![r] = Later(promise[r], until)]
      BY DEF Preserve
    <3>2. orders' \in Nat
      <4>1. orders' = orders + 1
        BY DEF Preserve, Order
      <4> QED
        BY <1>1, <4>1
    <3>3. LibraryFree /\ UNCHANGED <<local, day, policy, may, object, refs, purge, events, inval>>
      BY DEF Preserve
    <3> QED
      BY <3>1, <3>2, <3>3, FreeWhenLibraryFree
  <2> HIDE DEF date
  <2> DEFINE row == [old EXCEPT !.hold = hold, !.until = date]
  <2>4. /\ row \in Resource /\ row.deleted = old.deleted /\ row.suspended = old.suspended
        /\ row.text = old.text /\ row.until = date
    BY <1>2, <2>2 DEF Resource
  <2> HIDE DEF row
  <2>5. Later(promise[r], until) \in Nat /\ Later(promise[r], until) <= date
    BY <1>1, <1>2, <2>1, <2>2, LaterIsMax
  <2>6. resource' = [resource EXCEPT ![r] = row]
    BY <2>0 DEF row
  <2> QED
    BY <1>2, <1>3, <2>2, <2>3, <2>4, <2>5, <2>6, RowKeeps DEF old
<1> QED
  BY <1>4, <1>5, <1>6, <1>7, <1>8

-------------------------------------------------------------------------------
(* Evidence, roles and days.                                               *)

LEMMA EvidenceKeeps ==
    ASSUME RetentionInv, NEW r \in Resources,
           Quote(r) \/ Relate(r) \/ Uncite(r) \/ Record(r)
    PROVE  RetentionInv' /\ Lawful
<1> USE DEF RetentionInv
<1>1. /\ quoted' \in SUBSET Resources /\ related' \in SUBSET Resources
      /\ recorded' \in SUBSET Resources
      /\ \A s \in Resources : s \notin Referred => s = r \/ s \notin Referred'
      /\ resource[r].deleted > 0 => r \notin Referred \/ r \in Referred
      /\ UNCHANGED <<local, day, policy, may, resource, object, inval, purge,
                     promise, events, orders>>
  BY DEF TypeOK, Quote, Relate, Uncite, Record, Referred
<1>2. resource[r].deleted > 0 => Referred' \subseteq Referred
  <2>1. CASE Quote(r)
    BY <2>1 DEF TypeOK, Resource, Quote
  <2>2. CASE Relate(r)
    BY <2>2 DEF TypeOK, Resource, Relate
  <2>3. CASE Uncite(r)
    BY <2>3 DEF Uncite, Referred
  <2>4. CASE Record(r)
    BY <2>4 DEF TypeOK, Resource, Record, InUse
  <2> QED
    BY <2>1, <2>2, <2>3, <2>4
<1>3. \A s \in Resources : ~resource[s].text =>
          s \notin quoted' \cup recorded'
  <2>1. CASE Quote(r)
    BY <2>1 DEF Quote, Purged, Gone
  <2>2. CASE Relate(r)
    BY <2>2 DEF Relate, Purged, Gone
  <2>3. CASE Uncite(r)
    BY <2>3 DEF Uncite, Purged, Gone
  <2>4. CASE Record(r)
    BY <2>4 DEF Record, InUse, Purged, Gone
  <2> QED
    BY <2>1, <2>2, <2>3, <2>4
<1>4. TypeOK'
  BY <1>1 DEF TypeOK
<1>5. Kept' /\ Readers'
  BY <1>1 DEF Kept, Readers
<1>6. Purged'
  BY <1>1, <1>3 DEF Purged, Gone
<1>7. Rightful'
  <2> SUFFICES ASSUME NEW p \in Purges, purge[p].at = "erasing"
               PROVE  Erasable(purge[p].resource)'
    BY <1>1 DEF Rightful
  <2> DEFINE s == purge[p].resource
  <2>1. s \in Resources /\ Erasable(s)
    BY DEF TypeOK, Rightful
  <2>2. s \notin Referred'
    BY <1>1, <1>2, <2>1 DEF Erasable
  <2> QED
    BY <1>1, <2>1, <2>2 DEF Erasable, Unread
<1>8. Lawful
  <2>1. \A s \in Resources : resource[s].until \in Nat
    BY DEF TypeOK, Resource
  <2> QED
    BY <1>1, <2>1 DEF Lawful, ByRight, NotShorter
<1> QED
  BY <1>4, <1>5, <1>6, <1>7, <1>8

LEMMA QuietStepsKeep ==
    ASSUME RetentionInv, Delegate \/ Tick \/ UNCHANGED vars
    PROVE  RetentionInv' /\ Lawful
<1> USE DEF RetentionInv
<1>0. UNCHANGED <<policy, resource, object, quoted, related, recorded, inval, purge, promise, local>>
  BY DEF Delegate, Tick, vars, refs
<1>1. /\ day \in Nat \ {0} /\ orders \in Nat /\ events \in Nat /\ may \in BOOLEAN
      /\ \A s \in Resources : resource[s].until \in Nat /\ resource[s].deleted \in Nat
  BY DEF TypeOK, Resource
<1>2. day' \in Nat \ {0} /\ day' >= day
  <2>1. day' = day \/ day' = day + 1
    BY DEF Delegate, Tick, vars
  <2> QED
    BY <1>1, <2>1
<1>3. orders' \in Nat
  <2>1. orders' = orders \/ orders' = orders + 1
    BY DEF Delegate, Order, Tick, vars
  <2> QED
    BY <1>1, <2>1
<1>4. may' \in BOOLEAN /\ events' = events
  <2>1. CASE Delegate
    BY <1>1, <2>1 DEF Delegate
  <2>2. CASE Tick \/ UNCHANGED vars
    BY <1>1, <2>2 DEF Tick, vars
  <2> QED
    BY <2>1, <2>2
<1>5. TypeOK'
  BY <1>0, <1>1, <1>2, <1>3, <1>4 DEF TypeOK
<1>6. Kept' /\ Purged'
  BY <1>0, <1>1, <1>2 DEF Kept, Purged, Gone
<1>7. Readers'
  <2>1. CASE day' = day
    BY <1>0, <2>1 DEF Readers
  <2>2. CASE day' # day
    BY <1>0, <2>2 DEF Readers, Tick, Delegate, vars
  <2> QED
    BY <2>1, <2>2
<1>8. Rightful'
  <2> SUFFICES ASSUME NEW p \in Purges, purge[p].at = "erasing"
               PROVE  Erasable(purge[p].resource)'
    BY <1>0 DEF Rightful
  <2>1. purge[p].resource \in Resources /\ Erasable(purge[p].resource) /\ MinDays \in Nat
    BY Constants DEF TypeOK, Rightful
  <2> QED
    BY <1>0, <1>1, <1>2, <2>1 DEF Erasable, Unread, Referred
<1>9. Lawful
  BY <1>0, <1>1 DEF Lawful, ByRight, NotShorter
<1> QED
  BY <1>5, <1>6, <1>7, <1>8, <1>9

-------------------------------------------------------------------------------
(* Steps of purges.                                                        *)

\* One purge moves; if it starts to erase, it may.
LEMMA PurgeMoves ==
    ASSUME RetentionInv, NEW p \in Purges, NEW q \in Purge,
           purge' = [purge EXCEPT ![p] = q], events' \in Nat,
           q.state # "ABSENT" => q.resource \in Resources,
           q.at # "idle" <=> q.state = "RUNNING",
           q.at = "erasing" => Erasable(q.resource),
           UNCHANGED <<local, day, policy, may, resource, object, refs, inval,
                       promise, orders>>
    PROVE  RetentionInv' /\ Lawful
<1> USE DEF RetentionInv
<1>0. UNCHANGED <<quoted, related, recorded>>
  BY DEF refs
<1>1. /\ purge' \in [Purges -> Purge]
      /\ \A s \in Purges : purge'[s] = IF s = p THEN q ELSE purge[s]
  BY DEF TypeOK
<1>2. TypeOK'
  <2>1. \A s \in Purges :
          /\ purge'[s].state # "ABSENT" => purge'[s].resource \in Resources
          /\ purge'[s].at # "idle" <=> purge'[s].state = "RUNNING"
    BY <1>1 DEF TypeOK
  <2> QED
    BY <1>0, <1>1, <2>1 DEF TypeOK
<1>3. Kept' /\ Readers' /\ Purged'
  BY <1>0 DEF Kept, Readers, Purged, Gone
<1>4. Rightful'
  BY <1>0, <1>1 DEF Rightful, Erasable, Unread, Referred
<1>5. Lawful
  <2>1. \A s \in Resources : resource[s].until \in Nat
    BY DEF TypeOK, Resource
  <2> QED
    BY <1>0, <2>1 DEF Lawful, ByRight, NotShorter
<1> QED
  BY <1>2, <1>3, <1>4, <1>5

\* The checks of a purge see what it relies on.
LEMMA EligibleIsErasable ==
    ASSUME RetentionInv, NEW p \in Purges, NEW r \in Resources, Eligible(r, p)
    PROVE  Erasable(r)
<1> USE DEF RetentionInv
<1>1. /\ policy.days \in Nat /\ policy.days >= MinDays /\ MinDays \in Nat /\ MinDays > 0
      /\ resource[r] \in Resource /\ resource[r].deleted \in Nat /\ resource[r].until \in Nat
      /\ day \in Nat
  BY Constants DEF TypeOK, Kept, Policy, Resource, Eligible, PolicyState
<1>2. /\ resource[r].deleted > 0 /\ ~resource[r].hold /\ r \notin Referred
      /\ day >= Expiry(resource[r], policy.days)
      /\ \A i \in Invals : Open(inval[i].state) => inval[i].resource # r
  BY DEF Eligible, Pending
<1>3. /\ Expiry(resource[r], policy.days) \in Nat
      /\ Expiry(resource[r], policy.days) >= resource[r].until
      /\ Expiry(resource[r], policy.days) >= resource[r].deleted + policy.days
  <2>1. policy.days > 0
    BY <1>1
  <2> QED
    BY <1>1, <1>2, <2>1, ExtendedRow
<1>4. day >= resource[r].until /\ day >= resource[r].deleted + MinDays
  BY <1>1, <1>2, <1>3
<1>5. Unread(r)
  <2> SUFFICES ASSUME NEW i \in Invals, inval[i].at = "read", inval[i].resource = r,
                      inval[i].rebuild
               PROVE  FALSE
    BY DEF Unread, TypeOK, Inval
  <2>1. resource[r].deleted \in {0, day}
    BY DEF Readers
  <2> QED
    BY <1>1, <1>2, <1>4, <2>1
<1> QED
  BY <1>2, <1>4, <1>5 DEF Erasable

LEMMA PurgeRow ==
    ASSUME RetentionInv, NEW p \in Purges
    PROVE  /\ purge[p] \in Purge
           /\ purge[p].state # "ABSENT" => purge[p].resource \in Resources
           /\ purge[p].at # "idle" <=> purge[p].state = "RUNNING"
           /\ purge[p].at \in {"idle", "started", "erasing"}
           /\ purge[p].attempt \in 0..MaxAttempts
           /\ events \in Nat
BY DEF RetentionInv, TypeOK, Purge

\* Ended: the thread is gone and the job waits or is over.
LEMMA EndedKeeps ==
    ASSUME RetentionInv, NEW p \in Purges, NEW state, NEW code, Ended(p, state, code),
           state \in {"QUEUED", "SUCCEEDED", "FAILED", "CANCELLED"},
           code \in {"none", "HOLD", "OTHER"}, purge[p].at # "idle", events' \in Nat,
           UNCHANGED <<local, day, policy, may, resource, object, refs, inval,
                       promise, orders>>
    PROVE  RetentionInv' /\ Lawful
<1> DEFINE old == purge[p]
           q == [old EXCEPT !.state = state, !.at = "idle", !.code = code]
<1>1. old \in Purge /\ (old.state # "ABSENT" => old.resource \in Resources)
      /\ old.state = "RUNNING"
  BY PurgeRow
<1>2. purge' = [purge EXCEPT ![p] = q]
  BY DEF Ended
<1> HIDE DEF old
<1>3. q \in Purge /\ q.state = state /\ q.at = "idle" /\ q.resource = old.resource
  BY <1>1 DEF Purge
<1> HIDE DEF q
<1> QED
  BY <1>1, <1>2, <1>3, PurgeMoves

LEMMA BreakKeeps ==
    ASSUME RetentionInv, NEW p \in Purges, Break(p)
    PROVE  RetentionInv' /\ Lawful
<1>1. events' \in Nat
  <2>1. events' = events + 1 /\ events \in Nat
    BY PurgeRow DEF Break, Event
  <2> QED BY <2>1
<1>2. /\ purge[p].at # "idle"
      /\ UNCHANGED <<local, day, policy, may, resource, object, refs, inval,
                     promise, orders>>
      /\ \/ Ended(p, "QUEUED", "none")
         \/ Ended(p, "FAILED", "OTHER")
         \/ Ended(p, "CANCELLED", "OTHER")
  BY DEF Break
<1>3. CASE Ended(p, "QUEUED", "none")
  BY <1>1, <1>2, <1>3, EndedKeeps
<1>4. CASE Ended(p, "FAILED", "OTHER")
  BY <1>1, <1>2, <1>4, EndedKeeps
<1>5. CASE Ended(p, "CANCELLED", "OTHER")
  BY <1>1, <1>2, <1>5, EndedKeeps
<1> QED
  BY <1>2, <1>3, <1>4, <1>5

LEMMA RefuseKeeps ==
    ASSUME RetentionInv, NEW p \in Purges, Refuse(p)
    PROVE  RetentionInv' /\ Lawful
<1>1. /\ purge[p].at # "idle" /\ events' \in Nat
      /\ UNCHANGED <<local, day, policy, may, resource, object, refs, inval,
                     promise, orders>>
  BY PurgeRow DEF Refuse
<1>2. PICK state \in {"FAILED", "CANCELLED"}, code \in {"HOLD", "OTHER"} : Ended(p, state, code)
  BY DEF Refuse
<1> QED
  BY <1>1, <1>2, EndedKeeps

LEMMA PurgeStepsKeep ==
    ASSUME RetentionInv, NEW p \in Purges,
           (\E r \in Resources : RequestPurge(p, r))
             \/ RetryPurge(p) \/ CancelPurge(p) \/ Claim(p) \/ Check(p)
    PROVE  RetentionInv' /\ Lawful
<1> DEFINE old == purge[p]
<1>1. /\ old \in Purge /\ (old.state # "ABSENT" => old.resource \in Resources)
      /\ (old.at # "idle" <=> old.state = "RUNNING")
      /\ old.attempt \in 0..MaxAttempts /\ events \in Nat /\ MaxAttempts \in Nat
  BY PurgeRow, Constants
<1>2. CASE \E r \in Resources : RequestPurge(p, r)
  <2> PICK r \in Resources : RequestPurge(p, r)
    BY <1>2
  <2> DEFINE q == [NoPurge EXCEPT !.state = "QUEUED", !.resource = r]
  <2>1. q \in Purge /\ q.state = "QUEUED" /\ q.at = "idle" /\ q.resource = r
    BY Constants DEF NoPurge, Purge
  <2>2. purge' = [purge EXCEPT ![p] = q] /\ events' \in Nat
        /\ UNCHANGED <<local, day, policy, may, resource, object, refs, inval,
                       promise, orders>>
    BY <1>1 DEF RequestPurge
  <2> HIDE DEF q
  <2> QED
    BY <2>1, <2>2, PurgeMoves
<1>3. CASE RetryPurge(p)
  <2> DEFINE q == [old EXCEPT !.state = "QUEUED", !.cancel = FALSE, !.code = "none"]
  <2>1. purge' = [purge EXCEPT ![p] = q] /\ events' = events + 1
        /\ old.state \in {"FAILED", "CANCELLED"}
        /\ UNCHANGED <<local, day, policy, may, resource, object, refs, inval,
                       promise, orders>>
    BY <1>3 DEF RetryPurge, Event
  <2> HIDE DEF old
  <2>2. q \in Purge /\ q.state = "QUEUED" /\ q.at = old.at /\ q.resource = old.resource
    BY <1>1 DEF Purge
  <2>3. old.at = "idle" /\ old.resource \in Resources /\ events' \in Nat
    BY <1>1, <2>1
  <2> HIDE DEF q
  <2> QED
    BY <2>1, <2>2, <2>3, PurgeMoves
<1>4. CASE CancelPurge(p)
  <2> DEFINE state == IF old.state = "QUEUED" THEN "CANCELLED" ELSE old.state
             q == [old EXCEPT !.cancel = TRUE, !.state = state]
  <2>1. purge' = [purge EXCEPT ![p] = q] /\ events' \in Nat
        /\ old.state \in {"QUEUED", "RUNNING"} /\ old.at # "erasing"
        /\ UNCHANGED <<local, day, policy, may, resource, object, refs, inval,
                       promise, orders>>
    BY <1>1, <1>4 DEF CancelPurge, Open
  <2> HIDE DEF old
  <2>2. state \in {"CANCELLED", "RUNNING"} /\ (state = "RUNNING" <=> old.state = "RUNNING")
    BY <2>1
  <2> HIDE DEF state
  <2>3. q \in Purge /\ q.state = state /\ q.at = old.at /\ q.resource = old.resource
    BY <1>1, <2>2 DEF Purge
  <2>4. old.resource \in Resources
    BY <1>1, <2>1
  <2> HIDE DEF q
  <2> QED
    BY <1>1, <2>1, <2>2, <2>3, <2>4, PurgeMoves
<1>5. CASE Claim(p)
  <2> DEFINE n == old.attempt + 1
             q == [old EXCEPT !.state = "RUNNING", !.at = "started", !.attempt = n]
  <2>1. purge' = [purge EXCEPT ![p] = q] /\ events' \in Nat
        /\ old.state = "QUEUED" /\ old.attempt < MaxAttempts
        /\ UNCHANGED <<local, day, policy, may, resource, object, refs, inval,
                       promise, orders>>
    BY <1>1, <1>5 DEF Claim
  <2> HIDE DEF old
  <2>2. n \in 0..MaxAttempts
    BY <1>1, <2>1
  <2> HIDE DEF n
  <2>3. q \in Purge /\ q.state = "RUNNING" /\ q.at = "started" /\ q.resource = old.resource
    BY <1>1, <2>2 DEF Purge
  <2>4. old.resource \in Resources
    BY <1>1, <2>1
  <2> HIDE DEF q
  <2> QED
    BY <2>1, <2>3, <2>4, PurgeMoves
<1>6. CASE Check(p)
  <2> DEFINE q == [old EXCEPT !.at = "erasing"]
  <2>1. purge' = [purge EXCEPT ![p] = q] /\ events' \in Nat
        /\ old.at = "started"
        /\ UNCHANGED <<local, day, policy, may, resource, object, refs, inval,
                       promise, orders>>
    BY <1>1, <1>6 DEF Check
  <2>2. old.state = "RUNNING" /\ old.resource \in Resources
    BY <1>1, <2>1
  <2>3. Erasable(old.resource)
    BY <1>6, <2>2, EligibleIsErasable DEF Check, Allowed
  <2> HIDE DEF old
  <2>4. q \in Purge /\ q.state = old.state /\ q.at = "erasing" /\ q.resource = old.resource
    BY <1>1 DEF Purge
  <2> HIDE DEF q
  <2> QED
    BY <2>1, <2>2, <2>3, <2>4, PurgeMoves
<1> QED
  BY <1>2, <1>3, <1>4, <1>5, <1>6

\* An object is deleted: rightfully, and nothing else changes.
LEMMA EraseKeeps ==
    ASSUME RetentionInv, NEW p \in Purges, NEW o \in Objects, Erase(p, o)
    PROVE  RetentionInv' /\ Lawful
<1> USE DEF RetentionInv
<1> DEFINE r == purge[p].resource
<1>1. /\ purge[p].at = "erasing" /\ object' = [object EXCEPT ![r] = object[r] \ {o}]
      /\ UNCHANGED <<local, day, policy, may, resource, refs, inval, purge,
                     promise, orders, events>>
  BY DEF Erase
<1>2. /\ r \in Resources /\ Erasable(r)
      /\ UNCHANGED <<quoted, related, recorded>>
  BY <1>1, PurgeRow DEF Rightful, refs
<1>3. object \in [Resources -> SUBSET Objects]
  BY DEF TypeOK
<1> HIDE DEF r
<1>4. /\ object' \in [Resources -> SUBSET Objects]
      /\ \A s \in Resources : object'[s] = IF s = r THEN object[r] \ {o} ELSE object[s]
  BY <1>1, <1>2, <1>3
<1>5. TypeOK'
  BY <1>1, <1>2, <1>4 DEF TypeOK
<1>6. Kept' /\ Readers'
  BY <1>1 DEF Kept, Readers
<1>7. Purged'
  BY <1>1, <1>2, <1>4 DEF Purged, Gone
<1>8. Rightful'
  BY <1>1, <1>2 DEF Rightful, Erasable, Unread, Referred
<1>9. Lawful
  <2>1. \A s \in Resources : resource[s].until \in Nat /\ promise[s] \in Nat
                             /\ promise[s] <= resource[s].until /\ day \in Nat
    BY DEF TypeOK, Resource, Kept
  <2>2. \A s \in Resources : ByRight(s)
    BY <1>1, <1>2, <1>4, <2>1 DEF ByRight, Erasable
  <2>3. \A s \in Resources : NotShorter(s)
    BY <1>1, <2>1 DEF NotShorter
  <2> QED
    BY <2>2, <2>3 DEF Lawful
<1> QED
  BY <1>5, <1>6, <1>7, <1>8, <1>9

\* The text is erased when every object is gone, and no thread is about to
\* write the preview again.
LEMMA CommitKeeps ==
    ASSUME RetentionInv, NEW p \in Purges, Commit(p)
    PROVE  RetentionInv' /\ Lawful
<1> USE DEF RetentionInv
<1> DEFINE r == purge[p].resource
           old == resource[r]
           row == [old EXCEPT !.suspended = TRUE, !.text = FALSE]
           was == purge[p]
           q == [was EXCEPT !.state = "SUCCEEDED", !.at = "idle", !.code = "none"]
<1>1. /\ purge[p].at = "erasing" /\ object[r] = {}
      /\ resource' = [resource EXCEPT ![r] = row]
      /\ purge' = [purge EXCEPT ![p] = q]
      /\ UNCHANGED <<local, day, policy, may, object, refs, inval, promise, orders, events>>
  BY DEF Commit, Ended
<1>2. /\ r \in Resources /\ Erasable(r) /\ was \in Purge /\ old \in Resource
      /\ UNCHANGED <<quoted, related, recorded>>
  BY <1>1, PurgeRow DEF Rightful, refs, TypeOK
<1>3. /\ q \in Purge /\ q.state = "SUCCEEDED" /\ q.at = "idle" /\ q.resource = r
  <2>1. was.resource = r
    OBVIOUS
  <2> HIDE DEF was, r
  <2> QED
    BY <1>2, <2>1 DEF Purge
<1>r. resource \in [Resources -> Resource] /\ purge \in [Purges -> Purge]
  BY DEF TypeOK
<1> HIDE DEF q, was
<1>o. old = resource[r]
  OBVIOUS
<1> HIDE DEF r, old
<1>4. /\ row \in Resource /\ row.suspended /\ ~row.text /\ row.deleted = old.deleted
      /\ row.hold = old.hold /\ row.until = old.until
  BY <1>2 DEF Resource
<1> HIDE DEF row
<1>5. /\ resource' \in [Resources -> Resource] /\ purge' \in [Purges -> Purge]
      /\ \A s \in Resources : resource'[s] = IF s = r THEN row ELSE resource[s]
      /\ \A s \in Purges : purge'[s] = IF s = p THEN q ELSE purge[s]
  BY <1>1, <1>2, <1>3, <1>4, <1>r
<1>6. TypeOK'
  <2>1. \A s \in Purges :
          /\ purge'[s].state # "ABSENT" => purge'[s].resource \in Resources
          /\ purge'[s].at # "idle" <=> purge'[s].state = "RUNNING"
    BY <1>2, <1>3, <1>5 DEF TypeOK
  <2> QED
    BY <1>1, <1>2, <1>5, <2>1 DEF TypeOK
<1>7. \A s \in Resources : /\ resource'[s].deleted = resource[s].deleted
                           /\ resource'[s].until = resource[s].until
                           /\ resource'[s].hold = resource[s].hold
  BY <1>4, <1>5, <1>o
<1>8. Kept'
  BY <1>1, <1>7 DEF Kept
<1>9. Readers'
  <2> SUFFICES ASSUME NEW i \in Invals, inval[i].at = "read", inval[i].rebuild
               PROVE  LET s == inval[i].resource
                      IN  resource'[s].text /\ resource'[s].deleted \in {0, day}
    BY <1>1 DEF Readers
  <2>1. inval[i].resource \in Resources
    BY DEF TypeOK
  <2>2. inval[i].resource # r
    BY <1>2 DEF Erasable, Unread
  <2> QED
    BY <1>5, <2>1, <2>2 DEF Readers
<1>10. Purged'
  <2> SUFFICES ASSUME NEW s \in Resources, ~resource'[s].text PROVE Gone(s)'
    BY DEF Purged
  <2>1. CASE s = r
    BY <1>1, <1>2, <1>4, <1>5, <2>1 DEF Gone, Erasable, Referred
  <2>2. CASE s # r
    BY <1>1, <1>2, <1>5, <2>2 DEF Gone, Purged
  <2> QED
    BY <2>1, <2>2
<1>11. Rightful'
  <2> SUFFICES ASSUME NEW s \in Purges, purge'[s].at = "erasing"
               PROVE  Erasable(purge[s].resource)'
    BY DEF Rightful
  <2>1. s # p /\ purge'[s] = purge[s]
    BY <1>3, <1>5
  <2>2. purge[s].resource \in Resources /\ Erasable(purge[s].resource)
    BY <2>1, PurgeRow DEF Rightful
  <2> QED
    BY <1>1, <1>2, <1>7, <2>1, <2>2 DEF Erasable, Unread, Referred
<1>12. Lawful
  <2>1. \A s \in Resources : resource[s].until \in Nat /\ promise[s] \in Nat
                             /\ promise[s] <= resource[s].until /\ day \in Nat
    BY DEF TypeOK, Resource, Kept
  <2>2. \A s \in Resources : ByRight(s)
    BY <1>1, <1>2, <1>5, <2>1 DEF ByRight, Erasable
  <2>3. \A s \in Resources : NotShorter(s)
    BY <1>1, <1>7, <2>1 DEF NotShorter
  <2> QED
    BY <2>2, <2>3 DEF Lawful
<1> QED
  BY <1>6, <1>8, <1>9, <1>10, <1>11, <1>12

-------------------------------------------------------------------------------
(* Steps of INVALIDATE jobs.                                               *)

LEMMA InvalMoves ==
    ASSUME RetentionInv, NEW i \in Invals, NEW q \in Inval,
           inval' = [inval EXCEPT ![i] = q], events' \in Nat,
           q.state # "ABSENT" \/ q.at = "read" => q.resource \in Resources,
           q.at = "read" /\ q.rebuild =>
              /\ resource[q.resource].text /\ resource[q.resource].deleted \in {0, day}
              /\ \A p \in Purges :
                    purge[p].at = "erasing" => purge[p].resource # q.resource,
           UNCHANGED <<local, day, policy, may, resource, object, refs, purge,
                       promise, orders>>
    PROVE  RetentionInv' /\ Lawful
<1> USE DEF RetentionInv
<1>0. UNCHANGED <<quoted, related, recorded>>
  BY DEF refs
<1>1. /\ inval' \in [Invals -> Inval]
      /\ \A j \in Invals : inval'[j] = IF j = i THEN q ELSE inval[j]
  BY DEF TypeOK
<1>2. TypeOK'
  <2>1. \A j \in Invals : inval'[j].state # "ABSENT" \/ inval'[j].at = "read"
                            => inval'[j].resource \in Resources
    BY <1>1 DEF TypeOK
  <2> QED
    BY <1>0, <1>1, <2>1 DEF TypeOK
<1>3. Kept' /\ Purged'
  BY <1>0 DEF Kept, Purged, Gone
<1>4. Readers'
  BY <1>1 DEF Readers
<1>5. Rightful'
  <2> SUFFICES ASSUME NEW p \in Purges, purge[p].at = "erasing"
               PROVE  Erasable(purge[p].resource)'
    BY DEF Rightful
  <2>1. Erasable(purge[p].resource)
    BY DEF Rightful
  <2>2. Unread(purge[p].resource)'
    BY <1>1, <2>1 DEF Erasable, Unread
  <2> QED
    BY <1>0, <2>1, <2>2 DEF Erasable, Referred
<1>6. Lawful
  <2>1. \A s \in Resources : resource[s].until \in Nat
    BY DEF TypeOK, Resource
  <2> QED
    BY <1>0, <2>1 DEF Lawful, ByRight, NotShorter
<1> QED
  BY <1>2, <1>3, <1>4, <1>5, <1>6

LEMMA InvalRow ==
    ASSUME RetentionInv, NEW i \in Invals
    PROVE  /\ inval[i] \in Inval /\ events \in Nat
           /\ (inval[i].state # "ABSENT" \/ inval[i].at = "read")
                => inval[i].resource \in Resources
BY DEF RetentionInv, TypeOK

LEMMA ReadKeeps ==
    ASSUME RetentionInv, NEW i \in Invals, ReadInval(i)
    PROVE  RetentionInv' /\ Lawful
<1> DEFINE old == inval[i]
           r == old.resource
           rebuild == resource[r].deleted = 0 /\ resource[r].text
           remove == resource[r].deleted > 0
           q == [old EXCEPT !.state = "RUNNING", !.at = "read", !.rebuild = rebuild,
                            !.remove = remove]
<1>1. /\ inval' = [inval EXCEPT ![i] = q] /\ old.state = "QUEUED"
      /\ UNCHANGED <<local, day, policy, may, resource, object, refs, purge,
                     promise, orders, events>>
  BY DEF ReadInval
<1>2. old \in Inval /\ events' \in Nat /\ r \in Resources
  BY <1>1, InvalRow
<1>3. /\ rebuild \in BOOLEAN /\ remove \in BOOLEAN
      /\ rebuild => /\ resource[r].text /\ resource[r].deleted \in {0, day}
                    /\ \A p \in Purges : purge[p].at = "erasing" => purge[p].resource # r
  <2>1. resource[r] \in Resource
    BY <1>2 DEF RetentionInv, TypeOK
  <2>2. \A p \in Purges : purge[p].at = "erasing" =>
            resource[purge[p].resource].deleted > 0
    BY DEF RetentionInv, Rightful, Erasable
  <2>3. rebuild \in BOOLEAN /\ remove \in BOOLEAN
    OBVIOUS
  <2>4. rebuild => resource[r].text /\ resource[r].deleted = 0
    OBVIOUS
  <2> HIDE DEF r, rebuild
  <2>5. ASSUME rebuild, NEW p \in Purges, purge[p].at = "erasing", purge[p].resource = r
        PROVE  FALSE
    BY <2>2, <2>4, <2>5
  <2> QED
    BY <2>3, <2>4, <2>5
<1>r. r = old.resource
  OBVIOUS
<1> HIDE DEF old, r, rebuild, remove
<1>4. q \in Inval /\ q.state = "RUNNING" /\ q.at = "read" /\ q.resource = r
      /\ q.rebuild = rebuild
  BY <1>2, <1>3, <1>r DEF Inval
<1> HIDE DEF q
<1> QED
  BY <1>1, <1>2, <1>3, <1>4, InvalMoves

LEMMA FailsAndRetriesKeep ==
    ASSUME RetentionInv, NEW i \in Invals, FailInval(i) \/ RetryInval(i)
    PROVE  RetentionInv' /\ Lawful
<1> USE DEF RetentionInv
<1> DEFINE old == inval[i]
<1>1. PICK state \in {"FAILED", "QUEUED"} :
        inval' = [inval EXCEPT ![i] = [old EXCEPT !.state = state]]
  BY DEF FailInval, RetryInval
<1>2. /\ old \in Inval /\ events' \in Nat /\ old.resource \in Resources
      /\ UNCHANGED <<local, day, policy, may, resource, object, refs, purge,
                     promise, orders>>
  <2>1. old.state \in {"RUNNING", "FAILED"} /\ events' \in {events, events + 1}
        /\ UNCHANGED <<local, day, policy, may, resource, object, refs, purge,
                       promise, orders>>
    BY DEF FailInval, RetryInval, Event
  <2> QED
    BY <2>1, InvalRow
<1>3. old.at = "read" /\ old.rebuild =>
        /\ resource[old.resource].text /\ resource[old.resource].deleted \in {0, day}
        /\ \A p \in Purges : purge[p].at = "erasing" => purge[p].resource # old.resource
  BY DEF Readers, Rightful, Erasable, Unread
<1> DEFINE q == [old EXCEPT !.state = state]
<1>q. inval' = [inval EXCEPT ![i] = q]
  BY <1>1
<1> HIDE DEF old
<1>4. q \in Inval /\ q.state = state /\ q.at = old.at /\ q.resource = old.resource
      /\ q.rebuild = old.rebuild
  BY <1>2 DEF Inval
<1> HIDE DEF q
<1> QED
  BY <1>2, <1>3, <1>4, <1>q, InvalMoves

\* A thread that writes the preview read a text that is still there; one that
\* deletes it touches nothing else.
LEMMA WriteKeeps ==
    ASSUME RetentionInv, NEW i \in Invals, WriteInval(i)
    PROVE  RetentionInv' /\ Lawful
<1> USE DEF RetentionInv
<1> DEFINE old == inval[i]
           r == old.resource
           objects == IF old.rebuild THEN object[r] \cup {Preview}
                      ELSE IF old.remove THEN object[r] \ {Preview} ELSE object[r]
           gone == [old EXCEPT !.at = "idle", !.rebuild = FALSE, !.remove = FALSE]
           q == IF old.state = "RUNNING" THEN NoInval ELSE gone
<1>1. /\ old.at = "read"
      /\ object' = [object EXCEPT ![r] = objects]
      /\ inval' = [inval EXCEPT ![i] = q]
      /\ UNCHANGED <<local, day, policy, may, resource, refs, purge,
                     promise, orders, events>>
  BY DEF WriteInval
<1>2. /\ old \in Inval /\ r \in Resources /\ inval \in [Invals -> Inval]
      /\ object \in [Resources -> SUBSET Objects]
      /\ UNCHANGED <<quoted, related, recorded>>
  BY <1>1, InvalRow DEF TypeOK, refs
<1>3. /\ objects \subseteq Objects /\ objects \cap Originals = object[r] \cap Originals
      /\ ~resource[r].text => objects \subseteq object[r]
  <2>1. old.rebuild => resource[r].text
    BY <1>1 DEF Readers
  <2>2. object[r] \subseteq Objects /\ Preview \in Objects /\ Preview \notin Originals
    BY <1>2, Constants DEF Objects
  <2> HIDE DEF r
  <2> QED
    BY <2>1, <2>2
<1>4. gone \in Inval /\ gone.at = "idle" /\ gone.resource = r
  <2>1. r = old.resource
    OBVIOUS
  <2> HIDE DEF old, r
  <2> QED
    BY <1>2, <2>1 DEF Inval
<1> HIDE DEF old, r, objects, gone
<1>5. q \in Inval /\ q.at = "idle" /\ (q.state # "ABSENT" => q.resource \in Resources)
  BY <1>2, <1>4, Constants
<1> HIDE DEF q
<1>6. /\ object' \in [Resources -> SUBSET Objects]
      /\ \A s \in Resources : object'[s] = IF s = r THEN objects ELSE object[s]
      /\ inval' \in [Invals -> Inval]
      /\ \A j \in Invals : inval'[j] = IF j = i THEN q ELSE inval[j]
  BY <1>1, <1>2, <1>3, <1>5
<1>7. TypeOK'
  <2>1. \A j \in Invals : inval'[j].state # "ABSENT" \/ inval'[j].at = "read"
                            => inval'[j].resource \in Resources
    BY <1>5, <1>6 DEF TypeOK
  <2> QED
    BY <1>1, <1>2, <1>6, <2>1 DEF TypeOK
<1>8. Kept'
  BY <1>1 DEF Kept
<1>9. Readers'
  BY <1>1, <1>5, <1>6 DEF Readers
<1>10. Purged'
  BY <1>1, <1>2, <1>3, <1>6 DEF Purged, Gone
<1>11. Rightful'
  <2> SUFFICES ASSUME NEW p \in Purges, purge[p].at = "erasing"
               PROVE  Erasable(purge[p].resource)'
    BY <1>1 DEF Rightful
  <2>1. Erasable(purge[p].resource)
    BY DEF Rightful
  <2>2. Unread(purge[p].resource)'
    BY <1>1, <1>5, <1>6, <2>1 DEF Erasable, Unread
  <2> QED
    BY <1>1, <1>2, <2>1, <2>2 DEF Erasable, Referred
<1>12. Lawful
  <2>1. \A s \in Resources : resource[s].until \in Nat
    BY DEF TypeOK, Resource
  <2>2. \A s \in Resources : ByRight(s)
    BY <1>1, <1>3, <1>6 DEF ByRight
  <2> QED
    BY <1>1, <2>1, <2>2 DEF Lawful, NotShorter
<1> QED
  BY <1>7, <1>8, <1>9, <1>10, <1>11, <1>12

-------------------------------------------------------------------------------
(* Theorems.                                                               *)

LEMMA StepKeeps == RetentionInv /\ [Next]_vars => RetentionInv' /\ Lawful
<1> SUFFICES ASSUME RetentionInv, [Next]_vars PROVE RetentionInv' /\ Lawful
  OBVIOUS
<1>1. CASE Tick \/ Delegate \/ UNCHANGED vars
  BY <1>1, QuietStepsKeep
<1>2. CASE PolicyStep
  BY <1>2, SetPolicyKeeps DEF PolicyStep
<1>3. ASSUME NEW r \in Resources, ResourceStep(r) PROVE RetentionInv' /\ Lawful
  <2>1. CASE Quote(r) \/ Relate(r) \/ Uncite(r) \/ Record(r)
    BY <2>1, EvidenceKeeps
  <2>2. CASE ~(Quote(r) \/ Relate(r) \/ Uncite(r) \/ Record(r))
    BY <1>3, <2>2, RowStepsKeep DEF ResourceStep
  <2> QED
    BY <2>1, <2>2
<1>4. ASSUME NEW p \in Purges, PurgeStep(p) PROVE RetentionInv' /\ Lawful
  <2>1. CASE \E o \in Objects : Erase(p, o)
    BY <2>1, EraseKeeps
  <2>2. CASE Commit(p)
    BY <2>2, CommitKeeps
  <2>3. CASE Break(p)
    BY <2>3, BreakKeeps
  <2>4. CASE Refuse(p)
    BY <2>4, RefuseKeeps
  <2>5. CASE (\E r \in Resources : RequestPurge(p, r))
               \/ RetryPurge(p) \/ CancelPurge(p) \/ Claim(p) \/ Check(p)
    BY <2>5, PurgeStepsKeep
  <2> QED
    BY <1>4, <2>1, <2>2, <2>3, <2>4, <2>5 DEF PurgeStep
<1>5. ASSUME NEW i \in Invals, InvalStep(i) PROVE RetentionInv' /\ Lawful
  BY <1>5, ReadKeeps, WriteKeeps, FailsAndRetriesKeep DEF InvalStep
<1> QED
  BY <1>1, <1>2, <1>3, <1>4, <1>5 DEF Next

\* The inductive invariant: what a purge relies on from its checks to its
\* commit, and what threads that read before it may still do.
THEOREM RetentionInvariant == Spec => []RetentionInv
<1> QED
  BY InitHolds, StepKeeps, PTL DEF Spec

\* Every row, policy, job and thread is well formed.
THEOREM RetentionTypes == Spec => []TypeOK
<1>1. RetentionInv => TypeOK
  BY DEF RetentionInv
<1> QED
  BY <1>1, RetentionInvariant, PTL

\* A purged resource has no objects, is not used, quoted or recorded, for any
\* number of resources, jobs, crashes and days.
THEOREM PurgesAreForGood == Spec => []PurgedForGood
<1>1. RetentionInv => PurgedForGood
  BY DEF RetentionInv, Purged, Gone, PurgedForGood, InUse
<1> QED
  BY <1>1, RetentionInvariant, PTL

\* Originals and texts are erased by right only, whatever happens to policies,
\* holds, evidence and the row between the request and the last object.
THEOREM ErasuresAreRightful == Spec => ErasedByRight
<1>1. RetentionInv /\ [Next]_vars => [\A r \in Resources : ByRight(r)]_vars
  BY StepKeeps DEF Lawful
<1> QED
  BY <1>1, RetentionInvariant, PTL DEF Spec, ErasedByRight, ByRight

\* No operation brings the end of a retention forward.
THEOREM RetentionsAreNeverShortened == Spec => NeverShortened
<1>1. RetentionInv /\ [Next]_vars => [\A r \in Resources : NotShorter(r)]_vars
  BY StepKeeps DEF Lawful
<1> QED
  BY <1>1, RetentionInvariant, PTL DEF Spec, NeverShortened, NotShorter
===============================================================================
