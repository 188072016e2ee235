----------------------------- MODULE ReleaseLine ------------------------------
(***************************************************************************)
(* What the platform promises the readers of a resource, with no jobs,     *)
(* files, reviews in progress or crashes in sight: a version is written,   *)
(* approved as it stands, and then released at most once, as the successor *)
(* of the version that readers see now.  Approved text never changes.      *)
(***************************************************************************)
CONSTANTS Versions, Resources, ResourceOf, NoVersion

VARIABLES text,      \* what a version says
          base,      \* the version it was derived from
          approved,  \* the versions whose text was approved
          released,  \* the versions that readers see or have seen
          current    \* the version of each resource that readers see

line == <<text, base, approved, released, current>>

\* Readers may begin with one approved version of some resources.
Init ==
    /\ released \subseteq approved
    /\ released = {current[r] : r \in Resources} \ {NoVersion}

Write(v) ==
    /\ v \notin approved
    /\ \A w \in Versions \ {v} : text'[w] = text[w] /\ base'[w] = base[w]
    /\ UNCHANGED <<approved, released, current>>

Approve(v) ==
    /\ v \notin approved
    /\ approved' = approved \cup {v}
    /\ UNCHANGED <<text, base, released, current>>

Release(v) ==
    LET r == ResourceOf[v] IN
    /\ v \in approved \ released
    /\ current[r] \in {NoVersion, base[v]}
    /\ released' = released \cup {v}
    /\ current' = [current EXCEPT ![r] = v]
    /\ UNCHANGED <<text, base, approved>>

Next == \E v \in Versions : Write(v) \/ Approve(v) \/ Release(v)

Spec == Init /\ [][Next]_line
===============================================================================
