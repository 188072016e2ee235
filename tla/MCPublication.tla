---------------------------- MODULE MCPublication -----------------------------
(***************************************************************************)
(* Instances of Publication for TLC.  A content is named for the version   *)
(* it cites.  Publication starts from an empty database (Init) or from one *)
(* that seed.py has filled with published resources (SeededInit).          *)
(***************************************************************************)
EXTENDS Publication, TLC

CONSTANTS law, page, guide,           \* resources
          l1, l2, p1, p2, g1,         \* their versions
          k1, k2, k3, k4, u1, u2,
          plain, later, onL1, onL2, onP1,
          Seeds                       \* the content of each seeded version

Shelf == [v \in Versions |-> CASE v \in {l1, l2} -> law
                               [] v \in {p1, p2} -> page
                               [] OTHER -> guide]

Citing == [c \in Contents |-> CASE c = onL1 -> {l1}
                                [] c = onL2 -> {l2}
                                [] c = onP1 -> {p1}
                                [] OTHER -> {}]

\* One plain text is valid from tomorrow.
Dated == [c \in Contents |-> IF c = later THEN 1 ELSE 0]

Nothing == <<>>
LawAndPage == (l1 :> plain) @@ (p1 :> onL1)

Anybody == Permutations(Jobs) \cup Permutations(Users)

\* seed.py publishes every seeded version, written by one person and approved
\* by another, under a release of its own.  An administrator has confirmed them
\* since (Confirm), which nothing but the number of states depends on.
SeedRelease == (l1 :> k1) @@ (p1 :> k2) @@ (g1 :> k3)

Seeded(j) == \E v \in DOMAIN Seeds : SeedRelease[v] = j

SeededInit ==
    /\ ver = [v \in Versions |->
                IF v \in DOMAIN Seeds
                THEN [Blank EXCEPT !.state = "APPROVED", !.number = 1, !.author = u1,
                                   !.content = Seeds[v], !.frozen = Seeds[v],
                                   !.contributors = {u1}, !.reviewer = u2,
                                   !.confirmed = [content |-> Seeds[v], epoch |-> 1]]
                ELSE Blank]
    /\ res = [r \in Resources |->
                [active |-> IF \E v \in DOMAIN Seeds : ResourceOf[v] = r
                            THEN SeedRelease[CHOOSE v \in DOMAIN Seeds : ResourceOf[v] = r]
                            ELSE NoJob,
                 suspended |-> FALSE, deleted |-> FALSE, epoch |-> 1]]
    /\ job = [j \in Jobs |->
                IF Seeded(j)
                THEN [NoPublish EXCEPT !.state = "SUCCEEDED",
                                       !.version = CHOOSE v \in DOMAIN Seeds : SeedRelease[v] = j]
                ELSE NoPublish]
    /\ rel = [j \in Jobs |-> [state |-> IF Seeded(j) THEN "ACTIVE" ELSE "ABSENT", manifest |-> {}]]
    /\ file = [j \in Jobs |-> {}]
    /\ late = [j \in Jobs |-> {}]
    /\ owed = [r \in Resources |-> [c \in Causes |-> 0]]
    /\ today = 0
    /\ upsets = 0
    /\ paused = {}
    /\ disturbed = [j \in Jobs |-> {}]

SeededSpec == SeededInit /\ [][Next]_vars
===============================================================================
