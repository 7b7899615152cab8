---------------------------- MODULE MCRecruitment ----------------------------
(* Model values and symmetry for TLC: one published job of two stages with an *)
(* application that is ACTIVE in its last; j2 and a2 may be created.          *)
EXTENDS Recruitment, TLC

CONSTANTS j1, j2, n1, n2, s1, s2, c1, a1

NoJobs == [j \in Job |-> None]
PublishedJob == [NoJobs EXCEPT ![j1] = "PUBLISHED"]

Row(n, i) == [job |-> j1, name |-> n, order |-> i]
TwoStages == [[s \in Stage |-> None] EXCEPT ![s1] = Row(n1, 0), ![s2] = Row(n2, 1)]

InLastStage ==
    [[a \in Application |-> None] EXCEPT ![a1] =
        [job |-> j1, candidate |-> c1, stage |-> s2, status |-> "ACTIVE"]]

\* Growing, renaming, reordering and shrinking a pipeline.
DistinctLists == {<<n1>>, <<n2>>, <<n1, n2>>, <<n2, n1>>}

Symmetry == Permutations(Request) \cup Permutations(Task) \cup Permutations(File)
            \cup Permutations(Application \ {a1}) \cup Permutations(Stage \ {s1, s2})
=============================================================================
