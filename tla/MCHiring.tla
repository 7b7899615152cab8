------------------------------ MODULE MCHiring ------------------------------
(* Model values and symmetry for TLC: one job with two stages, and another that *)
(* may be created.                                                           *)
EXTENDS Hiring, TLC

CONSTANTS j1, j2, n1, n2, s1, s2

NoJobs == [j \in Job |-> None]
DraftJob == [NoJobs EXCEPT ![j1] = "DRAFT"]

Row(n, i) == [job |-> j1, name |-> n, order |-> i]
NoStages == [s \in Stage |-> None]
TwoStages == [NoStages EXCEPT ![s1] = Row(n1, 0), ![s2] = Row(n2, 1)]

\* Growing, renaming, reordering and shrinking a pipeline, and repeating a name.
RepeatingLists == {<<n1>>, <<n2>>, <<n1, n2>>, <<n2, n1>>, <<n1, n1>>}

NoApplications == [a \in Application |-> None]

Symmetry == Permutations(Request) \cup Permutations(Application)
            \cup Permutations(Stage \ {s1, s2})
=============================================================================
