--------------------------- MODULE MCApplications ---------------------------
(* Model values for TLC: one published job of three stages. *)
EXTENDS Applications, TLC

CONSTANTS j1, n1, s1, s2, s3

Row(n) == [job |-> j1, name |-> n1, order |-> n]
MCJobs == j1 :> "PUBLISHED"
MCStages == s1 :> Row(0) @@ s2 :> Row(1) @@ s3 :> Row(2)
NoApplications == [a \in Application |-> None]
=============================================================================
