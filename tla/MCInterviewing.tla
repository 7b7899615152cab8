--------------------------- MODULE MCInterviewing ---------------------------
(* Model values for TLC: one ACTIVE application at the start. *)
EXTENDS Interviewing, TLC

CONSTANTS j1, n1, s1, c1, a1

Row(n) == [job |-> j1, name |-> n1, order |-> n]
MCJobs == j1 :> "PUBLISHED"
MCStages == s1 :> Row(0)
MCApplications ==
    a1 :> [job |-> j1, candidate |-> c1, stage |-> s1, status |-> "ACTIVE"]
=============================================================================
