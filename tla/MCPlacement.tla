----------------------------- MODULE MCPlacement -----------------------------
(* Model values for TLC: an application for one published job, ACTIVE at the start. *)
EXTENDS Placement, TLC

CONSTANTS j1, n1, s1, c1, a1

Row == [job |-> j1, name |-> n1, order |-> 0]
MCJobs == j1 :> "PUBLISHED"
MCStages == s1 :> Row
MCApplications ==
    a1 :> [job |-> j1, candidate |-> c1, stage |-> s1, status |-> "ACTIVE"]
=============================================================================
