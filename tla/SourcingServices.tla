-------------------------- MODULE SourcingServices --------------------------
(***************************************************************************)
(* TalentPoolsService and UniversitiesService: where recruiters look for     *)
(* candidates beside the applications they get.  Candidates are put into     *)
(* talent pools, universities are made partners.  The primary key of a       *)
(* membership and the unique pair of a partnership keep them sets.           *)
(***************************************************************************)
EXTENDS Requests

CONSTANTS
    Pool,        \* TalentPool rows; nothing deletes one
    University,  \* University names, which are unique
    Person       \* User ids a recruiter may name

VARIABLES
    pools,         \* TalentPool rows so far
    pooled,        \* TalentPoolCandidate rows <<pool, person>>
    universities,  \* University rows so far
    partners       \* the universities of the organization's UniversityPartnership rows

sourcingTables == <<pools, pooled, universities, partners>>

SourcingTablesInit == pools = {} /\ pooled = {} /\ universities = {} /\ partners = {}

-----------------------------------------------------------------------------
(* TalentPoolsService *)

CreatePool(r) ==
    /\ Arrives(r)
    /\ \E p \in Pool \ pools : pools' = pools \cup {p}
    /\ Finish(r)
    /\ UNCHANGED <<pooled, universities, partners>>

\* addCandidate() and removeCandidate() look the pool up first.
RequirePool(r, p, c, pc) ==
    /\ Arrives(r)
    /\ p \in pools
    /\ Goto(r, [pc |-> pc, pool |-> p, candidate |-> c])
    /\ UNCHANGED sourcingTables

\* Mutation of HasApplied: someone who never applied goes into a pool.
HasAppliedUnchecked(r, applicants) ==
    /\ At(r, "hasApplied")
    /\ Goto(r, [req[r] EXCEPT !.pc = "addCandidate"])
    /\ UNCHANGED sourcingTables

\* addCandidate(): 422 for someone who never applied to the organization.
HasApplied(r, applicants) ==
    /\ At(r, "hasApplied")
    /\ Goto(r, IF req[r].candidate \in applicants THEN [req[r] EXCEPT !.pc = "addCandidate"]
               ELSE Done)
    /\ UNCHANGED sourcingTables

\* P2002, a 409, when the candidate is in the pool.
AddCandidate(r) ==
    /\ At(r, "addCandidate")
    /\ pooled' = pooled \cup {<<req[r].pool, req[r].candidate>>}
    /\ Finish(r)
    /\ UNCHANGED <<pools, universities, partners>>

\* deleteMany: 404 when it deletes nothing.
RemoveCandidate(r) ==
    /\ At(r, "removeCandidate")
    /\ pooled' = pooled \ {<<req[r].pool, req[r].candidate>>}
    /\ Finish(r)
    /\ UNCHANGED <<pools, universities, partners>>

-----------------------------------------------------------------------------
(* UniversitiesService *)

\* P2002, a 409, for a name that is taken.
CreateUniversity(r, u) ==
    /\ Arrives(r)
    /\ universities' = universities \cup {u}
    /\ Finish(r)
    /\ UNCHANGED <<pools, pooled, partners>>

\* createPartnership(): 422 for a university that does not exist.
PartnershipRead(r, u) ==
    /\ Arrives(r)
    /\ Goto(r, IF u \in universities THEN [pc |-> "partner", university |-> u] ELSE Done)
    /\ UNCHANGED sourcingTables

\* P2002, a 409, when it is a partner.
CreatePartnership(r) ==
    /\ At(r, "partner")
    /\ partners' = partners \cup {req[r].university}
    /\ Finish(r)
    /\ UNCHANGED <<pools, pooled, universities>>

RemovePartnership(r, u) ==
    /\ Arrives(r)
    /\ partners' = partners \ {u}
    /\ Finish(r)
    /\ UNCHANGED <<pools, pooled, universities>>

-----------------------------------------------------------------------------
TalentPoolsController(r) ==
    \/ CreatePool(r)
    \/ \E p \in Pool, c \in Person, pc \in {"hasApplied", "removeCandidate"} :
         RequirePool(r, p, c, pc)

UniversitiesController(r) ==
    \E u \in University :
        CreateUniversity(r, u) \/ PartnershipRead(r, u) \/ RemovePartnership(r, u)

ContinueSourcing(r) == AddCandidate(r) \/ RemoveCandidate(r) \/ CreatePartnership(r)
=============================================================================
