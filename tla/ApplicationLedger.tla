-------------------------- MODULE ApplicationLedger --------------------------
(***************************************************************************)
(* What the database promises of an application and its two logs, whatever  *)
(* the handlers do concurrently: a status that is a decision changes only   *)
(* together with its audit row, a stage only together with its history row, *)
(* and nothing else ever happens to an application.  Orderly steps are what *)
(* the documents promise on top: only an ACTIVE application changes, and a  *)
(* move starts at the stage the application is in.                          *)
(***************************************************************************)
EXTENDS Sequences

CONSTANTS Application, Job, Candidate, Stage, None

VARIABLES applications, stageHistory, auditLog

ledger == <<applications, stageHistory, auditLog>>

Exists(a) == applications[a] # None
IsActive(a) == Exists(a) /\ applications[a].status = "ACTIVE"

Same(a, b) ==
    /\ applications[a].job = applications[b].job
    /\ applications[a].candidate = applications[b].candidate

Init ==
    /\ \A a \in Application : Exists(a) => IsActive(a)
    /\ \A a, b \in Application : Exists(a) /\ Exists(b) /\ Same(a, b) => a = b
    /\ stageHistory = [a \in Application |-> <<>>]
    /\ auditLog = [a \in Application |-> <<>>]

\* A candidate with no ACTIVE application for the job gets one.
Apply(a) ==
    /\ ~ Exists(a)
    /\ \E j \in Job, c \in Candidate, s \in Stage :
         /\ \A b \in Application :
              IsActive(b) => applications[b].job # j \/ applications[b].candidate # c
         /\ applications' = [applications EXCEPT ![a] =
                [job |-> j, candidate |-> c, stage |-> s, status |-> "ACTIVE"]]
    /\ UNCHANGED <<stageHistory, auditLog>>

Withdraw(a) ==
    /\ Exists(a)
    /\ applications' = [applications EXCEPT ![a].status = "WITHDRAWN"]
    /\ UNCHANGED <<stageHistory, auditLog>>

Decide(a, status, action) ==
    /\ Exists(a)
    /\ applications' = [applications EXCEPT ![a].status = status]
    /\ auditLog' = [auditLog EXCEPT ![a] = Append(@, action)]
    /\ UNCHANGED stageHistory

Move(a, from, to) ==
    /\ Exists(a)
    /\ applications' = [applications EXCEPT ![a].stage = to]
    /\ stageHistory' = [stageHistory EXCEPT ![a] = Append(@, [from |-> from, to |-> to])]
    /\ UNCHANGED auditLog

Step(a) ==
    \/ Apply(a)
    \/ Withdraw(a)
    \/ Decide(a, "HIRED", "hired")
    \/ Decide(a, "REJECTED", "rejected")
    \/ \E from, to \in Stage : Move(a, from, to)

OrderlyStep(a) ==
    \/ Apply(a)
    \/ /\ IsActive(a)
       /\ \/ Withdraw(a)
          \/ Decide(a, "HIRED", "hired")
          \/ Decide(a, "REJECTED", "rejected")
          \/ \E to \in Stage : Move(a, applications[a].stage, to)

Spec == Init /\ [][\E a \in Application : Step(a)]_ledger

OrderlySpec == Init /\ [][\E a \in Application : OrderlyStep(a)]_ledger
=============================================================================
