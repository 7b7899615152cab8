---------------------------- MODULE OfferPromise ----------------------------
(***************************************************************************)
(* The life of an offer as the documents tell it: it is sent once, to a      *)
(* candidate the company hired, comes to one outcome, and only an accepted  *)
(* offer leads to onboarding.                                               *)
(***************************************************************************)
EXTENDS Sequences

CONSTANTS Application, None

VARIABLES auditLog, offers, checklists

Init ==
    /\ \A a \in Application : auditLog[a] = <<>>
    /\ offers = [a \in Application |-> None]
    /\ checklists = {}

Decide(a) ==
    /\ \E action \in {"hired", "rejected"} :
         auditLog' = [auditLog EXCEPT ![a] = Append(@, action)]
    /\ UNCHANGED <<offers, checklists>>

Send(a) ==
    /\ auditLog[a] # <<>> /\ auditLog[a][Len(auditLog[a])] = "hired"
    /\ offers[a] = None
    /\ offers' = [offers EXCEPT ![a] = "SENT"]
    /\ UNCHANGED <<auditLog, checklists>>

Conclude(a) ==
    /\ offers[a] = "SENT"
    /\ \E outcome \in {"ACCEPTED", "DECLINED", "EXPIRED"} :
         offers' = [offers EXCEPT ![a] = outcome]
    /\ UNCHANGED <<auditLog, checklists>>

Onboard(a) ==
    /\ offers[a] = "ACCEPTED"
    /\ checklists' = checklists \cup {a}
    /\ UNCHANGED <<auditLog, offers>>

Next == \E a \in Application : Decide(a) \/ Send(a) \/ Conclude(a) \/ Onboard(a)

Spec == Init /\ [][Next]_<<auditLog, offers, checklists>>
=============================================================================
