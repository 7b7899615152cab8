------------------------ MODULE SubscriptionsService ------------------------
(***************************************************************************)
(* SubscriptionsService: the owner of an organization selects a plan.  One   *)
(* organization: no statement looks at another's rows.                       *)
(***************************************************************************)
EXTENDS Requests

CONSTANTS
    Plan,     \* Plan rows, which the seed inserts and nothing changes
    PaidPlan  \* those with a price above zero

ASSUME PlanAssumption == PaidPlan \subseteq Plan

VARIABLES
    subscription,  \* the Subscription row, a Selection, in a set; {} when there is none
    payments       \* Payment rows: amountCents is the price of a plan

subscriptionTables == <<subscription, payments>>

\* The plan, and the selectPlan() that wrote the row, which is no column.
Selection == [plan: Plan, by: Request]
Selected(r) == [plan |-> req[r].plan, by |-> r]

SubscriptionTablesInit ==
    /\ subscription = {}
    /\ payments = {}

\* selectPlan(): the plan is looked up by its key.
SelectPlan(r, p) ==
    /\ Arrives(r)
    /\ Goto(r, [pc |-> "subscribe", plan |-> p])
    /\ UNCHANGED subscriptionTables

\* Mutation of Subscribe: a change of plan is not charged.
SubscribeFirstPaid(r) ==
    /\ At(r, "subscribe")
    /\ subscription' = {Selected(r)}
    /\ Goto(r, IF req[r].plan \in PaidPlan /\ subscription = {}
               THEN [req[r] EXCEPT !.pc = "pay"] ELSE Done)
    /\ UNCHANGED payments

\* One ON CONFLICT upsert: organizationId is unique.
Subscribe(r) ==
    /\ At(r, "subscribe")
    /\ subscription' = {Selected(r)}
    /\ Goto(r, IF req[r].plan \in PaidPlan THEN [req[r] EXCEPT !.pc = "pay"] ELSE Done)
    /\ UNCHANGED payments

\* The charge is a stub that always succeeds.
CreatePayment(r) ==
    /\ At(r, "pay")
    /\ payments' = payments \cup {Selected(r)}
    /\ Finish(r)
    /\ UNCHANGED subscription

ContinueSubscription(r) == Subscribe(r) \/ CreatePayment(r)
=============================================================================
