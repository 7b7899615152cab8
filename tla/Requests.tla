------------------------------ MODULE Requests ------------------------------
(***************************************************************************)
(* HTTP requests as processes.  NestJS runs each handler on one event loop: *)
(* a handler runs without interruption from one await to the next, and any  *)
(* other request may run while it awaits.  req[r] is what the handler of r  *)
(* holds across its current await: a record whose pc names the statement    *)
(* that comes next.  A handler that ends, with an answer or by throwing one *)
(* of its own errors, is Done; one that a failure cuts off is Lost.  The    *)
(* services name the records of their own handlers.                         *)
(***************************************************************************)
EXTENDS Naturals, FiniteSets

CONSTANTS
    Request,      \* the requests that may arrive, each handled once
    MaxInFlight,  \* how many of them the callers keep in flight at a time
    Unreliable    \* those that a failing statement or a crash may cut off

VARIABLE req

ASSUME RequestAssumption == MaxInFlight \in Nat /\ Unreliable \subseteq Request

Idle == [pc |-> "idle"]
Done == [pc |-> "done"]
Lost == [pc |-> "lost"]

RequestsInit == req = [r \in Request |-> Idle]

InFlight == {r \in Request : req[r] \notin {Idle, Done, Lost}}

At(r, pc) == req[r].pc = pc
Goto(r, state) == req' = [req EXCEPT ![r] = state]
Finish(r) == Goto(r, Done)

\* A new request reaches its handler.
Arrives(r) == req[r] = Idle /\ Cardinality(InFlight) < MaxInFlight

\* A statement throws, or the process dies, at the await r stands at.
Fails(r) == r \in Unreliable \cap InFlight /\ Goto(r, Lost)

CutOff == {r \in Request : req[r] = Lost}

AllDone == \A r \in Request : req[r] \in {Done, Lost}
=============================================================================
